----------------------------- MODULE ClarityMap -----------------------------
(***************************************************************************)
(* Clarity's define-map: a partial function.  map-get? answers none for a  *)
(* key outside its domain, map-set writes or overwrites one entry, and     *)
(* map-delete removes one.                                                 *)
(***************************************************************************)

MapSet(map, key, value) ==
    [k \in DOMAIN map \cup {key} |-> IF k = key THEN value ELSE map[k]]

MapDelete(map, key) == [k \in DOMAIN map \ {key} |-> map[k]]

EmptyMap == [k \in {} |-> {}]
=============================================================================
