------------------------------ MODULE MerkleTree ------------------------------
(***************************************************************************)
(* merkle-tree: the incremental commitment tree.  A hash is a free term,   *)
(* so that two roots are equal exactly when they hash the same inputs in   *)
(* the same order; leaves and ZERO-HASH-0 are atoms.                       *)
(***************************************************************************)
EXTENDS StacksChain, ClarityMap

CONSTANTS
    TreeDepth,  \* 20 in the contract
    MaxLeaves,  \* MAX-LEAVES, 2^20 in the contract
    ZeroHash0   \* ZERO-HASH-0, an atom that is no commitment

\* bit-shift-right
ShiftedRight(index, level) ==
    LET halved[by \in 0 .. TreeDepth] == IF by = 0 THEN index ELSE halved[by - 1] \div 2
    IN  halved[level]

\* Every index has TreeDepth bits at the most.
ASSUME TreeAssumption ==
    /\ TreeDepth \in Nat \ {0}
    /\ MaxLeaves \in Nat
    /\ \A index \in 0 .. MaxLeaves - 1 : ShiftedRight(index, TreeDepth) = 0

VARIABLES
    currentRoot,        \* the data var current-root
    nextLeafIndex,      \* the data var next-leaf-index
    treeFrontier,       \* the map tree-frontier: level -> hash
    knownRoots,         \* the keys of known-roots
    authorizedCallers   \* the callers that authorized-callers maps to true

treeVars ==
    <<currentRoot, nextLeafIndex, treeFrontier, knownRoots, authorizedCallers>>

\* LEVEL-INDICES, what the contract's folds run over.
Levels == 0 .. TreeDepth - 1

Hash(left, right) == <<left, right>>

\* ZERO-HASH-n: the hash of a pair of ZERO-HASH-(n-1).
ZeroHash[level \in Levels] ==
    IF level = 0 THEN ZeroHash0 ELSE Hash(ZeroHash[level - 1], ZeroHash[level - 1])

EmptyRoot == Hash(ZeroHash[TreeDepth - 1], ZeroHash[TreeDepth - 1])

BitAtLevel(index, level) == ShiftedRight(index, level) % 2

FrontierOrZero(frontier, level) ==
    IF level \in DOMAIN frontier THEN frontier[level] ELSE ZeroHash[level]

\* find-stored-level: the lowest level at which the index has a 0 bit, or
\* TreeDepth when every bit is 1.
StoredLevel(index) ==
    CHOOSE level \in 0 .. TreeDepth :
        /\ level < TreeDepth => BitAtLevel(index, level) = 0
        /\ \A lower \in 0 .. level - 1 : BitAtLevel(index, lower) = 1

\* The fold of process-level: below the stored level, each level hashes the
\* frontier (or the zero hash) with the hash carried up.
HashAtStoredLevel(frontier, leaf, index) ==
    LET carried[level \in 0 .. TreeDepth] ==
            IF level = 0
            THEN leaf
            ELSE Hash(FrontierOrZero(frontier, level - 1), carried[level - 1])
    IN  carried[StoredLevel(index)]

\* compute-root-level: the zero hash goes on the side the index bit tells.
HashWithZero(hash, zero, bit) == IF bit = 0 THEN Hash(hash, zero) ELSE Hash(zero, hash)

\* The fold of compute-root-level: every level above the stored one hashes the
\* result with that level's zero hash.
RootAbove(hash, index) ==
    LET stored == StoredLevel(index)
        upTo[level \in stored .. TreeDepth - 1] ==
            IF level = stored
            THEN hash
            ELSE HashWithZero(upTo[level - 1], ZeroHash[level], BitAtLevel(index, level))
    IN  IF stored = TreeDepth THEN hash ELSE upTo[TreeDepth - 1]

MerkleTreeInit ==
    /\ currentRoot = EmptyRoot
    /\ nextLeafIndex = 0
    /\ treeFrontier = EmptyMap
    /\ knownRoots = {EmptyRoot}
    /\ authorizedCallers = {}

IsKnownRoot(root) == root \in knownRoots

IsAuthorized(caller) == caller = ContractOwner \/ caller \in authorizedCallers

\* append-leaf; caller is contract-caller.
AppendLeaf(caller, leaf) ==
    LET index == nextLeafIndex
        hash  == HashAtStoredLevel(treeFrontier, leaf, index)
        root  == RootAbove(hash, index)
    IN  /\ IsAuthorized(caller)
        /\ index < MaxLeaves
        /\ treeFrontier' = IF StoredLevel(index) = TreeDepth
                           THEN treeFrontier
                           ELSE MapSet(treeFrontier, StoredLevel(index), hash)
        /\ currentRoot' = root
        /\ nextLeafIndex' = index + 1
        /\ knownRoots' = knownRoots \cup {root}
        /\ UNCHANGED authorizedCallers

\* set-authorized-caller; only the deployer's own transaction passes its test.
SetAuthorizedCaller(sender, caller, authorized) ==
    /\ sender = ContractOwner
    /\ authorizedCallers' = IF authorized
                            THEN authorizedCallers \cup {caller}
                            ELSE authorizedCallers \ {caller}
    /\ UNCHANGED <<currentRoot, nextLeafIndex, treeFrontier, knownRoots>>
=============================================================================
