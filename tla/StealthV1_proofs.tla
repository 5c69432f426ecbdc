--------------------------- MODULE StealthV1_proofs ---------------------------
(***************************************************************************)
(* Proofs of the properties of StealthV1 for every set of principals,      *)
(* names and keys.                                                         *)
(***************************************************************************)
EXTENDS StealthV1, TLAPS

\* The three invariants hold or fail together with the variables they speak of.
StealthInv == TypeOK /\ NamesResolve /\ LinksAttested

LEMMA StealthInit == Init => StealthInv
<1>1. DOMAIN EmptyMap = {}
  BY DEF EmptyMap
<1> QED
  BY <1>1, StealthAssumption
     DEF Init, StealthInv, TypeOK, NamesResolve, LinksAttested

-----------------------------------------------------------------------------
(***************************************************************************)
(* What each kind of transaction does to the invariant.                    *)
(***************************************************************************)

\* Publishing keys: only the sender's entry changes, and none is lost.
LEMMA PublishingKeeps ==
    ASSUME StealthInv, NEW sender \in Principals, txSender' = sender,
           NEW spend \in Pubkeys, NEW view \in Pubkeys,
           ValidMetaAddressKeys(spend, view),
           SetMetaAddress(sender, spend, view)
    PROVE  StealthInv'
<1> DEFINE keys == [spendPubkey |-> spend, viewPubkey |-> view]
<1>1. keys \in MetaAddress
  BY DEF ValidMetaAddressKeys, MetaAddress
<1>2. stealthMetaAddresses' = MapSet(stealthMetaAddresses, sender, keys)
  BY DEF SetMetaAddress
<1> HIDE DEF keys
<1>3. /\ DOMAIN stealthMetaAddresses' = DOMAIN stealthMetaAddresses \cup {sender}
      /\ stealthMetaAddresses'[sender] = keys
      /\ \A p \in DOMAIN stealthMetaAddresses :
             p # sender => stealthMetaAddresses'[p] = stealthMetaAddresses[p]
  BY <1>2 DEF MapSet
<1>4. TypeOK'
  BY <1>1, <1>3 DEF StealthInv, TypeOK, SetMetaAddress
<1>5. NamesResolve'
  BY <1>3 DEF StealthInv, NamesResolve, HasMetaAddress, SetMetaAddress
<1>6. LinksAttested'
  BY DEF StealthInv, LinksAttested, Attested, SetMetaAddress
<1> QED
  BY <1>4, <1>5, <1>6 DEF StealthInv

\* The contract owner's transactions touch neither links nor attestations.
LEMMA ConfiguringKeeps ==
    ASSUME StealthInv, NEW sender \in Principals, txSender' = sender,
           \/ \E enabled \in BOOLEAN : EnableBnsVerification(sender, enabled)
           \/ \E verifier \in Principals, authorized \in BOOLEAN :
                  SetAuthorizedVerifier(sender, verifier, authorized)
    PROVE  StealthInv'
BY DEF StealthInv, TypeOK, NamesResolve, LinksAttested, Attested, HasMetaAddress,
       EnableBnsVerification, SetAuthorizedVerifier

\* An attestation for another than the owner of a link excuses the link.
LEMMA VerifyingKeeps ==
    ASSUME StealthInv, NEW sender \in Principals, txSender' = sender,
           NEW name \in Names, NEW owner \in Principals,
           VerifyBnsName(sender, name, owner)
    PROVE  StealthInv'
<1>1. /\ DOMAIN verifiedBnsNames' = DOMAIN verifiedBnsNames \cup {name}
      /\ verifiedBnsNames'[name] = owner
      /\ \A n \in DOMAIN verifiedBnsNames :
             n # name => verifiedBnsNames'[n] = verifiedBnsNames[n]
  BY DEF VerifyBnsName, MapSet
<1>2. /\ btcNameToOwner' = btcNameToOwner
      /\ stealthMetaAddresses' = stealthMetaAddresses
      /\ excused' = IF FreeFor(name, owner) THEN excused ELSE excused \cup {name}
  BY DEF VerifyBnsName
<1>3. TypeOK'
  BY <1>1, <1>2 DEF StealthInv, TypeOK, VerifyBnsName, FreeFor
<1>4. NamesResolve'
  BY <1>2 DEF StealthInv, NamesResolve, HasMetaAddress
<1>5. LinksAttested'
  BY <1>1, <1>2 DEF StealthInv, LinksAttested, Attested, FreeFor
<1> QED
  BY <1>3, <1>4, <1>5 DEF StealthInv

\* A link is made by a principal with keys, attested unless it is excused.
LEMMA LinkingKeeps ==
    ASSUME StealthInv, NEW sender \in Principals, txSender' = sender,
           NEW name \in Names, LinkBtcName(sender, name)
    PROVE  StealthInv'
<1>1. /\ DOMAIN btcNameToOwner' = DOMAIN btcNameToOwner \cup {name}
      /\ btcNameToOwner'[name] = sender
      /\ \A n \in DOMAIN btcNameToOwner :
             n # name => btcNameToOwner'[n] = btcNameToOwner[n]
  BY DEF LinkBtcName, Link, MapSet
<1>2. /\ HasMetaAddress(sender) /\ MayLink(name, sender)
      /\ excused' = IF bnsVerificationEnabled THEN excused \ {name}
                    ELSE excused \cup {name}
      /\ UNCHANGED <<stealthMetaAddresses, bnsVerificationEnabled,
                     authorizedVerifiers, verifiedBnsNames>>
  BY DEF LinkBtcName, Link
<1>3. TypeOK'
  BY <1>1, <1>2 DEF StealthInv, TypeOK
<1>4. NamesResolve'
  BY <1>1, <1>2 DEF StealthInv, NamesResolve, HasMetaAddress
<1>5. LinksAttested'
  BY <1>1, <1>2 DEF StealthInv, LinksAttested, Attested, MayLink
<1> QED
  BY <1>3, <1>4, <1>5 DEF StealthInv

\* Unlinking takes the name out of every set it was in.
LEMMA UnlinkingKeeps ==
    ASSUME StealthInv, NEW sender \in Principals, txSender' = sender,
           NEW name \in Names, UnlinkBtcName(sender, name)
    PROVE  StealthInv'
<1>1. /\ DOMAIN btcNameToOwner' = DOMAIN btcNameToOwner \ {name}
      /\ \A n \in DOMAIN btcNameToOwner \ {name} :
             btcNameToOwner'[n] = btcNameToOwner[n]
  BY DEF UnlinkBtcName, MapDelete
<1>2. /\ excused' = excused \ {name}
      /\ UNCHANGED <<stealthMetaAddresses, bnsVerificationEnabled,
                     authorizedVerifiers, verifiedBnsNames>>
  BY DEF UnlinkBtcName
<1>3. TypeOK'
  BY <1>1, <1>2 DEF StealthInv, TypeOK
<1>4. NamesResolve'
  BY <1>1, <1>2 DEF StealthInv, NamesResolve, HasMetaAddress
<1>5. LinksAttested'
  BY <1>1, <1>2 DEF StealthInv, LinksAttested, Attested
<1> QED
  BY <1>3, <1>4, <1>5 DEF StealthInv

LEMMA StealthStep == StealthInv /\ [Next]_vars => StealthInv'
<1> SUFFICES ASSUME StealthInv, [Next]_vars PROVE StealthInv'
  OBVIOUS
<1>1. CASE UNCHANGED vars
  BY <1>1 DEF StealthInv, TypeOK, NamesResolve, LinksAttested, Attested,
              HasMetaAddress, vars, stealthVars
<1>2. CASE Next
  <2>1. PICK sender \in Principals : Transaction(sender) /\ txSender' = sender
    BY <1>2 DEF Next
  <2>2. CASE \E spend, view \in Pubkeys :
                 \/ RegisterMetaAddress(sender, spend, view)
                 \/ UpdateMetaAddress(sender, spend, view)
    BY <2>1, <2>2, PublishingKeeps DEF RegisterMetaAddress, UpdateMetaAddress
  <2>3. CASE \/ \E enabled \in BOOLEAN : EnableBnsVerification(sender, enabled)
             \/ \E verifier \in Principals, authorized \in BOOLEAN :
                    SetAuthorizedVerifier(sender, verifier, authorized)
    BY <2>1, <2>3, ConfiguringKeeps
  <2>4. CASE \E name \in Names :
                 \/ \E owner \in Principals : VerifyBnsName(sender, name, owner)
                 \/ LinkBtcName(sender, name)
                 \/ UnlinkBtcName(sender, name)
    BY <2>1, <2>4, VerifyingKeeps, LinkingKeeps, UnlinkingKeeps
  <2> QED
    BY <2>1, <2>2, <2>3, <2>4 DEF Transaction
<1> QED
  BY <1>1, <1>2

LEMMA StealthInvHolds == Spec => []StealthInv
<1> QED
  BY StealthInit, StealthStep, PTL DEF Spec

-----------------------------------------------------------------------------
(***************************************************************************)
(* The theorems.                                                           *)
(***************************************************************************)

\* Every variable keeps its type, and every published key is a compressed one.
THEOREM StealthTyped == Spec => []TypeOK
<1>1. StealthInv => TypeOK
  BY DEF StealthInv
<1> QED
  BY <1>1, StealthInvHolds, PTL

\* Every linked name resolves to a meta-address.
THEOREM LinkedNamesResolve == Spec => []NamesResolve
<1>1. StealthInv => NamesResolve
  BY DEF StealthInv
<1> QED
  BY <1>1, StealthInvHolds, PTL

\* A name linked to another than its attested owner was linked unverified, or was
\* attested to that other since.
THEOREM LinksStayAttested == Spec => []LinksAttested
<1>1. StealthInv => LinksAttested
  BY DEF StealthInv
<1> QED
  BY <1>1, StealthInvHolds, PTL

\* What a linked name resolves to is changed by its owner only.
THEOREM OwnersAloneRedirect == Spec => OnlyOwnersRedirect
<1> DEFINE Kept == \A n \in DOMAIN btcNameToOwner :
                       \/ txSender' = btcNameToOwner[n]
                       \/ /\ n \in DOMAIN btcNameToOwner'
                          /\ btcNameToOwner'[n] = btcNameToOwner[n]
                          /\ GetMetaAddressByName(n)' = GetMetaAddressByName(n)
<1>1. StealthInv /\ [Next]_vars => [Kept]_vars
  <2> SUFFICES ASSUME StealthInv, Next PROVE Kept
    OBVIOUS
  <2> SUFFICES ASSUME NEW n \in DOMAIN btcNameToOwner, txSender' # btcNameToOwner[n]
               PROVE  /\ n \in DOMAIN btcNameToOwner'
                      /\ btcNameToOwner'[n] = btcNameToOwner[n]
                      /\ stealthMetaAddresses'[btcNameToOwner[n]] =
                             stealthMetaAddresses[btcNameToOwner[n]]
    BY DEF GetMetaAddressByName
  <2>1. PICK sender \in Principals : Transaction(sender) /\ txSender' = sender
    BY DEF Next
  <2>2. btcNameToOwner[n] \in DOMAIN stealthMetaAddresses
    BY DEF StealthInv, NamesResolve, HasMetaAddress
  <2>3. CASE \E spend, view \in Pubkeys :
                 \/ RegisterMetaAddress(sender, spend, view)
                 \/ UpdateMetaAddress(sender, spend, view)
    <3>1. PICK spend \in Pubkeys, view \in Pubkeys : SetMetaAddress(sender, spend, view)
      BY <2>3 DEF RegisterMetaAddress, UpdateMetaAddress
    <3> QED
      BY <2>1, <2>2, <3>1 DEF SetMetaAddress, MapSet
  <2>4. CASE \/ \E enabled \in BOOLEAN : EnableBnsVerification(sender, enabled)
             \/ \E verifier \in Principals, authorized \in BOOLEAN :
                    SetAuthorizedVerifier(sender, verifier, authorized)
             \/ \E name \in Names, owner \in Principals :
                    VerifyBnsName(sender, name, owner)
    BY <2>4 DEF EnableBnsVerification, SetAuthorizedVerifier, VerifyBnsName
  <2>5. CASE \E name \in Names : LinkBtcName(sender, name)
    <3>1. PICK name \in Names : LinkBtcName(sender, name)
      BY <2>5
    <3> QED
      BY <2>1, <3>1 DEF LinkBtcName, Link, FreeFor, MapSet
  <2>6. CASE \E name \in Names : UnlinkBtcName(sender, name)
    <3>1. PICK name \in Names : UnlinkBtcName(sender, name)
      BY <2>6
    <3> QED
      BY <2>1, <3>1 DEF UnlinkBtcName, LinkedTo, MapDelete
  <2> QED
    BY <2>1, <2>3, <2>4, <2>5, <2>6 DEF Transaction
<1> QED
  BY <1>1, StealthInvHolds, PTL DEF Spec, OnlyOwnersRedirect
=============================================================================
