------------------------------ MODULE StealthV1 ------------------------------
(***************************************************************************)
(* stealth-v1: principals publish a meta-address, a spend and a view key,  *)
(* and may link BNS names to themselves; senders resolve a name to the     *)
(* meta-address they pay to.  With verification enabled a link needs a     *)
(* verifier's attestation that the name belongs to the caller.             *)
(*                                                                         *)
(* The contract checks tx-sender alone, so a transaction is a step with    *)
(* its sender.  The height of an attestation is stored for lookups only    *)
(* and left out.                                                           *)
(***************************************************************************)
EXTENDS ClarityMap, Naturals

CONSTANTS
    Principals,
    ContractOwner,  \* CONTRACT-OWNER, the deployer
    Names,          \* the BNS names transactions mention
    Pubkeys         \* the key buffers transactions mention

ASSUME StealthAssumption ==
    /\ ContractOwner \in Principals
    /\ Pubkeys \subseteq [length : 0 .. 33, prefix : 0 .. 255]

VARIABLES
    stealthMetaAddresses,    \* owner -> spend and view key
    btcNameToOwner,          \* name -> owner
    bnsVerificationEnabled,
    authorizedVerifiers,     \* the principals mapped to authorized: true
    verifiedBnsNames,        \* name -> attested owner
    txSender,                \* the sender of the last transaction
    excused                  \* history: names linked unverified, or attested to
                             \* another since they were linked

stealthVars == <<stealthMetaAddresses, btcNameToOwner, bnsVerificationEnabled,
                 authorizedVerifiers, verifiedBnsNames>>

vars == <<stealthVars, txSender, excused>>

\* validate-compressed-pubkey.  A buffer is its length and, if not empty, its first
\* byte.
ValidCompressedPubkey(pubkey) ==
    /\ pubkey.length = 33
    /\ pubkey.prefix \in {2, 3}

ValidMetaAddressKeys(spend, view) ==
    ValidCompressedPubkey(spend) /\ ValidCompressedPubkey(view)

MetaAddress ==
    [spendPubkey : {key \in Pubkeys : ValidCompressedPubkey(key)},
     viewPubkey : {key \in Pubkeys : ValidCompressedPubkey(key)}]

HasMetaAddress(owner) == owner \in DOMAIN stealthMetaAddresses

\* get-meta-address-by-name of a linked name.
GetMetaAddressByName(name) == stealthMetaAddresses[btcNameToOwner[name]]

Attested(name, owner) ==
    name \in DOMAIN verifiedBnsNames /\ verifiedBnsNames[name] = owner

\* What link-btc-name asserts of attestations; and a form that asks only that the
\* name has been verified.
VerifiedForSomeone(name, sender) ==
    bnsVerificationEnabled => name \in DOMAIN verifiedBnsNames

MayLink(name, sender) == bnsVerificationEnabled => Attested(name, sender)

\* What link-btc-name and unlink-btc-name assert of the name's present owner; and a
\* form of the second that does not ask who that is.
FreeFor(name, sender) ==
    name \in DOMAIN btcNameToOwner => btcNameToOwner[name] = sender

LinkedToAnyone(name, sender) == name \in DOMAIN btcNameToOwner

LinkedTo(name, sender) ==
    name \in DOMAIN btcNameToOwner /\ btcNameToOwner[name] = sender

-----------------------------------------------------------------------------
Init ==
    /\ stealthMetaAddresses = EmptyMap
    /\ btcNameToOwner = EmptyMap
    /\ bnsVerificationEnabled = FALSE
    /\ authorizedVerifiers = {}
    /\ verifiedBnsNames = EmptyMap
    /\ txSender = ContractOwner
    /\ excused = {}

SetMetaAddress(sender, spend, view) ==
    /\ stealthMetaAddresses' = MapSet(stealthMetaAddresses, sender,
                                      [spendPubkey |-> spend, viewPubkey |-> view])
    /\ UNCHANGED <<btcNameToOwner, bnsVerificationEnabled, authorizedVerifiers,
                   verifiedBnsNames, excused>>

RegisterMetaAddress(sender, spend, view) ==
    /\ ValidMetaAddressKeys(spend, view)
    /\ SetMetaAddress(sender, spend, view)

\* update-meta-address.
UpdateMetaAddress(sender, spend, view) ==
    /\ HasMetaAddress(sender)
    /\ ValidMetaAddressKeys(spend, view)
    /\ SetMetaAddress(sender, spend, view)

EnableBnsVerification(sender, enabled) ==
    /\ sender = ContractOwner
    /\ bnsVerificationEnabled' = enabled
    /\ UNCHANGED <<stealthMetaAddresses, btcNameToOwner, authorizedVerifiers,
                   verifiedBnsNames, excused>>

SetAuthorizedVerifier(sender, verifier, authorized) ==
    /\ sender = ContractOwner
    /\ authorizedVerifiers' = IF authorized THEN authorizedVerifiers \cup {verifier}
                              ELSE authorizedVerifiers \ {verifier}
    /\ UNCHANGED <<stealthMetaAddresses, btcNameToOwner, bnsVerificationEnabled,
                   verifiedBnsNames, excused>>

VerifyBnsName(sender, name, owner) ==
    /\ sender \in authorizedVerifiers
    /\ verifiedBnsNames' = MapSet(verifiedBnsNames, name, owner)
    /\ excused' = IF FreeFor(name, owner) THEN excused ELSE excused \cup {name}
    /\ UNCHANGED <<stealthMetaAddresses, btcNameToOwner, bnsVerificationEnabled,
                   authorizedVerifiers>>

\* link-btc-name; and what it does without its first assertion.
Link(sender, name) ==
    /\ MayLink(name, sender)
    /\ FreeFor(name, sender)
    /\ btcNameToOwner' = MapSet(btcNameToOwner, name, sender)
    /\ excused' = IF bnsVerificationEnabled THEN excused \ {name} ELSE excused \cup {name}
    /\ UNCHANGED <<stealthMetaAddresses, bnsVerificationEnabled, authorizedVerifiers,
                   verifiedBnsNames>>

LinkBtcName(sender, name) ==
    /\ HasMetaAddress(sender)
    /\ Link(sender, name)

UnlinkBtcName(sender, name) ==
    /\ LinkedTo(name, sender)
    /\ btcNameToOwner' = MapDelete(btcNameToOwner, name)
    /\ excused' = excused \ {name}
    /\ UNCHANGED <<stealthMetaAddresses, bnsVerificationEnabled, authorizedVerifiers,
                   verifiedBnsNames>>

Transaction(sender) ==
    \/ \E spend, view \in Pubkeys :
           \/ RegisterMetaAddress(sender, spend, view)
           \/ UpdateMetaAddress(sender, spend, view)
    \/ \E enabled \in BOOLEAN : EnableBnsVerification(sender, enabled)
    \/ \E verifier \in Principals, authorized \in BOOLEAN :
           SetAuthorizedVerifier(sender, verifier, authorized)
    \/ \E name \in Names :
           \/ \E owner \in Principals : VerifyBnsName(sender, name, owner)
           \/ LinkBtcName(sender, name)
           \/ UnlinkBtcName(sender, name)

Next ==
    \E sender \in Principals :
        /\ Transaction(sender)
        /\ txSender' = sender

Spec == Init /\ [][Next]_vars

-----------------------------------------------------------------------------
(***************************************************************************)
(* Properties.                                                             *)
(***************************************************************************)

\* Keys and values have their types; in particular every published key is valid.
TypeOK ==
    /\ DOMAIN stealthMetaAddresses \subseteq Principals
    /\ \A p \in DOMAIN stealthMetaAddresses : stealthMetaAddresses[p] \in MetaAddress
    /\ DOMAIN btcNameToOwner \subseteq Names
    /\ \A n \in DOMAIN btcNameToOwner : btcNameToOwner[n] \in Principals
    /\ bnsVerificationEnabled \in BOOLEAN
    /\ authorizedVerifiers \subseteq Principals
    /\ DOMAIN verifiedBnsNames \subseteq Names
    /\ \A n \in DOMAIN verifiedBnsNames : verifiedBnsNames[n] \in Principals
    /\ txSender \in Principals
    /\ excused \subseteq DOMAIN btcNameToOwner

\* A linked name resolves: its owner has a meta-address, however names and keys have
\* been registered, linked and unlinked, so a sender who finds the link can pay.
NamesResolve == \A n \in DOMAIN btcNameToOwner : HasMetaAddress(btcNameToOwner[n])

\* Whoever pays to a name pays to keys its owner chose: neither another principal, nor
\* a verifier, nor the contract owner can make a linked name resolve to other keys.
OnlyOwnersRedirect ==
    [][\A n \in DOMAIN btcNameToOwner :
           \/ txSender' = btcNameToOwner[n]
           \/ /\ n \in DOMAIN btcNameToOwner'
              /\ btcNameToOwner'[n] = btcNameToOwner[n]
              /\ GetMetaAddressByName(n)' = GetMetaAddressByName(n)]_vars

\* A name is linked to another than its attested owner only if it was linked while
\* verification was off, or was attested to another after it was linked: switching
\* verification, revoking verifiers and linking anew leave no other gap.
LinksAttested ==
    \A n \in DOMAIN btcNameToOwner \ excused : Attested(n, btcNameToOwner[n])
=============================================================================
