----------------------------- MODULE StealthAddress -----------------------------
(***************************************************************************)
(* Stealth payments: keys, meta-addresses, one-time addresses, and how the *)
(* recipient, with the SDK or the scanner, finds and spends them.  A point *)
(* of the curve is its logarithm: a number below Order, where 0 is what    *)
(* no key decodes to and no key is made of.  SHA-256 of a point is any     *)
(* function, chosen at the start; that includes those with a hash that     *)
(* reduces to 0.  An address is told apart by its version and its key:     *)
(* hash160 and the c32 digits of a fixed length are taken to be injective. *)
(***************************************************************************)
EXTENDS Naturals, FiniteSets

CONSTANTS
    Order,       \* of the curve, a prime
    Hashes,      \* values of SHA-256, as numbers
    MaxPayments  \* bound: payments sent over the run

ASSUME StealthAddressAssumption ==
    Order \in Nat \ {0, 1} /\ Hashes \subseteq Nat /\ MaxPayments \in Nat

VARIABLES
    sha,      \* SHA-256 of points, and the view key of a spend key
    payments  \* payments to stealth addresses

paymentVars == <<sha, payments>>

Points == 1 .. Order - 1

Networks == {"mainnet", "testnet", "devnet"}

\* secp.getPublicKey and multiply; getSharedSecret is symmetric in its two scalars.
Times(scalar, point) == (scalar * point) % Order

PublicKey(privKey) == privKey

Plus(point, other) == (point + other) % Order

\* bytesToScalar; and a form that keeps a scalar of zero, with which multiply throws.
ScalarZeroKept(hash) == hash % Order

BytesToScalar(hash) == IF hash % Order = 0 THEN 1 ELSE hash % Order

SharedHash(scalar, point) == sha.ofPoint[Times(scalar, point)]

\* deriveViewKeyFromSpend: an HMAC of the spend key.
ViewKey(spendPrivKey) == sha.viewKey[spendPrivKey]

\* publicKeyToStacksAddress: devnet addresses are those of testnet.
Address(pubKey, network) ==
    [version |-> IF network = "mainnet" THEN 22 ELSE 26, key |-> pubKey]

\* encodeMetaAddress and decodeMetaAddress throw unless both keys are on the curve.
MetaKeys(spendPubKey, viewPubKey) == <<spendPubKey, viewPubKey>>

Decodes(meta) == meta[1] \in Points /\ meta[2] \in Points

-----------------------------------------------------------------------------
\* deriveStealthAddress; a sum that is no point throws.
StealthPubKey(r, meta) ==
    Plus(meta[1], PublicKey(BytesToScalar(SharedHash(r, meta[2]))))

\* The key for a stealth address.
StealthPrivKey(spendPrivKey, hash) == (spendPrivKey + BytesToScalar(hash)) % Order

\* checkStealthPayment and verifyStealthPayment, with the keys of a recipient.
ExpectedKey(ephemeral, spendPrivKey) ==
    Plus(PublicKey(spendPrivKey),
         PublicKey(BytesToScalar(SharedHash(ViewKey(spendPrivKey), ephemeral))))

CheckStealthPayment(payment, spendPrivKey, network) ==
    LET expected == ExpectedKey(payment.ephemeral, spendPrivKey)
    IN  expected \in Points /\ Address(expected, network) = payment.address

\* tryDecryptPayment of the scanner, which has helpers of its own.
ScannerAddress(pubKey, network) ==
    [version |-> IF network = "mainnet" THEN 22 ELSE 26, key |-> pubKey]

ScannerScalar(hash) == IF hash % Order = 0 THEN 1 ELSE hash % Order

TryDecryptPayment(payment, viewPrivKey, spendPubKey, network) ==
    LET scalar == ScannerScalar(SharedHash(viewPrivKey, payment.ephemeral))
        expected == Plus(spendPubKey, PublicKey(scalar))
    IN  /\ scalar # 0 /\ expected \in Points
        /\ ScannerAddress(expected, network) = payment.address

-----------------------------------------------------------------------------
PaymentInit ==
    /\ sha \in [ofPoint : [Points -> Hashes], viewKey : [Points -> Points]]
    /\ payments = {}

\* A sender pays a recipient who published a meta-address, with an ephemeral key.
PayTo(meta, network) ==
    /\ Decodes(meta)
    /\ \E r \in Points :
           /\ StealthPubKey(r, meta) \in Points
           /\ payments' = payments \cup
                  {[ephemeral |-> PublicKey(r), meta |-> meta, network |-> network,
                    address |-> Address(StealthPubKey(r, meta), network)]}

\* deriveSelfStealth: the owner pays into an address of its own.
PaySelf(spendPrivKey, network) ==
    PayTo(MetaKeys(PublicKey(spendPrivKey), PublicKey(ViewKey(spendPrivKey))), network)

PaymentNext ==
    /\ Cardinality(payments) < MaxPayments
    /\ UNCHANGED sha
    /\ \E network \in Networks :
           \/ \E spend, view \in {0} \cup Points : PayTo(MetaKeys(spend, view), network)
           \/ \E spendPrivKey \in Points : PaySelf(spendPrivKey, network)

PaymentSpec == PaymentInit /\ [][PaymentNext]_paymentVars

-----------------------------------------------------------------------------
\* "Recipient scans: S' = viewPrivKey * R, checks if spendPubKey + hash(S')*G matches",
\* stealth-address.ts:12: every payment to the meta-address of a recipient is found by its
\* owner and by its scanner, whatever hash a shared secret has; and whoever finds a payment
\* to be theirs, on any network, has the key to its address.
PaymentsFound ==
    \A payment \in payments, spendPrivKey \in Points :
        /\ payment.meta = MetaKeys(PublicKey(spendPrivKey), PublicKey(ViewKey(spendPrivKey)))
              => /\ CheckStealthPayment(payment, spendPrivKey, payment.network)
                 /\ TryDecryptPayment(payment, ViewKey(spendPrivKey),
                                      PublicKey(spendPrivKey), payment.network)
        /\ \A network \in Networks :
              CheckStealthPayment(payment, spendPrivKey, network)
                  => payment.address.key = PublicKey(StealthPrivKey(spendPrivKey,
                         SharedHash(ViewKey(spendPrivKey), payment.ephemeral)))
=============================================================================
