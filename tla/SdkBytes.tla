------------------------------- MODULE SdkBytes -------------------------------
(***************************************************************************)
(* Byte strings of the SDK, scaled down: utils/crypto.ts and the hashes    *)
(* that make up a commitment.  SHA-256 is a free function of its input: a  *)
(* byte of a hash is told apart by what was hashed and by its place.       *)
(***************************************************************************)
EXTENDS Naturals, Sequences

CONSTANTS
    HashLength,  \* 32, the bytes of a hash, a secret and a nullifier
    FeeLength,   \* 16, the bytes of a uint
    Radix        \* 256, the values of a byte

ASSUME SdkBytesAssumption ==
    HashLength \in Nat \ {0} /\ FeeLength \in Nat \ {0} /\ Radix \in Nat \ {0, 1}

\* A byte that was hashed to, and a plain one.
Byte(preimage, place) == <<preimage, place>>

Plain(value) == Byte(<<>>, value)

Zeros(length) == [i \in 1 .. length |-> Plain(0)]

Sha256(bytes) == [i \in 1 .. HashLength |-> Byte(bytes, i)]

\* A value shifted right, once, twice and so on; each shift divides it by a radix.
Remaining(value, radix, width) ==
    LET remaining[shifts \in 0 .. width] ==
            IF shifts = 0 THEN value ELSE remaining[shifts - 1] \div radix
    IN  remaining

\* bigintToUint128BE: the last byte is taken first, and then the value shifted.  It
\* throws when something would remain.
BigEndian(value, width) ==
    [i \in 1 .. width |-> Plain(Remaining(value, Radix, width)[width - i] % Radix)]

IsUint(value) == value \in Nat /\ Remaining(value, Radix, FeeLength)[FeeLength] = 0

Uint128BE(value) == BigEndian(value, FeeLength)

Commitment(secret, nullifier, amount) == Sha256(secret \o nullifier \o Uint128BE(amount))

NullifierHash(nullifier) == Sha256(nullifier)
=============================================================================
