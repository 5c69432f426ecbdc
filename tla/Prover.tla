-------------------------------- MODULE Prover --------------------------------
(***************************************************************************)
(* Withdrawal proofs: the loader of the WASM prover, the witness, the two  *)
(* backends and their byte formats, local verification, and the first      *)
(* checks of the contract those bytes are sent to.                         *)
(***************************************************************************)
EXTENDS SdkBytes, Integers, SequencesExt, FiniteSets

CONSTANTS
    PathLength,     \* TREE_DEPTH - 1
    ByteBits,       \* 8, the bits of a byte
    MaxProofBytes,  \* MAX_PROOF_BYTES
    Recipients,     \* addresses, as their bytes
    Fees,           \* relayer fees
    RawLengths,     \* lengths of the proofs the WASM prover answers with
    Secrets,        \* bound: as many notes, each of a secret and nullifier of its own
    Loaders,        \* bound: calls of loadWasmProver that may overlap
    MaxResets,      \* bound: how often the loader is reset
    MaxProofs       \* bound: proofs generated over the run

ASSUME ProverAssumption ==
    /\ {PathLength, MaxProofBytes, MaxResets, MaxProofs} \subseteq Nat
    /\ ByteBits \in Nat \ {0}
    /\ Recipients \subseteq Seq({Plain(value) : value \in 0 .. Radix - 1})
    /\ RawLengths \subseteq Nat /\ Secrets \in Nat /\ \A fee \in Fees : IsUint(fee)

VARIABLES
    wasmModule,     \* the cached module: whether there is one
    loadAttempted,  \* whether a load was attempted
    loading,        \* calls of loadWasmProver that read the file
    reads,          \* history: how often the file was read
    resets,         \* how often the loader was reset, or the module cleared
    proofs          \* the proofs generated, with the path they were made from

proverVars == <<wasmModule, loadAttempted, loading, reads, resets, proofs>>

-----------------------------------------------------------------------------
(***************************************************************************)
(* The witness.                                                            *)
(***************************************************************************)
SecretOf(n) == [i \in 1 .. HashLength |-> Plain(n % Radix)]

Siblings(length) == [i \in 1 .. length |-> Sha256(<<Plain(i)>>)]

\* MAX_LEAVES, of a tree one level deeper than a path is long.
MaxLeaves == 2^(PathLength + 1)

\* What a caller may pass in: a note, its index at either end of the tree or past it, paths
\* of several lengths, any directions.
PrivateInputs ==
    UNION {[secret : {SecretOf(2 * n - 1) : n \in 1 .. Secrets},
            nullifier : {SecretOf(2 * n) : n \in 1 .. Secrets},
            amount : {1}, leafIndex : {0, MaxLeaves - 1, MaxLeaves},
            elements : {Siblings(length)}, indices : [1 .. length -> {0, 1}]] :
                length \in {PathLength - 1, PathLength}}

RootOf(inputs) ==
    LET hash[i \in 0 .. Len(inputs.indices)] ==
            IF i = 0 THEN Commitment(inputs.secret, inputs.nullifier, inputs.amount)
            ELSE IF inputs.indices[i] = 1 THEN Sha256(inputs.elements[i] \o hash[i - 1])
            ELSE Sha256(hash[i - 1] \o inputs.elements[i])
    IN  hash[Len(inputs.indices)]

PublicFor(inputs, recipient, fee) ==
    [nullifierHash |-> NullifierHash(inputs.nullifier), root |-> RootOf(inputs),
     recipient |-> recipient, relayerFee |-> fee]

\* validatePublicInputs and validatePrivateInputs.
PublicValid(public) ==
    /\ Len(public.nullifierHash) = HashLength /\ Len(public.root) = HashLength
    /\ public.recipient # <<>> /\ public.relayerFee >= 0

PrivateValid(inputs) ==
    /\ Len(inputs.secret) = HashLength /\ Len(inputs.nullifier) = HashLength
    /\ inputs.leafIndex \in 0 .. MaxLeaves - 1
    /\ Len(inputs.elements) = PathLength /\ Len(inputs.indices) = PathLength

\* generateWitness; it throws on anything else.
WitnessExists(inputs, public) ==
    /\ PrivateValid(inputs) /\ PublicValid(public)
    /\ NullifierHash(inputs.nullifier) = public.nullifierHash
    /\ RootOf(inputs) = public.root

-----------------------------------------------------------------------------
(***************************************************************************)
(* The hash-based backend and its format, version 1.                       *)
(***************************************************************************)
Padded(bytes) == bytes \o Zeros(MaxProofBytes - Len(bytes))

\* The fee as the challenge hashes it; and a form without leading zeros.
ShortestBE(fee) == BigEndian(fee, IF fee < Radix THEN 1 ELSE FeeLength)

FeeBytes(fee) == Uint128BE(fee)

ComputeChallenge(public) ==
    Sha256(public.nullifierHash \o public.root \o public.recipient
               \o FeeBytes(public.relayerFee))

\* The bytes that hold a number of bits.
BytesOf(bits) == (bits + ByteBits - 1) \div ByteBits

\* The directions a byte holds, the last one in its highest bit.
PackedByte(indices, b) ==
    LET held[bits \in 0 .. ByteBits] ==
            LET i == (b + 1) * ByteBits + 1 - bits
            IN  IF bits = 0 THEN 0
                ELSE 2 * held[bits - 1] + IF i \in DOMAIN indices THEN indices[i] ELSE 0
    IN  Plain(held[ByteBits])

PackedIndices(indices) ==
    [b \in 1 .. BytesOf(Len(indices)) |-> PackedByte(indices, b - 1)]

SerializeProof(data) ==
    Padded(<<Plain(1)>> \o data.nullifierHash \o data.challengeHash \o data.responseHash
               \o <<Plain(Len(data.elements))>> \o FlattenSeq(data.elements)
               \o PackedIndices(data.indices))

HashBasedProof(inputs, public) ==
    LET challenge == ComputeChallenge(public)
    IN  SerializeProof(
            [nullifierHash |-> NullifierHash(inputs.nullifier),
             challengeHash |-> challenge,
             responseHash |-> Sha256(challenge \o inputs.secret
                                         \o BigEndian(inputs.leafIndex, 4)),
             elements |-> inputs.elements, indices |-> inputs.indices])

\* deserializeProof: the hashes lie one after the other from the second byte on, then the
\* length of the path, its elements and the packed bits.
SliceAt(bytes, offset, length) == SubSeq(bytes, offset + 1, offset + length)

HeaderSize == 1 + 3 * HashLength + 1

PathLengthOf(bytes) == bytes[HeaderSize][2]

Deserializes(bytes) ==
    /\ Len(bytes) >= HeaderSize
    /\ bytes[1] = Plain(1)
    /\ \E n \in 1 .. PathLength + 1 :
           /\ bytes[HeaderSize] = Plain(n)
           /\ Len(bytes) >= HeaderSize + n * HashLength + BytesOf(n)

DeserializeProof(bytes) ==
    LET n == PathLengthOf(bytes)
        bits == HeaderSize + n * HashLength
    IN  [nullifierHash |-> SliceAt(bytes, 1, HashLength),
         challengeHash |-> SliceAt(bytes, 1 + HashLength, HashLength),
         responseHash |-> SliceAt(bytes, 1 + 2 * HashLength, HashLength),
         elements |-> [i \in 1 .. n |->
             SliceAt(bytes, HeaderSize + (i - 1) * HashLength, HashLength)],
         indices |-> [i \in 1 .. n |->
             Remaining(bytes[bits + 1 + (i - 1) \div ByteBits][2], 2, ByteBits)
                 [(i - 1) % ByteBits] % 2]]

VerifyProofLocally(bytes, public) ==
    /\ Deserializes(bytes)
    /\ LET data == DeserializeProof(bytes)
       IN  /\ data.nullifierHash = public.nullifierHash
           /\ data.challengeHash = ComputeChallenge(public)
           /\ Len(data.elements) = PathLength
           /\ data.responseHash # Zeros(HashLength)

-----------------------------------------------------------------------------
(***************************************************************************)
(* The STARK backend, its format, version 2, and the contract.             *)
(***************************************************************************)

\* What the WASM prover answers: of its bytes nothing is known.  flattenMerklePath has
\* nothing to refuse in a witness.
RawProof(inputs, public, length) ==
    [i \in 1 .. length |-> Byte(FlattenSeq(inputs.elements) \o public.root, i)]

ClarityHeader == 5

FitsClarity(raw) == Len(raw) <= MaxProofBytes - ClarityHeader

SerializeForClarity(raw) == Padded(<<Plain(2)>> \o BigEndian(Len(raw), 4) \o raw)

\* proof-verifier: check-version and the checks up to the queries.
ByteAt(bytes, offset) == IF offset < Len(bytes) THEN bytes[offset + 1] ELSE Plain(0)

CheckVersion(bytes) ==
    /\ \A offset \in {0, 1, 2} : ByteAt(bytes, offset) = Plain(0)
    /\ ByteAt(bytes, 3) = Plain(1)

QueryBlockSize == 11 * HashLength + 1

ReachesQueries(bytes, public) ==
    LET queries == ByteAt(bytes, 4 + 2 * HashLength)
    IN  /\ CheckVersion(bytes)
        /\ \E n \in 1 .. 4 : /\ queries = Plain(n)
                             /\ Len(bytes) >= 5 + 3 * HashLength + n * QueryBlockSize
        /\ SliceAt(bytes, 4 + HashLength, HashLength)
               = Sha256(SliceAt(bytes, 4, HashLength) \o public.root)

-----------------------------------------------------------------------------
(***************************************************************************)
(* The operations.                                                         *)
(***************************************************************************)
ProverInit ==
    /\ wasmModule = FALSE /\ loadAttempted = FALSE
    /\ loading = {} /\ reads = 0 /\ resets = 0
    /\ proofs = {}

\* loadWasmProver: a load that is neither done nor attempted begins to read the file;
\* every other call returns what there is.  A form does not mark the attempt.
AttemptUnmarked == UNCHANGED loadAttempted

AttemptMarked == loadAttempted' = TRUE

LoadCalled(c) ==
    /\ c \notin loading
    /\ ~wasmModule /\ ~loadAttempted
    /\ AttemptMarked
    /\ loading' = loading \cup {c}
    /\ reads' = reads + 1
    /\ UNCHANGED <<wasmModule, resets, proofs>>

\* The module is read, compiled and exports both functions; or something of that fails.
LoadEnds(c) ==
    /\ c \in loading
    /\ loading' = loading \ {c}
    /\ wasmModule' \in {TRUE, wasmModule}
    /\ UNCHANGED <<loadAttempted, reads, resets, proofs>>

\* setWasmProver of a module; of null, it is the same as resetWasmLoader.
SetWasmProver ==
    /\ wasmModule' = TRUE /\ loadAttempted' = TRUE
    /\ UNCHANGED <<loading, reads, resets, proofs>>

ResetWasmLoader ==
    /\ resets < MaxResets
    /\ resets' = resets + 1
    /\ wasmModule' = FALSE /\ loadAttempted' = FALSE
    /\ UNCHANGED <<loading, reads, proofs>>

\* generateWithdrawalProof of a witness: the backend asked for if it is there, else the
\* hash-based one.  A STARK proof that does not fit throws.
GenerateWithdrawalProof ==
    /\ Cardinality(proofs) < MaxProofs
    /\ \E inputs, other \in PrivateInputs, recipient \in Recipients, fee \in Fees :
           LET public == PublicFor(other, recipient, fee)
               Generated(bytes) ==
                   proofs' = proofs \cup
                       {[bytes |-> bytes, inputs |-> inputs, public |-> public]}
           IN  /\ WitnessExists(inputs, public)
               /\ \/ Generated(HashBasedProof(inputs, public))
                  \/ /\ wasmModule
                     /\ \E length \in RawLengths :
                            LET raw == RawProof(inputs, public, length)
                            IN  FitsClarity(raw) /\ Generated(SerializeForClarity(raw))
    /\ UNCHANGED <<wasmModule, loadAttempted, loading, reads, resets>>

ProverNext ==
    \/ \E c \in Loaders : LoadCalled(c) \/ LoadEnds(c)
    \/ SetWasmProver
    \/ ResetWasmLoader
    \/ GenerateWithdrawalProof

ProverSpec == ProverInit /\ [][ProverNext]_proverVars

-----------------------------------------------------------------------------
(***************************************************************************)
(* Safety.                                                                 *)
(***************************************************************************)

\* "The loaded module is cached; subsequent calls return the cached instance without
\* re-loading", wasm-loader.ts:104: the file is read at most once for every reset, however
\* calls, loads under way and resets interleave.
ReadOnce == reads <= 1 + resets

\* A proof verifies locally with its own public inputs and no other, if it is hash-based,
\* and then reads back as the path it was made from: no pair of recipient and fee has the
\* bytes of another pair, and the last byte of the directions, not full, is not lost.
BoundToInputs ==
    \A proof \in proofs :
        /\ \A inputs \in {p \in PrivateInputs : PrivateValid(p)},
              recipient \in Recipients, fee \in Fees :
               LET public == PublicFor(inputs, recipient, fee)
               IN  VerifyProofLocally(proof.bytes, public) <=>
                       Deserializes(proof.bytes) /\ public = proof.public
        /\ Deserializes(proof.bytes) =>
               LET data == DeserializeProof(proof.bytes)
               IN  /\ data.elements = proof.inputs.elements
                   /\ data.indices = proof.inputs.indices

\* "the serialized bytes ready for on-chain submission", prover.ts:97: the verifier
\* contract gets as far as the queries with every proof the SDK makes.  It wants the
\* version in four bytes, 0 0 0 1, where the SDK writes one byte, 1 or 2.
ProofsReachQueries ==
    \A proof \in proofs : ReachesQueries(proof.bytes, proof.public)
=============================================================================
