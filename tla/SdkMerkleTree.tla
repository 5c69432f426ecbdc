---------------------------- MODULE SdkMerkleTree ----------------------------
(***************************************************************************)
(* The SDK's IncrementalMerkleTree beside the contract it mirrors.  A      *)
(* client learns of leaves from the leaf-appended events, in their order   *)
(* and in its own time, inserts them into its tree, and proves leaves      *)
(* against its root.  The tree lives in memory: a client that starts again *)
(* builds a new one.                                                       *)
(*                                                                         *)
(* Hashes, ZERO_HASHES and the bits of an index are those of MerkleTree;   *)
(* the two algorithms are translated each from its own source.             *)
(***************************************************************************)
EXTENDS MerkleTree, Sequences, FiniteSets

CONSTANT Leaves  \* the 32-byte leaves the pool appends

\* A leaf is an atom: no zero hash, and no hash of two others.
ASSUME LeavesAssumption ==
    /\ ZeroHash0 # Hash(ZeroHash0, ZeroHash0)
    /\ \A leaf \in Leaves :
           /\ \A level \in Levels : leaf # ZeroHash[level]
           /\ \A left, right \in Leaves \cup {ZeroHash0} : leaf # Hash(left, right)

VARIABLES
    events,     \* the leaf-appended events: leaf and new-root, in order
    frontier,   \* IncrementalMerkleTree.frontier
    leaves,     \* IncrementalMerkleTree.leaves
    root,       \* IncrementalMerkleTree.root
    nextIndex   \* IncrementalMerkleTree.nextIndex

sdkVars == <<frontier, leaves, root, nextIndex>>

treeClientVars == <<stacksBlockHeight, treeVars, events, sdkVars>>

-----------------------------------------------------------------------------
(***************************************************************************)
(* insert, phase 1: walk up while the index bit is 1.  An index without a  *)
(* 0 bit keeps its hash at the top level of the frontier.                  *)
(***************************************************************************)
WalkEnds(index) ==
    LET zeroBits == {level \in Levels : BitAtLevel(index, level) = 0}
    IN  IF zeroBits = {}
        THEN TreeDepth
        ELSE CHOOSE level \in zeroBits : \A other \in zeroBits : level <= other

InsertLevel(index) ==
    IF WalkEnds(index) = TreeDepth THEN TreeDepth - 1 ELSE WalkEnds(index)

WalkedHash(leaf, index) ==
    LET hashAt[level \in 0 .. TreeDepth] ==
            IF level = 0 THEN leaf ELSE Hash(frontier[level - 1], hashAt[level - 1])
    IN  hashAt[WalkEnds(index)]

\* Phase 2: on to the root with zero hashes, each on the side the bit tells; and a
\* phase 2 that puts every zero hash on the right.
HashAlwaysLeft(hash, zero, bit) == Hash(hash, zero)

WithZero(hash, zero, bit) == IF bit = 0 THEN Hash(hash, zero) ELSE Hash(zero, hash)

RootFrom(hash, index) ==
    LET from == InsertLevel(index)
        rootHash[level \in from .. TreeDepth - 1] ==
            IF level = from
            THEN hash
            ELSE WithZero(rootHash[level - 1], ZeroHash[level], BitAtLevel(index, level))
    IN  rootHash[TreeDepth - 1]

Insert(leaf) ==
    LET hash == WalkedHash(leaf, nextIndex)
    IN  /\ nextIndex < MaxLeaves
        /\ leaves' = Append(leaves, leaf)
        /\ frontier' = [frontier EXCEPT ![InsertLevel(nextIndex)] = hash]
        /\ root' = RootFrom(hash, nextIndex)
        /\ nextIndex' = nextIndex + 1

\* The constructor: the frontier starts as the zero hashes.
NewTree(f, l, r, n) ==
    /\ f = [level \in Levels |-> ZeroHash[level]]
    /\ l = <<>>
    /\ r = EmptyRoot
    /\ n = 0

-----------------------------------------------------------------------------
(***************************************************************************)
(* generateProof and verifyProof.  Tree level 0 holds the leaves; an empty *)
(* node at tree level k stands for zero hash k + 1.                        *)
(***************************************************************************)
SameLevelZero(level) == ZeroHash[level]

EmptyNode(level) == ZeroHash[level + 1]

NodeOrEmpty(layer, index, level) ==
    IF index \in DOMAIN layer THEN layer[index] ELSE EmptyNode(level)

Layer[level \in Levels] ==
    IF level = 0
    THEN [index \in 0 .. Len(leaves) - 1 |-> leaves[index + 1]]
    ELSE [parent \in {index \div 2 : index \in DOMAIN Layer[level - 1]} |->
              Hash(NodeOrEmpty(Layer[level - 1], 2 * parent, level - 1),
                   NodeOrEmpty(Layer[level - 1], 2 * parent + 1, level - 1))]

\* One step of a proof per level but the last: the sibling, and on which side the
\* proven node stands.
GenerateProof(leafIndex) ==
    [step \in 1 .. TreeDepth - 1 |->
        LET level   == step - 1
            isRight == BitAtLevel(leafIndex, level)
            node    == ShiftedRight(leafIndex, level)
            sibling == IF isRight = 1 THEN node - 1 ELSE node + 1
        IN  [element |-> NodeOrEmpty(Layer[level], sibling, level),
             isRight |-> isRight]]

VerifyProof(proof, leaf, expectedRoot) ==
    LET current[step \in 0 .. TreeDepth - 1] ==
            IF step = 0
            THEN leaf
            ELSE IF proof[step].isRight = 1
                 THEN Hash(proof[step].element, current[step - 1])
                 ELSE Hash(current[step - 1], proof[step].element)
    IN  Len(proof) = TreeDepth - 1 /\ current[TreeDepth - 1] = expectedRoot

-----------------------------------------------------------------------------
TreeClientInit ==
    /\ stacksBlockHeight = 0
    /\ MerkleTreeInit
    /\ events = <<>>
    /\ NewTree(frontier, leaves, root, nextIndex)

\* append-leaf, with the event it prints.
Appended(leaf) ==
    /\ AppendLeaf(ContractOwner, leaf)
    /\ events' = Append(events, [leaf |-> leaf, newRoot |-> currentRoot'])
    /\ UNCHANGED <<stacksBlockHeight, sdkVars>>

\* The client handles the next event it has not seen.
Mirrored ==
    /\ nextIndex < Len(events)
    /\ Insert(events[nextIndex + 1].leaf)
    /\ UNCHANGED <<stacksBlockHeight, treeVars, events>>

\* The client starts again.
Restarted ==
    /\ NewTree(frontier', leaves', root', nextIndex')
    /\ UNCHANGED <<stacksBlockHeight, treeVars, events>>

TreeClientNext == (\E leaf \in Leaves : Appended(leaf)) \/ Mirrored \/ Restarted

TreeClientSpec == TreeClientInit /\ [][TreeClientNext]_treeClientVars

-----------------------------------------------------------------------------
\* The client's root is the one the contract announced after as many leaves.
RootMirrored == root = IF nextIndex = 0 THEN EmptyRoot ELSE events[nextIndex].newRoot

\* A root stands for one number of leaves.
RootsTellApart ==
    /\ Cardinality(knownRoots) = nextLeafIndex + 1
    /\ \A i, j \in DOMAIN events : events[i].newRoot = events[j].newRoot => i = j

\* merkle.ts "MUST produce identical roots to the Clarity contract for any sequence
\* of leaf insertions": up to the last leaf the tree has room for, the client's root is
\* the contract's of the same number of leaves and of no other, also when the deployer
\* appends the same leaf again.
RootsAgree == RootMirrored /\ RootsTellApart

\* The number of leaves below a node of tree level k.
PowerOfTwo[k \in Levels] == IF k = 0 THEN 1 ELSE 2 * PowerOfTwo[k - 1]

\* When the number of leaves is a power of two, and at most half the tree's
\* capacity, the proof of every leaf leads to the root, and no other leaf does by
\* that proof.
PowersOfTwoProve ==
    nextIndex \in {PowerOfTwo[k] : k \in Levels} =>
        \A i \in 0 .. nextIndex - 1, leaf \in Leaves :
            VerifyProof(GenerateProof(i), leaf, root) <=> leaf = leaves[i + 1]

\* merkle.ts on generateProof: "The proof allows verifying that a specific leaf is
\* included in the tree that produced the current root."
EveryLeafProvable ==
    \A i \in 0 .. nextIndex - 1 : VerifyProof(GenerateProof(i), leaves[i + 1], root)
=============================================================================
