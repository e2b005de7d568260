------------------------------- MODULE Merkle -------------------------------
(***************************************************************************)
(* compute_merkle_root of transactions.c.  The tree is computed in place:  *)
(* the hashes of the next level overwrite the first slots of the current   *)
(* one while its later slots are still to be read, and each hash is        *)
(* written to a spare buffer that is then exchanged with the buffer of the *)
(* slot it belongs to.  Buffers are memory cells, slots are pointers.      *)
(***************************************************************************)
EXTENDS Integers

CONSTANTS MaxTx,        \* bound on tx_count
          Leaf(_),      \* sha256 of a transaction of the block body
          Hash(_, _),   \* sha256 of two hashes
          Garbage       \* the content of fresh memory

\* compute_merkle_root reads tree_hashes[0] whatever tx_count is, so it is
\* only defined for at least one transaction (a block's coinbase).
ASSUME MaxTxPositive == MaxTx \in Nat \ {0}

VARIABLES
    tx_count,
    tree_hashes,  \* slot -> buffer
    buffer,       \* the spare buffer
    memory,       \* buffer -> the hash it holds
    leaf_count,
    remainder,
    k,            \* slots of the next level written so far
    i,            \* next slot to read, or leaf to hash
    out,
    pc,
    level         \* history: the hashes of the level that is being reduced

vars == <<tx_count, tree_hashes, buffer, memory, leaf_count, remainder, k, i,
          out, pc, level>>

Slots   == 0..(tx_count - 1)
Buffers == 0..tx_count      \* one malloc per slot and one for the spare

At(slot) == memory[tree_hashes[slot]]

\* sha256_final into the spare buffer, then the exchange of the two pointers.
Store(value) ==
    /\ memory' = [memory EXCEPT ![buffer] = value]
    /\ tree_hashes' = [tree_hashes EXCEPT ![k] = buffer]
    /\ buffer' = tree_hashes[k]
    /\ k' = k + 1

\* Fault: the remainder is hashed with its neighbour.
FaultyLastHash == Hash(At(leaf_count - 2), At(leaf_count - 1))

LastHash == Hash(At(leaf_count - 1), At(leaf_count - 1))

Init ==
    /\ tx_count \in 1..MaxTx
    /\ tree_hashes = [s \in Slots |-> s]
    /\ buffer = tx_count
    /\ memory = [b \in Buffers |-> Garbage]
    /\ leaf_count = tx_count
    /\ remainder = 0
    /\ k = 0
    /\ i = 0
    /\ out = Garbage
    /\ pc = "leaves"
    /\ level = [j \in Slots |-> Leaf(j)]

\* One transaction of the body is hashed into its slot.
BaseLeaf ==
    /\ pc = "leaves"
    /\ i < tx_count
    /\ memory' = [memory EXCEPT ![tree_hashes[i]] = Leaf(i)]
    /\ i' = i + 1
    /\ UNCHANGED <<tx_count, tree_hashes, buffer, leaf_count, remainder, k,
                   out, pc, level>>

LeavesDone ==
    /\ pc = "leaves"
    /\ i = tx_count
    /\ pc' = "while"
    /\ UNCHANGED <<tx_count, tree_hashes, buffer, memory, leaf_count,
                   remainder, k, i, out, level>>

PairCount == (leaf_count - remainder) \div 2

\* Fault: a level of two hashes is not taken for one that has a next.
FaultyBeginLevel ==
    /\ pc = "while"
    /\ leaf_count > 2
    /\ remainder' = leaf_count % 2
    /\ k' = 0
    /\ i' = 0
    /\ pc' = "pairs"
    /\ UNCHANGED <<tx_count, tree_hashes, buffer, memory, leaf_count, out,
                   level>>

BeginLevel ==
    /\ pc = "while"
    /\ leaf_count > 1
    /\ remainder' = leaf_count % 2
    /\ k' = 0
    /\ i' = 0
    /\ pc' = "pairs"
    /\ UNCHANGED <<tx_count, tree_hashes, buffer, memory, leaf_count, out,
                   level>>

HashPair ==
    /\ pc = "pairs"
    /\ k < PairCount
    /\ Store(Hash(At(i), At(i + 1)))
    /\ i' = i + 2
    /\ UNCHANGED <<tx_count, leaf_count, remainder, out, pc, level>>

HashRemainder ==
    /\ pc = "pairs"
    /\ k = PairCount
    /\ remainder = 1
    /\ Store(LastHash)
    /\ pc' = "next"
    /\ UNCHANGED <<tx_count, leaf_count, remainder, i, out, level>>

NoRemainder ==
    /\ pc = "pairs"
    /\ k = PairCount
    /\ remainder = 0
    /\ pc' = "next"
    /\ UNCHANGED <<tx_count, tree_hashes, buffer, memory, leaf_count,
                   remainder, k, i, out, level>>

\* leaf_count = k; the history is the level just completed.
EndLevel ==
    /\ pc = "next"
    /\ leaf_count' = k
    /\ level' = [j \in 0..(k - 1) |-> At(j)]
    /\ pc' = "while"
    /\ UNCHANGED <<tx_count, tree_hashes, buffer, memory, remainder, k, i,
                   out>>

\* Fault: the hash is copied out of the spare buffer.
FaultyFinish ==
    /\ pc = "while"
    /\ leaf_count <= 1
    /\ out' = memory[buffer]
    /\ pc' = "done"
    /\ UNCHANGED <<tx_count, tree_hashes, buffer, memory, leaf_count,
                   remainder, k, i, level>>

\* The root is copied out; then every buffer is freed through the pointer
\* that holds it now.
Finish ==
    /\ pc = "while"
    /\ leaf_count <= 1
    /\ out' = At(0)
    /\ pc' = "done"
    /\ UNCHANGED <<tx_count, tree_hashes, buffer, memory, leaf_count,
                   remainder, k, i, level>>

Next ==
    \/ BaseLeaf
    \/ LeavesDone
    \/ BeginLevel
    \/ HashPair
    \/ HashRemainder
    \/ NoRemainder
    \/ EndLevel
    \/ Finish

Spec == Init /\ [][Next]_vars /\ WF_vars(Next)

------------------------------------------------------------------------------
(* Properties.                                                             *)

TypeOK ==
    /\ tx_count \in 1..MaxTx
    /\ tree_hashes \in [Slots -> Buffers]
    /\ buffer \in Buffers
    /\ DOMAIN memory = Buffers
    /\ leaf_count \in 1..tx_count
    /\ remainder \in {0, 1}
    /\ k \in 0..tx_count
    /\ i \in 0..tx_count
    /\ pc \in {"leaves", "while", "pairs", "next", "done"}

\* The exchanges only permute the pointers: no two slots share a buffer and
\* none is the spare one, so no hash of the level still to be read is
\* overwritten and the final loop frees every buffer exactly once.
PointersDistinct ==
    /\ \A s \in Slots : tree_hashes[s] # buffer
    /\ \A s, t \in Slots : s # t => tree_hashes[s] # tree_hashes[t]

Tree == INSTANCE MerkleTree WITH width <- leaf_count

\* The level the current one has to become.
NextLevel == Tree!Parents(level, leaf_count)

\* In the middle of a level the slots before k hold hashes of the next level
\* and the slots from i on those of the current one: writing in place never
\* overtakes reading.
InPlace ==
    /\ DOMAIN level = 0..(leaf_count - 1)
    /\ pc = "leaves" => /\ leaf_count = tx_count
                        /\ level = [j \in Slots |-> Leaf(j)]
                        /\ \A j \in 0..(i - 1) : At(j) = level[j]
    /\ pc = "while" => \A j \in 0..(leaf_count - 1) : At(j) = level[j]
    /\ pc \in {"pairs", "next"} =>
           /\ leaf_count > 1
           /\ \A j \in 0..(k - 1) : At(j) = NextLevel[j]
    /\ pc = "pairs" =>
           /\ remainder = leaf_count % 2
           /\ i = 2 * k
           /\ k <= PairCount
           /\ \A j \in i..(leaf_count - 1) : At(j) = level[j]
    /\ pc = "next" => k = (leaf_count + 1) \div 2

\* The result is the one hash left of the levels the reference computes.
RootReached == pc = "done" => leaf_count = 1 /\ out = level[0]

\* Level by level the buffers hold what the definition of the merkle root
\* says, and every level that has a next one is left for it: the loops end.
ImplementsTree == Tree!TreeSpec

==============================================================================
