----------------------------- MODULE MerkleTree -----------------------------
(***************************************************************************)
(* The merkle root as the comment above compute_merkle_root defines it     *)
(* (transactions.c:129 to 133): the hashes of a level are hashed in pairs, *)
(* the last one with itself when their number is odd, until one remains.   *)
(* A level is replaced by the next one in a single step.                   *)
(***************************************************************************)
EXTENDS Integers

CONSTANTS MaxTx,        \* bound on the number of transactions
          Leaf(_),      \* the hash of a transaction
          Hash(_, _)    \* the hash of two hashes, in order

VARIABLES level,   \* the hashes of the current level
          width    \* how many there are

\* The level above a level s of n hashes.
Parents(s, n) ==
    [j \in 0..((n + 1) \div 2 - 1) |->
        Hash(s[2 * j], IF 2 * j + 1 < n THEN s[2 * j + 1] ELSE s[2 * j])]

TreeInit ==
    /\ width \in 1..MaxTx
    /\ level = [j \in 0..(width - 1) |-> Leaf(j)]

Climb ==
    /\ width > 1
    /\ level' = Parents(level, width)
    /\ width' = (width + 1) \div 2

TreeSpec == TreeInit /\ [][Climb]_<<level, width>> /\ WF_<<level, width>>(Climb)

==============================================================================
