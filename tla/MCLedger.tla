------------------------------ MODULE MCLedger ------------------------------
(* Rival branches over the genesis block g: b1 b2 and c1 c2 c3; d2 d3 leave *)
(* the first of them at b1; x4 lies about its height.  The transaction t1   *)
(* is in b1 and again in b2, as the coinbase of one miner is (mine.c:131),  *)
(* and in c3.  The configurations pick the blocks that exist.               *)
EXTENDS Ledger

CONSTANTS g, b1, b2, c1, c2, c3, d2, d3, x4, t1, t2

MCHeight == [b \in Block |-> CASE b = g -> 0
                               [] b \in {b1, c1} -> 1
                               [] b \in {b2, c2, d2} -> 2
                               [] b \in {c3, d3} -> 3
                               [] b = x4 -> 4]

MCPrev == [b \in Block |-> CASE b = g -> Absent
                             [] b \in {b1, c1, x4} -> g
                             [] b \in {b2, d2} -> b1
                             [] b = c2 -> c1
                             [] b = c3 -> c2
                             [] b = d3 -> d2]

MCTxs == [b \in Block |-> CASE b \in {b1, c3} -> {t1}
                            [] b = b2 -> {t1, t2}
                            [] b = c1 -> {t2}
                            [] OTHER -> {}]

MCValid == Block \ {x4}
==============================================================================
