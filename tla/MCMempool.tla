----------------------------- MODULE MCMempool -----------------------------
(* Four transactions, two connections and the thread of a revert.  As in   *)
(* the code the cap of <tx> is above the number of slots, so that both the *)
(* handlers and the revert can fill the array and write past it.           *)
EXTENDS Mempool

CONSTANTS t1, t2, t3, t4, c1, c2
=============================================================================
