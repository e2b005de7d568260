------------------------------- MODULE MCBlock -------------------------------
(* Two pieces of code that do not interact, one after the other: the merkle *)
(* root of up to MaxTx transactions, and once the root of one transaction   *)
(* is computed the calls on the work block.                                 *)
(*                                                                          *)
(* Hashes are terms, so that two hashes are equal only if they were made    *)
(* from the same transactions in the same order.  Bytes have radix 2, so    *)
(* that a uint wraps at 16 and a count at 2; two headers, two transactions  *)
(* and the coinbase; room for the coinbase and both transactions, not for a *)
(* third.                                                                   *)
EXTENDS Merkle, WorkBlock

MCLeaf(j) == <<j>>
MCHash(a, b) == <<a, b>>
MCGarbage == <<>>

MCHeaders == {[time |-> 5, height |-> 6, prev |-> -1, target |-> 1],
              [time |-> 8, height |-> 13, prev |-> -2, target |-> 0]}
MCTx       == {-11, -12}
MCCoinbase == -10
MCIns      == [t \in AllTx |-> IF t = -11 THEN 1 ELSE 0]
MCOuts     == [t \in AllTx |-> IF t = -12 THEN 2 ELSE 1]
MCLockTime == [t \in AllTx |-> IF t = -12 THEN 9 ELSE 0]
MCTimes    == {11}
MCJunk     == -99

MCInit == Init /\ BlockInit

MCNext == \/ Next /\ UNCHANGED blockVars
          \/ pc = "done" /\ tx_count = 1 /\ BlockNext /\ UNCHANGED vars

MCSpec == MCInit /\ [][MCNext]_<<vars, blockVars>> /\ WF_vars(Next)
==============================================================================
