----------------------------- MODULE MempoolSet -----------------------------
(***************************************************************************)
(* What the rest of the node takes the mempool to be: a set of             *)
(* transactions that changes by one transaction at a time and in which a   *)
(* transaction is present once or not at all.  Ledger uses it in this      *)
(* form.                                                                   *)
(***************************************************************************)
CONSTANT Tx

VARIABLE pool

SetInit == pool = {}

Insert(t) == pool' = pool \cup {t}

Remove(t) == pool' = pool \ {t}

SetSpec == SetInit /\ [][\E t \in Tx : Insert(t) \/ Remove(t)]_pool

==============================================================================
