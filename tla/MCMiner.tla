------------------------------ MODULE MCMiner ------------------------------
(* Two rivals per height and two transactions; the chain may be extended   *)
(* or swapped until it reaches MaxHeight.  The block has room for what     *)
(* <tx> brings below the cap, not for what a revert adds.                  *)
EXTENDS Miner

CONSTANTS t1, t2
=============================================================================
