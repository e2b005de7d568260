---------------------------- MODULE MCAlgorithms -----------------------------
(* Four hashes in a level of three; chains up to height 4 with 2           *)
(* confirmations and branches of up to 3 blocks; numbers of up to 2 digits *)
(* of radix 4.                                                             *)
(*                                                                         *)
(* The context of sha256 is used while no other function is: blocks of 6   *)
(* bytes of 2 bits and words of 2 bytes, so that a message of 2 bytes      *)
(* needs a second block and the low word of the length wraps from 8 bytes  *)
(* on.                                                                     *)
EXTENDS Algorithms, Sha256

CONSTANTS h1, h2, h3, h4

MCInit == Init /\ ContextInit

MCNext == \/ pc = "idle" /\ Next /\ UNCHANGED contextVars
          \/ Init /\ ContextNext /\ UNCHANGED vars

MCSpec == MCInit /\ [][MCNext]_<<vars, contextVars>>
==============================================================================
