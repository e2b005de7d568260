-------------------------------- MODULE MCWire -------------------------------
(* A <ping>, an <inv> of two hashes and a <block> of two bytes; hashes of  *)
(* two bytes; a buffer that holds one message and part of another.         *)
EXTENDS Wire

MCMessage == {[ctype |-> CTYPE_PING, body |-> <<>>],
              [ctype |-> CTYPE_INV, body |-> <<0, 1, -1, -1>>],
              [ctype |-> CTYPE_INV, body |-> <<0, 2, -1, -1, -2, -2>>],
              [ctype |-> CTYPE_BLOCK, body |-> <<0, 0, 0, 2, -3, -4>>]}
MCJunk    == -9
==============================================================================
