----------------------------- MODULE MCStartup -----------------------------
(* Two connections that are accepted next to the first peer; the first     *)
(* attempts to connect may fail.                                           *)
EXTENDS Startup

CONSTANTS g1, g2
=============================================================================
