------------------------------- MODULE Channel -------------------------------
(***************************************************************************)
(* What the handlers take a connection to be, and what Sync uses: messages *)
(* arrive whole, once and in the order in which they were sent.            *)
(***************************************************************************)
EXTENDS Naturals, Sequences

CONSTANT Message

VARIABLES sent, got

channelVars == <<sent, got>>

ChannelInit == sent = <<>> /\ got = <<>>

Submit == /\ \E m \in Message : sent' = Append(sent, m)
          /\ UNCHANGED got

Deliver == /\ Len(got) < Len(sent)
           /\ got' = Append(got, sent[Len(got) + 1])
           /\ UNCHANGED sent

ChannelSpec == ChannelInit /\ [][Submit \/ Deliver]_channelVars

==============================================================================
