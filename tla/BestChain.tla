------------------------------ MODULE BestChain ------------------------------
(***************************************************************************)
(* What the "chain" database promises the rest of the node: one contiguous *)
(* line of stored, prev_hash-linked blocks that starts at the genesis      *)
(* block and is only ever replaced by a strictly higher one ("we always    *)
(* want to have the highest block height possible", README.md:238).        *)
(* Whether the line grew by one block or was swapped for another branch    *)
(* cannot be told apart here: each is one atomic step.                     *)
(***************************************************************************)
EXTENDS Integers

CONSTANTS Block, Genesis, Absent, MaxHeight, Prev

VARIABLES chain,    \* the block recorded at each height, or Absent
          stored    \* the blocks the "blocks" database holds

bestVars == <<chain, stored>>

BestHeights == 0..MaxHeight

Recorded(c) == {h \in BestHeights : c[h] # Absent}

\* Every recorded block above the genesis block names the one recorded
\* just below it as its predecessor, so no height is skipped.
Linked(c) ==
    /\ c[0] = Genesis
    /\ \A h \in Recorded(c) \ {0} : /\ c[h - 1] # Absent
                                    /\ Prev[c[h]] = c[h - 1]

Higher(c, d) == \E h \in Recorded(d) : \A k \in Recorded(c) : k < h

BestInit ==
    /\ chain = [h \in BestHeights |-> IF h = 0 THEN Genesis ELSE Absent]
    /\ stored = {Genesis}

\* A block is stored; the best line does not change.
Store ==
    /\ stored' \subseteq Block
    /\ stored \subseteq stored'
    /\ UNCHANGED chain

\* The best line becomes a strictly higher one.
Adopt ==
    /\ stored' \subseteq Block
    /\ stored \subseteq stored'
    /\ chain' \in [BestHeights -> Block \cup {Absent}]
    /\ Linked(chain')
    /\ \A h \in Recorded(chain') : chain'[h] \in stored'
    /\ Higher(chain, chain')

BestNext == Store \/ Adopt

BestSpec == BestInit /\ [][BestNext]_bestVars

==============================================================================
