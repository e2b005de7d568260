-------------------------------- MODULE Sync --------------------------------
(***************************************************************************)
(* A node catches up with its peers when it joins (mine.c:86 to 101): a    *)
(* <getblocks> to all of them, answered by an <inv>, answered by a         *)
(* <getdata>, answered by <block>s, one message after the other on each    *)
(* connection (handle_connection of network.c and the lists of build.c).   *)
(* Meanwhile a peer may tell of its latest block (README.md:342), which    *)
(* then arrives before the blocks below it.                                *)
(*                                                                         *)
(* Connections are reliable and ordered (README.md:20).  There is one      *)
(* branch, so a block is its height and the first one, which every node    *)
(* has, is 0; rival branches, the steps of a revert and the cutoff of the  *)
(* trace are the subject of Ledger, whose corrections are taken for        *)
(* granted here.  The handler of a <block> holds peers_mutex until its     *)
(* limbo scan is through.  Positions in a message are those of shared.h,   *)
(* and a list arrives as it was built.                                     *)
(***************************************************************************)
EXTENDS Integers, FiniteSets, FiniteSetsExt, Sequences, SequencesExt

CONSTANTS
    Peer,         \* the peers the node is connected to
    PeerHeight,   \* the height of each peer's chain
    MaxHeight,    \* bound on those heights
    StartHeight,  \* the height the node starts from
    MaxGetblocks, \* MAX_GETBLOCKS
    SIZE_SHA256,  \* bytes of a hash: 32
    UCHAR_MAX,    \* the largest value of a byte: 255
    Nobody,       \* no owner of peers_mutex
    Repaired      \* the statements taken with their evident correction

\* list_dest: build_block_list copies each hash onto itself, not to the
\*   list it is asked for (build.c:37);
\* request_own: the handler of a <block> that is not the next one requests
\*   that same block (network.c:207 to 211);
\* height_two: a block of height 2 does not count as 2 or more above a chain
\*   of height 0 (network.c:204);
\* max_width: the end of a list of hashes, in bytes, is kept in one byte
\*   (network.c:149).
Statements == {"list_dest", "request_own", "height_two", "max_width"}

Blocks  == 0..MaxHeight
Garbage == -1            \* a hash that is no block's, or of zeros
Hash    == Blocks \cup {Garbage}

ASSUME SyncConstants ==
    /\ MaxHeight \in Nat
    /\ PeerHeight \in [Peer -> 0..MaxHeight]
    /\ StartHeight \in 0..MaxHeight
    /\ UCHAR_MAX \in Nat
    /\ MaxGetblocks \in 0..UCHAR_MAX
    /\ SIZE_SHA256 \in Nat /\ SIZE_SHA256 > 2
    /\ Nobody \notin Peer
    /\ Repaired \subseteq Statements

VARIABLES
    stored,   \* the node's "blocks" database
    top,      \* the height of its chain
    limbo,    \* the heights that list their block in limbo
    handler,  \* the owner of peers_mutex, which handles a <block>
    base,     \* curr_height of its scan
    level,    \* the level its cursor was at last
    asked,    \* the <getblocks> has been sent
    told,     \* the peers that have told of their latest block
    inbox,    \* messages on their way to the node, by peer
    outbox    \* messages on their way to each peer

scanVars == <<handler, base, level>>
nodeVars == <<stored, top, limbo, scanVars, asked>>
vars == <<nodeVars, told, inbox, outbox>>

Message(ctype, ids) == [ctype |-> ctype, ids |-> ids]

\* The members of T among the elements of s, in their order: what a loop
\* over a list keeps of it.
Kept(s, T) ==
    LET at == {n \in 1..Len(s) : s[n] \in T}
    IN  [k \in 1..Cardinality(at) |->
            s[CHOOSE n \in at : Cardinality({i \in at : i <= n}) = k]]

Init ==
    /\ stored = 0..StartHeight
    /\ top = StartHeight
    /\ limbo = {}
    /\ handler = Nobody
    /\ base = StartHeight
    /\ level = 0
    /\ asked = FALSE
    /\ told = {}
    /\ inbox = [p \in Peer |-> <<>>]
    /\ outbox = [p \in Peer |-> <<>>]

\* main: <getblocks> from the tip to every peer.
Join ==
    /\ ~ asked
    /\ asked' = TRUE
    /\ outbox' = [p \in Peer |-> Append(outbox[p], Message("getblocks", <<top>>))]
    /\ UNCHANGED <<stored, top, limbo, scanVars, told, inbox>>

------------------------------------------------------------------------------
(* The peers, whose chains do not change meanwhile.                        *)

\* Faults: the top of the chain is left out; the list runs past it.
FaultyListShort(start, h) == Min({h, start + 1 + MaxGetblocks})

\* Where the list of the blocks after `start` ends, which is not in it.
ListEnd(start, h) ==
    LET index == start + 1
        max   == IF h + 1 - index > UCHAR_MAX THEN index + UCHAR_MAX ELSE h + 1
    IN  Min({max, index + MaxGetblocks})

\* build_block_list, which gives up when it does not have the start block.
build_block_list(start, h) ==
    IF start > h THEN <<>>
    ELSE [n \in 1..(ListEnd(start, h) - start - 1) |->
             IF "list_dest" \in Repaired THEN start + n ELSE Garbage]

PeerGetblocks(p) ==
    /\ outbox[p] # <<>>
    /\ Head(outbox[p]).ctype = "getblocks"
    /\ LET ids == build_block_list(Head(outbox[p]).ids[1], PeerHeight[p])
       IN  inbox' = [inbox EXCEPT ![p] = Append(@, Message("inv", ids))]
    /\ outbox' = [outbox EXCEPT ![p] = Tail(@)]
    /\ UNCHANGED <<nodeVars, told>>

\* Fault: the loop stops one hash early.
FaultyVisited(count) == {n \in 1..count : n < count}

\* The positions of a <getdata> the loop of its handler visits: it runs from
\* byte 2 in steps of one hash up to `max`.
Visited(count) ==
    LET size == count * SIZE_SHA256
        max  == IF "max_width" \in Repaired THEN size ELSE size % (UCHAR_MAX + 1)
    IN  {n \in 1..count : 2 + SIZE_SHA256 * (n - 1) < max}

\* The answer to a <getdata>: each visited block that is had, in order.
Served(ids, have) ==
    LET sent == Kept(SubSeq(ids, 1, Cardinality(Visited(Len(ids)))), have)
    IN  [n \in DOMAIN sent |-> Message("block", <<sent[n]>>)]

PeerGetdata(p) ==
    /\ outbox[p] # <<>>
    /\ Head(outbox[p]).ctype = "getdata"
    /\ inbox' = [inbox EXCEPT ![p] = @ \o Served(Head(outbox[p]).ids, 0..PeerHeight[p])]
    /\ outbox' = [outbox EXCEPT ![p] = Tail(@)]
    /\ UNCHANGED <<nodeVars, told>>

\* An <inv> from the node: what the peer does not have is requested.
PeerInv(p) ==
    /\ outbox[p] # <<>>
    /\ Head(outbox[p]).ctype = "inv"
    /\ LET ids == Kept(Head(outbox[p]).ids, Hash \ (0..PeerHeight[p]))
       IN  inbox' = [inbox EXCEPT ![p] = Append(@, Message("getdata", ids))]
    /\ outbox' = [outbox EXCEPT ![p] = Tail(@)]
    /\ UNCHANGED <<nodeVars, told>>

\* The peer tells of its latest block, unasked.
PeerTells(p) ==
    /\ p \notin told
    /\ PeerHeight[p] > 0
    /\ told' = told \cup {p}
    /\ inbox' = [inbox EXCEPT ![p] = Append(@, Message("inv", <<PeerHeight[p]>>))]
    /\ UNCHANGED <<nodeVars, outbox>>

------------------------------------------------------------------------------
(* The node.  A thread reads its next message when it is done with the     *)
(* last one.                                                               *)

\* build_missing_blocks_list.
build_missing_blocks_list(ids) == Kept(ids, Hash \ stored)

ReceiveInv(p) ==
    /\ handler # p
    /\ inbox[p] # <<>>
    /\ Head(inbox[p]).ctype = "inv"
    /\ outbox' = [outbox EXCEPT ![p] =
           Append(@, Message("getdata", build_missing_blocks_list(Head(inbox[p]).ids)))]
    /\ inbox' = [inbox EXCEPT ![p] = Tail(@)]
    /\ UNCHANGED <<nodeVars, told>>

\* <getdata> from a peer: each requested block the node has.
ReceiveGetdata(p) ==
    /\ handler # p
    /\ inbox[p] # <<>>
    /\ Head(inbox[p]).ctype = "getdata"
    /\ outbox' = [outbox EXCEPT ![p] = @ \o Served(Head(inbox[p]).ids, stored)]
    /\ inbox' = [inbox EXCEPT ![p] = Tail(@)]
    /\ UNCHANGED <<nodeVars, told>>

FarAbove(h, c) == (h > 2 \/ "height_two" \in Repaired) /\ h - 2 >= c

\* Where the handler puts a block of height h on a chain of height c.
Placement(h, c) ==
    IF h <= c \/ FarAbove(h, c) THEN "request"
    ELSE IF h - 1 = c THEN "append"
    ELSE "drop"

\* Fault: the first block counts as its own predecessor.
FaultyWantedOf(b) == IF b = 0 THEN b ELSE b - 1

\* The block to ask for when b arrives out of turn: the one b builds on.
WantedOf(b) == IF "request_own" \in Repaired THEN b - 1 ELSE b

\* What the handler asks the sender for, "Find missing block" (network.c:207).
OwnRequest(b, place) ==
    IF place = "request" THEN <<Message("getdata", <<WantedOf(b)>>)>> ELSE <<>>

\* A <block> arrives and peers_mutex is free: the block is stored and placed,
\* and the scan of the limbo starts above the highest level.
ReceiveBlock(p) ==
    /\ handler = Nobody
    /\ inbox[p] # <<>>
    /\ Head(inbox[p]).ctype = "block"
    /\ LET b     == Head(inbox[p]).ids[1]
           place == Placement(b, top)
       IN  /\ stored' = stored \cup {b}
           /\ top' = IF place = "append" THEN b ELSE top
           /\ limbo' = IF place = "request" THEN limbo \cup {b} ELSE limbo
           /\ outbox' = [outbox EXCEPT ![p] = @ \o OwnRequest(b, place)]
    /\ handler' = p
    /\ base' = top'
    /\ level' = MaxHeight + 1
    /\ inbox' = [inbox EXCEPT ![p] = Tail(@)]
    /\ UNCHANGED <<asked, told>>

\* The level the cursor moves to: the next one below that lists a block.
ScanNext(h) == /\ h \in limbo /\ h < level
               /\ \A k \in limbo : k < level => k <= h

\* Fault: the level next above the chain is left out.
FaultyScanGoesOn(h) == ScanNext(h) /\ h > base + 1

\* Only levels above the chain the scan started from are looked at.
ScanGoesOn(h) == ScanNext(h) /\ h > base

\* The blocks between the chain and h that are missing.
Gap(h) == ((top + 1)..h) \ stored

Tell(message) == outbox' = [q \in Peer |-> Append(outbox[q], message)]

\* The block listed at level h traces back to the chain and its branch is
\* swapped in.  The <inv> that follows is a list of the right length, which
\* build_block_list leaves as it was allocated.
ScanSwap(p, h) ==
    /\ handler = p
    /\ ScanGoesOn(h)
    /\ Gap(h) = {}
    /\ top' = h
    /\ limbo' = limbo \ ((top + 1)..h)
    /\ level' = h
    /\ Tell(Message("inv", [n \in 1..(h - base) |-> Garbage]))
    /\ UNCHANGED <<stored, handler, base, asked, told, inbox>>

\* It does not: where its trace ends, every peer is asked for the block.
ScanChase(p, h) ==
    /\ handler = p
    /\ ScanGoesOn(h)
    /\ Gap(h) # {}
    /\ level' = h
    /\ Tell(Message("getdata", <<Max(Gap(h))>>))
    /\ UNCHANGED <<stored, top, limbo, handler, base, asked, told, inbox>>

\* The cursor is through, or at the height the chain had.
ScanDone(p) ==
    /\ handler = p
    /\ ~ \E h \in limbo : ScanGoesOn(h)
    /\ handler' = Nobody
    /\ UNCHANGED <<stored, top, limbo, base, level, asked, told, inbox, outbox>>

------------------------------------------------------------------------------
(* The specification.                                                      *)

\* The two threads of a connection, one at each end.
PeerReads(p) == PeerGetblocks(p) \/ PeerGetdata(p) \/ PeerInv(p)
NodeReads(p) == ReceiveInv(p) \/ ReceiveGetdata(p) \/ ReceiveBlock(p)
Scan(p) == ScanDone(p) \/ \E h \in limbo : ScanSwap(p, h) \/ ScanChase(p, h)

Next ==
    \/ Join
    \/ \E p \in Peer : PeerReads(p) \/ NodeReads(p) \/ Scan(p) \/ PeerTells(p)

\* The node does join, every message is read and every scan goes on.
Spec ==
    /\ Init
    /\ [][Next]_vars
    /\ WF_vars(Join)
    /\ \A p \in Peer : /\ WF_vars(PeerReads(p)) /\ WF_vars(NodeReads(p))
                       /\ WF_vars(Scan(p))

------------------------------------------------------------------------------
(* Properties.                                                             *)

TypeOK ==
    /\ stored \subseteq Blocks
    /\ top \in 0..MaxHeight
    /\ limbo \subseteq Blocks
    /\ handler \in Peer \cup {Nobody}
    /\ base \in 0..top
    /\ level \in 0..(MaxHeight + 1)
    /\ asked \in BOOLEAN
    /\ told \subseteq Peer
    /\ \A p \in Peer :
           /\ \A m \in ToSet(inbox[p]) : /\ m.ctype \in {"inv", "getdata", "block"}
                                         /\ ToSet(m.ids) \subseteq Hash
           /\ \A m \in ToSet(outbox[p]) : /\ m.ctype \in {"getblocks", "inv", "getdata"}
                                          /\ ToSet(m.ids) \subseteq Hash

\* The height the node can reach with what one <getblocks> asks for.
Reachable == Max({StartHeight} \cup
                 {Min({PeerHeight[p], StartHeight + MaxGetblocks}) : p \in Peer})

\* The node catches up, although the peers list the same blocks, answer in
\* any order and are asked again for what arrived in the meantime.
CatchesUp == <>[](top >= Reachable)

\* The exchange comes to an end.
Quiet == <>[](\A p \in Peer : inbox[p] = <<>> /\ outbox[p] = <<>>)

\* When a handler is done limbo keeps no block that the chain could take,
\* although its scan swaps in one branch at most and does not start again.
NothingHeldBack ==
    /\ TypeOK
    /\ handler = Nobody => \A h \in limbo : h > top => Gap(h) # {}

\* The step that takes a <getdata> off the connection to p puts every block
\* of it that p has on the connection back.
Serves(p) ==
    (outbox[p] # <<>> /\ outbox'[p] = Tail(outbox[p]) /\ Head(outbox[p]).ctype = "getdata") =>
        \A b \in ToSet(Head(outbox[p]).ids) \cap (0..PeerHeight[p]) :
            \E n \in DOMAIN inbox'[p] : inbox'[p][n] = Message("block", <<b>>)

\* A peer answers a <getdata> with every block it has (README.md:277).
RequestsServed == [][\A p \in Peer : Serves(p)]_vars
==============================================================================
