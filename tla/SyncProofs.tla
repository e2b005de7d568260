----------------------------- MODULE SyncProofs ------------------------------
(***************************************************************************)
(* For any peers, heights and size of a list: with any of its statements   *)
(* corrected or not, the scan leaves limbo with no block that the chain    *)
(* could take; and every request is served, whatever its length, once the  *)
(* end of the list of hashes is kept in more than a byte.                  *)
(***************************************************************************)
EXTENDS Sync, SequenceTheorems, FiniteSetTheorems, TLAPS

------------------------------------------------------------------------------
(* Least and greatest numbers.                                             *)

LEMMA LeastNumber ==
    ASSUME NEW T, T \subseteq Nat, T # {}
    PROVE  \E x \in T : \A y \in T : x <= y
<1>1. PICK x \in T : \A y \in T : ~ (<<y, x>> \in OpToRel(<, Nat))
  BY NatLessThanWellFounded, WFMin
<1>2. \A y \in T : ~ (y < x)
  BY <1>1 DEF OpToRel
<1>. QED  BY <1>2

LEMMA MaxIs ==
    ASSUME NEW S \in SUBSET (0..MaxHeight), S # {}
    PROVE  Max(S) \in S /\ \A h \in S : h <= Max(S)
<1>. DEFINE T == {MaxHeight - h : h \in S}
<1>1. T \subseteq Nat /\ T # {}
  <2>1. \A h \in S : MaxHeight - h \in Nat
    BY SyncConstants
  <2>. QED  BY <2>1
<1>2. PICK n \in T : \A m \in T : n <= m
  <2>. HIDE DEF T
  <2>. QED  BY <1>1, LeastNumber
<1>3. PICK x \in S : n = MaxHeight - x
  BY <1>2
<1>4. ASSUME NEW y \in S  PROVE x >= y
  <2>1. MaxHeight - x <= MaxHeight - y
    BY <1>2, <1>3
  <2>. QED  BY <2>1, SyncConstants
<1>. QED  BY <1>4, SyncConstants DEF Max

LEMMA MinIs ==
    ASSUME NEW a \in Int, NEW b \in Int
    PROVE  Min({a, b}) = IF a <= b THEN a ELSE b
<1>1. \E x \in {a, b} : \A y \in {a, b} : x <= y
  OBVIOUS
<1>2. Min({a, b}) \in {a, b} /\ \A y \in {a, b} : Min({a, b}) <= y
  BY <1>1 DEF Min
<1>. QED  BY <1>2

------------------------------------------------------------------------------
(* What is kept of a list.                                                 *)

\* The position of an element among those that are kept.
LEMMA Ranks ==
    ASSUME NEW at, NEW l \in Nat, at \subseteq 1..l
    PROVE  /\ Cardinality(at) \in 0..l
           /\ \A n \in at : Cardinality({i \in at : i <= n}) \in 1..Cardinality(at)
           /\ \A k \in 1..Cardinality(at) :
                 \E n \in at : Cardinality({i \in at : i <= n}) = k
           /\ \A n, m \in at : Cardinality({i \in at : i <= n}) = Cardinality({i \in at : i <= m})
                                   => n = m
<1>. DEFINE R(n) == {i \in at : i <= n}
            C == Cardinality(at)
<1>1. IsFiniteSet(1..l) /\ Cardinality(1..l) = l
  BY FS_Interval
<1>2. IsFiniteSet(at) /\ C \in Nat /\ C <= l
  BY <1>1, FS_Subset, FS_CardinalityType
<1>3. ASSUME NEW n \in at
      PROVE  IsFiniteSet(R(n)) /\ Cardinality(R(n)) \in Nat /\ Cardinality(R(n)) <= C
             /\ Cardinality(R(n)) # 0 /\ n \in R(n)
  <2>1. R(n) \in SUBSET at /\ n \in R(n)
    OBVIOUS
  <2>2. IsFiniteSet(R(n)) /\ Cardinality(R(n)) <= C
    BY <1>2, <2>1, FS_Subset
  <2>3. Cardinality(R(n)) \in Nat
    BY <2>2, FS_CardinalityType
  <2>4. Cardinality(R(n)) # 0
    BY <2>1, <2>2, FS_EmptySet
  <2>. QED  BY <2>1, <2>2, <2>3, <2>4
<1>4. ASSUME NEW n \in at, NEW m \in at, n < m
      PROVE  Cardinality(R(n)) < Cardinality(R(m))
  <2>. DEFINE B == R(m) \ {m}
  <2>1. m \in R(m) /\ IsFiniteSet(R(m)) /\ Cardinality(R(m)) \in Nat /\ Cardinality(R(n)) \in Nat
    BY <1>3
  <2>2. IsFiniteSet(B) /\ Cardinality(B) = Cardinality(R(m)) - 1
    BY <2>1, FS_RemoveElement
  <2>3. R(n) \in SUBSET B
    <3>1. \A i \in at : i \in Nat
      OBVIOUS
    <3>2. \A i \in at : i <= n => i <= m /\ i # m
      BY <1>4, <3>1
    <3>. QED  BY <3>2
  <2>4. Cardinality(R(n)) <= Cardinality(B)
    <3>. HIDE DEF R, B
    <3>. QED  BY <2>2, <2>3, FS_Subset
  <2>. QED  BY <2>1, <2>2, <2>4
<1>5. ASSUME NEW n \in at, NEW m \in at, Cardinality(R(n)) = Cardinality(R(m))
      PROVE  n = m
  <2>1. n \in Nat /\ m \in Nat
    OBVIOUS
  <2>2. Cardinality(R(n)) \in Nat /\ Cardinality(R(m)) \in Nat
    BY <1>3
  <2>3. CASE n < m
    BY <1>4, <1>5, <2>2, <2>3
  <2>4. CASE m < n
    BY <1>4, <1>5, <2>2, <2>4
  <2>. QED  BY <2>1, <2>3, <2>4
<1>. DEFINE f == [n \in at |-> Cardinality(R(n))]
<1>6. f \in Injection(at, 1..C)
  <2>1. \A n \in at : Cardinality(R(n)) \in 1..C
    BY <1>2, <1>3
  <2>. HIDE DEF R, C
  <2>2. f \in [at -> 1..C] /\ DOMAIN f = at
    BY <2>1
  <2>3. \A n, m \in at : f[n] = f[m] => n = m
    BY <1>5
  <2>. HIDE DEF f
  <2>. QED  BY <2>2, <2>3 DEF Injection, IsInjective
<1>7. f \in Surjection(at, 1..C)
  <2>1. IsFiniteSet(1..C) /\ Cardinality(1..C) = C
    BY <1>2, FS_Interval
  <2>. HIDE DEF f
  <2>. QED  BY <1>6, <2>1, FS_Injection
<1>8. ASSUME NEW k \in 1..C PROVE \E n \in at : Cardinality(R(n)) = k
  <2>1. PICK n \in at : f[n] = k
    BY <1>7 DEF Surjection
  <2>. QED  BY <2>1
<1>9. \A n \in at : Cardinality(R(n)) \in 1..C
  BY <1>2, <1>3
<1>. QED  BY <1>2, <1>5, <1>8, <1>9

\* What is kept is all of the list's members of T, and nothing else.
LEMMA KeptIs ==
    ASSUME NEW S, NEW T, NEW s \in Seq(S)
    PROVE  /\ Kept(s, T) \in Seq(S \cap T)
           /\ Len(Kept(s, T)) \in 0..Len(s)
           /\ ToSet(s) \cap T \subseteq ToSet(Kept(s, T))
           /\ (\A n \in 1..Len(s) : s[n] \notin T) => Kept(s, T) = <<>>
<1>. DEFINE at == {n \in 1..Len(s) : s[n] \in T}
            C == Cardinality(at)
            Rank(n) == Cardinality({i \in at : i <= n})
            spot(k) == CHOOSE n \in at : Rank(n) = k
            r == [k \in 1..C |-> s[spot(k)]]
<1>1. Len(s) \in Nat /\ at \subseteq 1..Len(s)
  BY LenProperties
<1>2. Kept(s, T) = r
  BY DEF Kept
<1>. HIDE DEF at
<1>3. /\ C \in 0..Len(s)
      /\ \A n \in at : Rank(n) \in 1..C
      /\ \A k \in 1..C : \E n \in at : Rank(n) = k
      /\ \A n, m \in at : Rank(n) = Rank(m) => n = m
  BY <1>1, Ranks
<1>. HIDE DEF C, Rank
<1>4. ASSUME NEW k \in 1..C
      PROVE  spot(k) \in at /\ Rank(spot(k)) = k
  BY <1>3
<1>5. \A n \in at : s[n] \in S \cap T
  BY <1>1, ElementOfSeq DEF at
<1>. HIDE DEF spot
<1>6. \A k \in 1..C : s[spot(k)] \in S \cap T
  BY <1>4, <1>5
<1>7. r \in Seq(S \cap T) /\ Len(r) = C
  BY <1>1, <1>3, <1>6
<1>8. ASSUME NEW n \in 1..Len(s), s[n] \in T
      PROVE  \E k \in 1..C : r[k] = s[n]
  <2>1. n \in at
    BY <1>8 DEF at
  <2>2. Rank(n) \in 1..C
    BY <1>3, <2>1
  <2>3. spot(Rank(n)) = n
    BY <1>3, <1>4, <2>1, <2>2
  <2>4. r[Rank(n)] = s[n]
    BY <2>2, <2>3
  <2>. QED  BY <2>2, <2>4
<1>9. ASSUME \A n \in 1..Len(s) : s[n] \notin T
      PROVE  r = <<>>
  <2>1. at = {}
    BY <1>9 DEF at
  <2>2. C = 0
    BY <2>1, FS_EmptySet DEF C
  <2>. QED  BY <1>7, <2>2, EmptySeq
<1>10. ToSet(s) \cap T \subseteq ToSet(r)
  <2>. SUFFICES ASSUME NEW x \in ToSet(s), x \in T  PROVE x \in ToSet(r)
    OBVIOUS
  <2>1. PICK n \in 1..Len(s) : s[n] = x
    BY LenProperties DEF ToSet
  <2>2. PICK k \in 1..C : r[k] = x
    BY <1>8, <2>1
  <2>. QED  BY <2>2 DEF ToSet
<1>. HIDE DEF r
<1>. QED  BY <1>2, <1>3, <1>7, <1>9, <1>10

------------------------------------------------------------------------------
(* Messages.                                                               *)

\* What is on its way to the node: peers ask it for nothing it has, since
\* they hear of garbage only.
NodeMail == [ctype : {"inv"}, ids : Seq(Hash)]
            \cup [ctype : {"getdata"}, ids : Seq({Garbage})]
            \cup [ctype : {"block"}, ids : {<<b>> : b \in Blocks}]

\* What is on its way to a peer.
PeerMail == [ctype : {"getblocks"}, ids : {<<h>> : h \in 0..MaxHeight}]
            \cup [ctype : {"inv"}, ids : Seq({Garbage})]
            \cup [ctype : {"getdata"}, ids : Seq(Hash)]

LEMMA Single ==
    ASSUME NEW S, NEW h \in S
    PROVE  <<h>> \in Seq(S)
  OBVIOUS

LEMMA ListBuilt ==
    ASSUME NEW start \in 0..MaxHeight, NEW h \in 0..MaxHeight
    PROVE  build_block_list(start, h) \in Seq(Hash)
<1>. DEFINE e == ListEnd(start, h)
            n == e - start - 1
            ids == [k \in 1..n |-> IF "list_dest" \in Repaired THEN start + k ELSE Garbage]
<1>1. CASE start > h
  <2>1. build_block_list(start, h) = <<>>
    BY <1>1 DEF build_block_list
  <2>. QED  BY <2>1
<1>2. CASE ~ (start > h)
  <2>. DEFINE mx == IF h + 1 - (start + 1) > UCHAR_MAX
                     THEN (start + 1) + UCHAR_MAX ELSE h + 1
  <2>1. MaxHeight \in Nat /\ start \in Nat /\ h \in Nat /\ h <= MaxHeight /\ start <= h
        /\ MaxGetblocks \in Nat /\ UCHAR_MAX \in Nat
    BY <1>2, SyncConstants
  <2>2. mx \in Int /\ mx <= h + 1 /\ mx >= start + 1
    BY <2>1
  <2>3. e = Min({mx, (start + 1) + MaxGetblocks})
    BY DEF ListEnd
  <2>. HIDE DEF mx, e
  <2>4. e \in Int /\ e <= h + 1 /\ e >= start + 1
    BY <2>1, <2>2, <2>3, MinIs
  <2>5. n \in Nat /\ start + n <= h /\ n <= MaxHeight
    BY <2>1, <2>4
  <2>6. build_block_list(start, h) = ids
    BY <1>2 DEF build_block_list, e
  <2>. HIDE DEF n
  <2>7. \A k \in 1..n : (IF "list_dest" \in Repaired THEN start + k ELSE Garbage) \in Hash
    <3>1. \A k \in 1..n : start + k \in Blocks
      BY <2>1, <2>5 DEF Blocks
    <3>. QED  BY <3>1 DEF Hash
  <2>8. ids \in Seq(Hash) /\ Len(ids) = n
    BY <2>5, <2>7
  <2>. QED  BY <2>6, <2>8
<1>. QED  BY <1>1, <1>2

\* The positions that are visited are among the first ones, and all of them
\* when the end of the list is not cut to a byte.
LEMMA VisitedIs ==
    ASSUME NEW count \in Nat
    PROVE  /\ Cardinality(Visited(count)) \in 0..count
           /\ "max_width" \in Repaired => Cardinality(Visited(count)) = count
<1>1. Visited(count) \in SUBSET (1..count)
  BY DEF Visited
<1>2. IsFiniteSet(1..count) /\ Cardinality(1..count) = count
  BY FS_Interval
<1>3. Cardinality(Visited(count)) \in 0..count
  BY <1>1, <1>2, FS_Subset, FS_CardinalityType
<1>4. ASSUME "max_width" \in Repaired PROVE Visited(count) = 1..count
  <2>. DEFINE k == SIZE_SHA256
  <2>1. k \in Nat /\ k > 2
    BY SyncConstants
  <2>2. ASSUME NEW n \in 1..count PROVE 2 + k * (n - 1) < count * k
    <3>. HIDE DEF k
    <3>. DEFINE d == count - n
    <3>1. d \in Nat /\ count = n + d
      OBVIOUS
    <3>. HIDE DEF d
    <3>2. (n + d) * k = k * (n - 1) + k + d * k /\ d * k \in Nat /\ k * (n - 1) \in Nat
      BY <2>1, <3>1
    <3>. QED  BY <2>1, <3>1, <3>2
  <2>. QED  BY <1>4, <2>2 DEF Visited
<1>. QED  BY <1>2, <1>3, <1>4

LEMMA FirstOnes ==
    ASSUME NEW S, NEW ids \in Seq(S), NEW c \in 0..Len(ids)
    PROVE  SubSeq(ids, 1, c) \in Seq(S)
<1>1. Len(ids) \in Nat /\ c \in Nat /\ c <= Len(ids)
  BY LenProperties
<1>2. \A i \in 1..c : ids[i] \in S
  BY <1>1, ElementOfSeq
<1>. QED  BY <1>1, <1>2, SubSeqProperties

\* The answer to a request has only blocks that are had and requested and,
\* when the end of the list is not cut, all of them.
LEMMA ServedIs ==
    ASSUME NEW S, NEW ids \in Seq(S), NEW have
    PROVE  /\ Served(ids, have) \in Seq({Message("block", <<b>>) : b \in S \cap have})
           /\ S \cap have = {} => Served(ids, have) = <<>>
           /\ "max_width" \in Repaired =>
                 \A b \in ToSet(ids) \cap have :
                     Message("block", <<b>>) \in ToSet(Served(ids, have))
<1>. DEFINE c == Cardinality(Visited(Len(ids)))
            front == SubSeq(ids, 1, c)
            sent == Kept(front, have)
            M == {Message("block", <<b>>) : b \in S \cap have}
            r == [n \in DOMAIN sent |-> Message("block", <<sent[n]>>)]
<1>1. Served(ids, have) = r
  BY DEF Served
<1>2. Len(ids) \in Nat /\ DOMAIN ids = 1..Len(ids)
  BY LenProperties
<1>3. c \in 0..Len(ids) /\ ("max_width" \in Repaired => c = Len(ids))
  BY <1>2, VisitedIs
<1>4. front \in Seq(S)
  BY <1>3, FirstOnes
<1>5. "max_width" \in Repaired => front = ids
  BY <1>3, SubSeqFull
<1>. HIDE DEF front
<1>6. /\ sent \in Seq(S \cap have)
      /\ ToSet(front) \cap have \subseteq ToSet(sent)
      /\ (\A n \in 1..Len(front) : front[n] \notin have) => sent = <<>>
  BY <1>4, KeptIs
<1>. HIDE DEF sent
<1>7. /\ DOMAIN sent = 1..Len(sent) /\ Len(sent) \in Nat
      /\ \A n \in 1..Len(sent) : sent[n] \in S \cap have
  BY <1>6, LenProperties, ElementOfSeq
<1>8. \A n \in 1..Len(sent) : Message("block", <<sent[n]>>) \in M
  BY <1>7
<1>. HIDE DEF M
<1>9. /\ r \in Seq(M) /\ Len(r) = Len(sent)
      /\ \A n \in 1..Len(sent) : r[n] = Message("block", <<sent[n]>>)
  BY <1>7, <1>8
<1>. HIDE DEF r
<1>10. ASSUME S \cap have = {} PROVE r = <<>>
  <2>1. \A n \in 1..Len(front) : front[n] \notin have
    BY <1>4, <1>10, ElementOfSeq
  <2>2. sent = <<>>
    BY <1>6, <2>1
  <2>3. Len(sent) = 0
    BY <2>2
  <2>. QED  BY <1>9, <2>3, EmptySeq
<1>11. ASSUME "max_width" \in Repaired, NEW b \in ToSet(ids) \cap have
       PROVE  Message("block", <<b>>) \in ToSet(r)
  <2>1. b \in ToSet(sent)
    BY <1>5, <1>6, <1>11
  <2>2. PICK k \in 1..Len(sent) : sent[k] = b
    BY <1>7, <2>1 DEF ToSet
  <2>. QED  BY <1>9, <2>2, LenProperties DEF ToSet
<1>. QED  BY <1>1, <1>9, <1>10, <1>11 DEF M

------------------------------------------------------------------------------
(* The inductive invariant.                                                *)

MailTyped ==
    /\ inbox \in [Peer -> Seq(NodeMail)]
    /\ outbox \in [Peer -> Seq(PeerMail)]

\* Of the levels above the chain, the scan has left behind those whose block
\* does not connect to it: all of them when it is through.
Taken == \A h \in limbo : h > top /\ (handler = Nobody \/ h >= level) => Gap(h) # {}

\* What the scan has put on the chain is not listed any more.
Unlisted == handler # Nobody => \A h \in limbo : ~ (base < h /\ h <= top)

SyncInv ==
    /\ stored \subseteq Blocks
    /\ top \in 0..MaxHeight
    /\ limbo \subseteq Blocks
    /\ handler \in Peer \cup {Nobody}
    /\ base \in 0..top
    /\ level \in 0..(MaxHeight + 1)
    /\ asked \in BOOLEAN
    /\ told \subseteq Peer
    /\ MailTyped
    /\ Taken
    /\ Unlisted

LEMMA ToNode ==
    /\ \A ids \in Seq(Hash) : Message("inv", ids) \in NodeMail
    /\ \A ids \in Seq({Garbage}) : Message("getdata", ids) \in NodeMail
    /\ \A b \in Blocks : Message("block", <<b>>) \in NodeMail
    /\ \A m \in NodeMail :
          /\ m.ctype \in {"inv", "getdata", "block"}
          /\ m.ctype = "inv" => m.ids \in Seq(Hash)
          /\ m.ctype = "getdata" => m.ids \in Seq({Garbage})
          /\ m.ctype = "block" => \E b \in Blocks : m.ids = <<b>>
  BY DEF NodeMail, Message

LEMMA ToPeer ==
    /\ \A h \in 0..MaxHeight : Message("getblocks", <<h>>) \in PeerMail
    /\ \A ids \in Seq({Garbage}) : Message("inv", ids) \in PeerMail
    /\ \A ids \in Seq(Hash) : Message("getdata", ids) \in PeerMail
    /\ \A m \in PeerMail :
          /\ m.ctype \in {"getblocks", "inv", "getdata"}
          /\ m.ctype = "getblocks" => \E h \in 0..MaxHeight : m.ids = <<h>>
          /\ m.ctype = "inv" => m.ids \in Seq({Garbage})
          /\ m.ctype = "getdata" => m.ids \in Seq(Hash)
  BY DEF PeerMail, Message

\* A queue loses its head or gains messages at its end.
LEMMA Queues ==
    ASSUME NEW M, NEW box \in [Peer -> Seq(M)], NEW p \in Peer
    PROVE  /\ \A m \in M : [box EXCEPT ![p] = Append(@, m)] \in [Peer -> Seq(M)]
           /\ \A s \in Seq(M) : [box EXCEPT ![p] = @ \o s] \in [Peer -> Seq(M)]
           /\ box[p] # <<>> => /\ [box EXCEPT ![p] = Tail(@)] \in [Peer -> Seq(M)]
                               /\ Head(box[p]) \in M
<1>1. box[p] \in Seq(M)
  OBVIOUS
<1>2. \A m \in M : Append(box[p], m) \in Seq(M)
  BY <1>1, AppendProperties
<1>3. \A s \in Seq(M) : box[p] \o s \in Seq(M)
  BY <1>1, ConcatProperties
<1>4. ASSUME box[p] # <<>> PROVE Tail(box[p]) \in Seq(M) /\ Head(box[p]) \in M
  BY <1>1, <1>4, HeadTailProperties
<1>. QED  BY <1>2, <1>3, <1>4

LEMMA Longer ==
    ASSUME NEW M, NEW s \in Seq(M), NEW t \in Seq(M)
    PROVE  s \o t \in Seq(M) /\ Len(s \o t) >= Len(s)
<1>1. s \o t \in Seq(M) /\ Len(s \o t) = Len(s) + Len(t)
  BY ConcatProperties
<1>2. Len(s) \in Nat /\ Len(t) \in Nat
  BY LenProperties
<1>. QED  BY <1>1, <1>2

LEMMA Kind ==
    ASSUME NEW M, NEW N, M \subseteq N, NEW s \in Seq(M)
    PROVE  s \in Seq(N)
  OBVIOUS

\* A list of garbage stays one.
LEMMA KeptList ==
    ASSUME NEW S, NEW T, NEW ids \in Seq(S)
    PROVE  Kept(ids, T) \in Seq(S)
<1>1. Kept(ids, T) \in Seq(S \cap T)
  BY KeptIs
<1>. QED  BY <1>1, Kind

------------------------------------------------------------------------------
(* The messages a step adds.                                               *)

LEMMA HeightTyped ==
    ASSUME NEW p \in Peer
    PROVE  PeerHeight[p] \in 0..MaxHeight /\ PeerHeight[p] \in Nat
           /\ 0..PeerHeight[p] \subseteq Blocks
<1>1. PeerHeight[p] \in 0..MaxHeight
  BY SyncConstants
<1>. QED  BY <1>1, SyncConstants DEF Blocks

LEMMA ServedToNode ==
    ASSUME NEW p \in Peer, NEW ids \in Seq(Hash)
    PROVE  Served(ids, 0..PeerHeight[p]) \in Seq(NodeMail)
<1>. DEFINE have == 0..PeerHeight[p]
            M == {Message("block", <<b>>) : b \in Hash \cap have}
<1>1. ids \in Seq(Hash)
  OBVIOUS
<1>2. Served(ids, have) \in Seq(M)
  BY <1>1, ServedIs
<1>3. M \subseteq NodeMail
  BY HeightTyped, ToNode
<1>. HIDE DEF M
<1>. QED  BY <1>2, <1>3, Kind

LEMMA NothingServed ==
    ASSUME NEW ids \in Seq({Garbage}), stored \subseteq Blocks
    PROVE  Served(ids, stored) = <<>>
<1>1. ids \in Seq({Garbage})
  OBVIOUS
<1>2. {Garbage} \cap stored = {}
  BY SyncConstants DEF Garbage, Blocks
<1>. QED  BY <1>1, <1>2, ServedIs

LEMMA OwnRequestTyped ==
    ASSUME NEW b \in Blocks, NEW place
    PROVE  OwnRequest(b, place) \in Seq(PeerMail)
<1>1. b \in Hash /\ b - 1 \in Hash
  BY SyncConstants DEF Blocks, Hash, Garbage
<1>2. WantedOf(b) \in Hash
  BY <1>1 DEF WantedOf
<1>3. Message("getdata", <<WantedOf(b)>>) \in PeerMail
  BY <1>2, Single, ToPeer
<1>. QED  BY <1>3 DEF OwnRequest

LEMMA AnnouncementTyped ==
    ASSUME NEW n \in Nat
    PROVE  Message("inv", [i \in 1..n |-> Garbage]) \in PeerMail
<1>. DEFINE ids == [i \in 1..n |-> Garbage]
<1>1. ids \in Seq({Garbage})
  OBVIOUS
<1>. HIDE DEF ids
<1>2. Message("inv", ids) \in PeerMail
  BY <1>1, ToPeer
<1>. QED  BY <1>2 DEF ids

\* An orphan's trace ends at a block that is missing.
LEMMA ChaseTyped ==
    ASSUME SyncInv, NEW h \in limbo, Gap(h) # {}
    PROVE  Message("getdata", <<Max(Gap(h))>>) \in PeerMail
<1>1. Gap(h) \in SUBSET (0..MaxHeight)
  BY SyncConstants DEF SyncInv, Gap, Blocks
<1>2. Max(Gap(h)) \in Hash
  BY <1>1, MaxIs DEF Hash, Blocks
<1>. QED  BY <1>2, Single, ToPeer

------------------------------------------------------------------------------
(* Every step keeps the invariant.                                         *)

LEMMA InitInv == Init => SyncInv
<1>. SUFFICES ASSUME Init PROVE SyncInv
  OBVIOUS
<1>1. /\ stored \subseteq Blocks /\ top \in 0..MaxHeight
      /\ base \in 0..top /\ level \in 0..(MaxHeight + 1)
  BY SyncConstants DEF Init, Blocks
<1>2. limbo = {} /\ handler = Nobody /\ asked \in BOOLEAN /\ told \subseteq Peer
  BY DEF Init
<1>3. MailTyped
  BY DEF Init, MailTyped
<1>. QED  BY <1>1, <1>2, <1>3 DEF SyncInv, Taken, Unlisted

LEMMA JoinInv ==
    ASSUME SyncInv, Join
    PROVE  SyncInv'
<1>1. Message("getblocks", <<top>>) \in PeerMail
  BY ToPeer DEF SyncInv
<1>2. \A p \in Peer : Append(outbox[p], Message("getblocks", <<top>>)) \in Seq(PeerMail)
  BY <1>1, AppendProperties DEF SyncInv, MailTyped
<1>3. MailTyped'
  BY <1>2 DEF SyncInv, MailTyped, Join
<1>. QED  BY <1>3 DEF SyncInv, Taken, Unlisted, Gap, scanVars, Join

\* The steps at a peer and the node's answers leave its chain alone.
LEMMA ChainKept ==
    ASSUME SyncInv, UNCHANGED nodeVars, told' \subseteq Peer, MailTyped'
    PROVE  SyncInv'
  BY DEF SyncInv, Taken, Unlisted, Gap, nodeVars, scanVars

LEMMA PeerGetblocksInv ==
    ASSUME SyncInv, NEW p \in Peer, PeerGetblocks(p)
    PROVE  SyncInv'
<1>. DEFINE m == Head(outbox[p])
            ids == build_block_list(m.ids[1], PeerHeight[p])
<1>1. MailTyped /\ told' = told /\ told \subseteq Peer /\ UNCHANGED nodeVars
  BY DEF SyncInv, PeerGetblocks
<1>2. m \in PeerMail /\ m.ctype = "getblocks"
  BY <1>1, Queues DEF MailTyped, PeerGetblocks
<1>3. PICK h \in 0..MaxHeight : m.ids = <<h>>
  BY <1>2, ToPeer
<1>4. ids \in Seq(Hash)
  BY <1>3, HeightTyped, ListBuilt
<1>5. Message("inv", ids) \in NodeMail
  BY <1>4, ToNode
<1>6. inbox' = [inbox EXCEPT ![p] = Append(@, Message("inv", ids))]
  BY DEF PeerGetblocks
<1>. HIDE DEF ids
<1>7. inbox' \in [Peer -> Seq(NodeMail)]
  BY <1>1, <1>5, <1>6, Queues DEF MailTyped
<1>8. outbox' \in [Peer -> Seq(PeerMail)]
  BY <1>1, Queues DEF MailTyped, PeerGetblocks
<1>. QED  BY <1>1, <1>7, <1>8, ChainKept DEF MailTyped

LEMMA PeerGetdataInv ==
    ASSUME SyncInv, NEW p \in Peer, PeerGetdata(p)
    PROVE  SyncInv'
<1>. DEFINE m == Head(outbox[p])
            sent == Served(m.ids, 0..PeerHeight[p])
<1>1. MailTyped /\ told' = told /\ told \subseteq Peer /\ UNCHANGED nodeVars
  BY DEF SyncInv, PeerGetdata
<1>2. m \in PeerMail /\ m.ctype = "getdata"
  BY <1>1, Queues DEF MailTyped, PeerGetdata
<1>3. sent \in Seq(NodeMail)
  BY <1>2, ToPeer, ServedToNode
<1>4. inbox' = [inbox EXCEPT ![p] = @ \o sent]
  BY DEF PeerGetdata
<1>. HIDE DEF sent
<1>5. inbox' \in [Peer -> Seq(NodeMail)]
  BY <1>1, <1>3, <1>4, Queues DEF MailTyped
<1>6. outbox' \in [Peer -> Seq(PeerMail)]
  BY <1>1, Queues DEF MailTyped, PeerGetdata
<1>. QED  BY <1>1, <1>5, <1>6, ChainKept DEF MailTyped

LEMMA PeerInvInv ==
    ASSUME SyncInv, NEW p \in Peer, PeerInv(p)
    PROVE  SyncInv'
<1>. DEFINE m == Head(outbox[p])
            ids == Kept(m.ids, Hash \ (0..PeerHeight[p]))
<1>1. MailTyped /\ told' = told /\ told \subseteq Peer /\ UNCHANGED nodeVars
  BY DEF SyncInv, PeerInv
<1>2. m \in PeerMail /\ m.ctype = "inv"
  BY <1>1, Queues DEF MailTyped, PeerInv
<1>3. ids \in Seq({Garbage})
  BY <1>2, ToPeer, KeptList
<1>4. Message("getdata", ids) \in NodeMail
  BY <1>3, ToNode
<1>5. inbox' = [inbox EXCEPT ![p] = Append(@, Message("getdata", ids))]
  BY DEF PeerInv
<1>. HIDE DEF ids
<1>6. inbox' \in [Peer -> Seq(NodeMail)]
  BY <1>1, <1>4, <1>5, Queues DEF MailTyped
<1>7. outbox' \in [Peer -> Seq(PeerMail)]
  BY <1>1, Queues DEF MailTyped, PeerInv
<1>. QED  BY <1>1, <1>6, <1>7, ChainKept DEF MailTyped

LEMMA PeerTellsInv ==
    ASSUME SyncInv, NEW p \in Peer, PeerTells(p)
    PROVE  SyncInv'
<1>1. MailTyped /\ told' \subseteq Peer /\ UNCHANGED nodeVars /\ outbox' = outbox
  BY DEF SyncInv, PeerTells
<1>2. PeerHeight[p] \in Hash
  BY HeightTyped DEF Hash, Blocks
<1>3. Message("inv", <<PeerHeight[p]>>) \in NodeMail
  BY <1>2, Single, ToNode
<1>4. inbox' \in [Peer -> Seq(NodeMail)]
  BY <1>1, <1>3, Queues DEF MailTyped, PeerTells
<1>. QED  BY <1>1, <1>4, ChainKept DEF MailTyped

LEMMA ReceiveInvInv ==
    ASSUME SyncInv, NEW p \in Peer, ReceiveInv(p)
    PROVE  SyncInv'
<1>. DEFINE m == Head(inbox[p])
            ids == build_missing_blocks_list(m.ids)
<1>1. MailTyped /\ told' = told /\ told \subseteq Peer /\ UNCHANGED nodeVars
  BY DEF SyncInv, ReceiveInv
<1>2. m \in NodeMail /\ m.ctype = "inv"
  BY <1>1, Queues DEF MailTyped, ReceiveInv
<1>3. ids \in Seq(Hash)
  BY <1>2, ToNode, KeptList DEF build_missing_blocks_list
<1>4. Message("getdata", ids) \in PeerMail
  BY <1>3, ToPeer
<1>5. outbox' = [outbox EXCEPT ![p] = Append(@, Message("getdata", ids))]
  BY DEF ReceiveInv
<1>. HIDE DEF ids
<1>6. outbox' \in [Peer -> Seq(PeerMail)]
  BY <1>1, <1>4, <1>5, Queues DEF MailTyped
<1>7. inbox' \in [Peer -> Seq(NodeMail)]
  BY <1>1, Queues DEF MailTyped, ReceiveInv
<1>. QED  BY <1>1, <1>6, <1>7, ChainKept DEF MailTyped

LEMMA ReceiveGetdataInv ==
    ASSUME SyncInv, NEW p \in Peer, ReceiveGetdata(p)
    PROVE  SyncInv'
<1>. DEFINE m == Head(inbox[p])
            sent == Served(m.ids, stored)
<1>1. MailTyped /\ told' = told /\ told \subseteq Peer /\ UNCHANGED nodeVars
      /\ stored \subseteq Blocks
  BY DEF SyncInv, ReceiveGetdata
<1>2. m \in NodeMail /\ m.ctype = "getdata"
  BY <1>1, Queues DEF MailTyped, ReceiveGetdata
<1>3. sent = <<>>
  BY <1>1, <1>2, ToNode, NothingServed
<1>4. sent \in Seq(PeerMail)
  <2>1. <<>> \in Seq(PeerMail)
    OBVIOUS
  <2>. HIDE DEF sent
  <2>. QED  BY <1>3, <2>1
<1>5. outbox' = [outbox EXCEPT ![p] = @ \o sent]
  BY DEF ReceiveGetdata
<1>. HIDE DEF sent
<1>6. outbox' \in [Peer -> Seq(PeerMail)]
  BY <1>1, <1>4, <1>5, Queues DEF MailTyped
<1>7. inbox' \in [Peer -> Seq(NodeMail)]
  BY <1>1, Queues DEF MailTyped, ReceiveGetdata
<1>. QED  BY <1>1, <1>6, <1>7, ChainKept DEF MailTyped

LEMMA ReceiveBlockInv ==
    ASSUME SyncInv, NEW p \in Peer, ReceiveBlock(p)
    PROVE  SyncInv' /\ \A q \in Peer : Len(outbox'[q]) >= Len(outbox[q])
<1>. DEFINE m == Head(inbox[p])
            b == m.ids[1]
            place == Placement(b, top)
            own == OwnRequest(b, place)
<1>1. MailTyped /\ stored \subseteq Blocks /\ top \in 0..MaxHeight /\ limbo \subseteq Blocks
  BY DEF SyncInv
<1>2. m \in NodeMail /\ m.ctype = "block"
  BY <1>1, Queues DEF MailTyped, ReceiveBlock
<1>3. b \in Blocks
  <2>1. PICK x \in Blocks : m.ids = <<x>>
    BY <1>2, ToNode
  <2>. QED  BY <2>1
<1>4. /\ stored' = stored \cup {b}
      /\ top' = IF place = "append" THEN b ELSE top
      /\ limbo' = IF place = "request" THEN limbo \cup {b} ELSE limbo
      /\ outbox' = [outbox EXCEPT ![p] = @ \o own]
      /\ inbox' = [inbox EXCEPT ![p] = Tail(@)] /\ inbox[p] # <<>>
      /\ handler' = p /\ base' = top' /\ level' = MaxHeight + 1
      /\ asked' = asked /\ told' = told
  BY DEF ReceiveBlock
<1>5. own \in Seq(PeerMail)
  BY <1>3, OwnRequestTyped
<1>. HIDE DEF b, place, own
<1>6. /\ stored' \subseteq Blocks /\ limbo' \subseteq Blocks
      /\ top' \in 0..MaxHeight /\ base' \in 0..top' /\ level' \in 0..(MaxHeight + 1)
  BY <1>1, <1>3, <1>4, SyncConstants DEF Blocks
<1>7. Taken' /\ Unlisted'
  <2>1. handler' # Nobody
    BY <1>4, SyncConstants
  <2>2. \A h \in limbo' : ~ (h >= level') /\ ~ (base' < h /\ h <= top')
    BY <1>4, <1>6, SyncConstants DEF Blocks
  <2>. QED  BY <2>1, <2>2 DEF Taken, Unlisted
<1>8. inbox' \in [Peer -> Seq(NodeMail)] /\ outbox' \in [Peer -> Seq(PeerMail)]
  BY <1>1, <1>4, <1>5, Queues DEF MailTyped
<1>9. ASSUME NEW q \in Peer PROVE Len(outbox'[q]) >= Len(outbox[q])
  <2>1. outbox[q] \in Seq(PeerMail) /\ Len(outbox[q]) \in Nat
    BY <1>1, LenProperties DEF MailTyped
  <2>2. Len(outbox[q] \o own) >= Len(outbox[q])
    BY <1>5, <2>1, Longer
  <2>3. outbox'[q] = IF q = p THEN outbox[q] \o own ELSE outbox[q]
    BY <1>1, <1>4 DEF MailTyped
  <2>. QED  BY <2>1, <2>2, <2>3
<1>. QED  BY <1>4, <1>6, <1>7, <1>8, <1>9 DEF SyncInv, MailTyped

\* A message to all peers.
LEMMA Told ==
    ASSUME SyncInv, NEW m \in PeerMail, Tell(m)
    PROVE  /\ outbox' \in [Peer -> Seq(PeerMail)]
           /\ \A q \in Peer : Len(outbox'[q]) >= Len(outbox[q])
<1>1. \A q \in Peer : outbox[q] \in Seq(PeerMail)
  BY DEF SyncInv, MailTyped
<1>2. \A q \in Peer : /\ Append(outbox[q], m) \in Seq(PeerMail)
                      /\ Len(Append(outbox[q], m)) = Len(outbox[q]) + 1
                      /\ Len(outbox[q]) \in Nat
  BY <1>1, AppendProperties, LenProperties
<1>. QED  BY <1>2 DEF Tell

\* The cursor leaves no listed level between the last one and the next.
LEMMA NextBelow ==
    ASSUME SyncInv, NEW h \in limbo, ScanGoesOn(h), handler # Nobody
    PROVE  /\ h \in 0..MaxHeight /\ h > top /\ h > base
           /\ \A k \in limbo : k > h => k >= level /\ k > top
  BY SyncConstants DEF SyncInv, ScanGoesOn, ScanNext, Unlisted, Blocks

LEMMA ScanSwapInv ==
    ASSUME SyncInv, NEW p \in Peer, NEW h \in limbo, ScanSwap(p, h)
    PROVE  SyncInv' /\ \A q \in Peer : Len(outbox'[q]) >= Len(outbox[q])
<1>1. /\ handler = p /\ handler # Nobody /\ ScanGoesOn(h) /\ Gap(h) = {}
      /\ top' = h /\ limbo' = limbo \ ((top + 1)..h) /\ level' = h
      /\ UNCHANGED <<stored, handler, base, asked, told, inbox>>
      /\ Tell(Message("inv", [n \in 1..(h - base) |-> Garbage]))
  BY SyncConstants DEF ScanSwap
<1>2. /\ h \in 0..MaxHeight /\ h > top /\ h > base
      /\ \A k \in limbo : k > h => k >= level /\ k > top
  BY <1>1, NextBelow
<1>3. /\ top \in 0..MaxHeight /\ base \in 0..top /\ limbo \subseteq 0..MaxHeight
      /\ MaxHeight \in Nat
  BY SyncConstants DEF SyncInv, Blocks
<1>4. h - base \in Nat
  BY <1>2, <1>3
<1>5. /\ outbox' \in [Peer -> Seq(PeerMail)]
      /\ \A q \in Peer : Len(outbox'[q]) >= Len(outbox[q])
  BY <1>1, <1>4, AnnouncementTyped, Told
<1>6. Taken'
  <2>. SUFFICES ASSUME NEW k \in limbo', k > h PROVE Gap(k)' # {}
    BY <1>1, <1>2 DEF Taken
  <2>1. k \in limbo /\ k >= level /\ k > top /\ k \in 0..MaxHeight
    BY <1>1, <1>2, <1>3
  <2>2. PICK x \in (top + 1)..k : x \notin stored
    BY <1>1, <2>1 DEF SyncInv, Taken, Gap
  <2>3. ~ (x <= h)
    BY <1>1, <1>2, <1>3, <2>1, <2>2 DEF Gap
  <2>4. x \in (h + 1)..k
    BY <1>2, <1>3, <2>1, <2>2, <2>3
  <2>. QED  BY <1>1, <2>2, <2>4 DEF Gap
<1>7. Unlisted'
  <2>. SUFFICES ASSUME NEW k \in limbo', base < k, k <= h PROVE FALSE
    BY <1>1 DEF Unlisted
  <2>1. k \in limbo /\ k \in 0..MaxHeight /\ ~ (k \in (top + 1)..h)
    BY <1>1, <1>3
  <2>2. ~ (k <= top)
    BY <1>1, <2>1 DEF SyncInv, Unlisted
  <2>. QED  BY <1>2, <1>3, <2>1, <2>2
<1>8. base \in 0..h /\ h \in 0..(MaxHeight + 1)
  BY <1>2, <1>3
<1>. QED  BY <1>1, <1>2, <1>5, <1>6, <1>7, <1>8 DEF SyncInv, MailTyped

LEMMA ScanChaseInv ==
    ASSUME SyncInv, NEW p \in Peer, NEW h \in limbo, ScanChase(p, h)
    PROVE  SyncInv' /\ \A q \in Peer : Len(outbox'[q]) >= Len(outbox[q])
<1>1. /\ handler = p /\ handler # Nobody /\ ScanGoesOn(h) /\ Gap(h) # {}
      /\ level' = h /\ UNCHANGED <<stored, top, limbo, handler, base, asked, told, inbox>>
      /\ Tell(Message("getdata", <<Max(Gap(h))>>))
  BY SyncConstants DEF ScanChase
<1>2. /\ h \in 0..MaxHeight
      /\ \A k \in limbo : k > h => k >= level /\ k > top
  BY <1>1, NextBelow
<1>3. /\ outbox' \in [Peer -> Seq(PeerMail)]
      /\ \A q \in Peer : Len(outbox'[q]) >= Len(outbox[q])
  BY <1>1, ChaseTyped, Told
<1>4. Taken'
  <2>. SUFFICES ASSUME NEW k \in limbo, k > top, k >= h PROVE Gap(k) # {}
    BY <1>1 DEF Taken, Gap
  <2>1. k = h \/ k > h
    BY <1>2 DEF SyncInv, Blocks
  <2>. QED  BY <1>1, <1>2, <2>1 DEF SyncInv, Taken
<1>5. h \in 0..(MaxHeight + 1)
  BY <1>2, SyncConstants
<1>. QED  BY <1>1, <1>3, <1>4, <1>5 DEF SyncInv, MailTyped, Unlisted

LEMMA ScanDoneInv ==
    ASSUME SyncInv, NEW p \in Peer, ScanDone(p)
    PROVE  SyncInv'
<1>1. /\ handler = p /\ handler # Nobody /\ handler' = Nobody
      /\ ~ \E h \in limbo : ScanGoesOn(h)
      /\ UNCHANGED <<stored, top, limbo, base, level, asked, told, inbox, outbox>>
  BY SyncConstants DEF ScanDone
<1>2. /\ top \in 0..MaxHeight /\ base \in 0..top /\ limbo \subseteq 0..MaxHeight
      /\ MaxHeight \in Nat /\ level \in 0..(MaxHeight + 1)
  BY SyncConstants DEF SyncInv, Blocks
<1>3. ASSUME NEW h \in limbo, h > top PROVE Gap(h) # {}
  <2>1. CASE h >= level
    BY <1>3, <2>1 DEF SyncInv, Taken
  <2>2. CASE h < level
    <3>. DEFINE S == {k \in limbo : k < level}
                x == Max(S)
    <3>1. S \in SUBSET (0..MaxHeight) /\ h \in S
      BY <1>2, <2>2
    <3>2. x \in S /\ \A k \in S : k <= x
      <4>. HIDE DEF S
      <4>. QED  BY <3>1, MaxIs
    <3>. HIDE DEF x
    <3>3. ScanGoesOn(x)
      BY <1>2, <1>3, <3>1, <3>2 DEF ScanGoesOn, ScanNext
    <3>. QED  BY <1>1, <3>2, <3>3
  <2>. QED  BY <1>2, <2>1, <2>2
<1>4. Taken' /\ Unlisted'
  BY <1>1, <1>3 DEF Taken, Unlisted, Gap
<1>. QED  BY <1>1, <1>4 DEF SyncInv, MailTyped

LEMMA ScanInv ==
    ASSUME SyncInv, NEW p \in Peer, Scan(p)
    PROVE  SyncInv' /\ \A q \in Peer : Len(outbox'[q]) >= Len(outbox[q])
<1>1. CASE ScanDone(p)
  <2>1. outbox' = outbox /\ \A q \in Peer : outbox[q] \in Seq(PeerMail)
    BY <1>1 DEF ScanDone, SyncInv, MailTyped
  <2>2. \A q \in Peer : Len(outbox[q]) \in Nat
    BY <2>1, LenProperties
  <2>. QED  BY <1>1, <2>1, <2>2, ScanDoneInv
<1>. QED  BY <1>1, ScanSwapInv, ScanChaseInv DEF Scan

LEMMA NextInv == SyncInv /\ [Next]_vars => SyncInv'
<1>. SUFFICES ASSUME SyncInv, [Next]_vars PROVE SyncInv'
  OBVIOUS
<1>1. CASE Join
  BY <1>1, JoinInv
<1>2. CASE \E p \in Peer : PeerReads(p)
  BY <1>2, PeerGetblocksInv, PeerGetdataInv, PeerInvInv DEF PeerReads
<1>3. CASE \E p \in Peer : NodeReads(p)
  BY <1>3, ReceiveInvInv, ReceiveGetdataInv, ReceiveBlockInv DEF NodeReads
<1>4. CASE \E p \in Peer : PeerTells(p)
  BY <1>4, PeerTellsInv
<1>5. CASE UNCHANGED vars
  BY <1>5 DEF vars, nodeVars, scanVars, SyncInv, MailTyped, Taken, Unlisted, Gap
<1>6. CASE \E p \in Peer : Scan(p)
  BY <1>6, ScanInv
<1>. QED  BY <1>1, <1>2, <1>3, <1>4, <1>5, <1>6 DEF Next

LEMMA SpecInv == Spec => []SyncInv
  BY InitInv, NextInv, PTL DEF Spec

------------------------------------------------------------------------------
(* What the node relies on.                                                *)

LEMMA Typed == SyncInv => TypeOK
<1>. SUFFICES ASSUME SyncInv PROVE TypeOK
  OBVIOUS
<1>1. ASSUME NEW S \in SUBSET Hash, NEW ids \in Seq(S)
      PROVE  ToSet(ids) \subseteq Hash
  BY <1>1, LenProperties, ElementOfSeq DEF ToSet
<1>2. \A h \in 0..MaxHeight : h \in Hash /\ ToSet(<<h>>) \subseteq Hash
  BY DEF ToSet, Hash, Blocks
<1>3. \A ids \in Seq(Hash) \cup Seq({Garbage}) : ToSet(ids) \subseteq Hash
  BY <1>1 DEF Hash
<1>4. \A m \in NodeMail : /\ m.ctype \in {"inv", "getdata", "block"}
                          /\ ToSet(m.ids) \subseteq Hash
  BY <1>2, <1>3, ToNode DEF Blocks
<1>5. \A m \in PeerMail : /\ m.ctype \in {"getblocks", "inv", "getdata"}
                          /\ ToSet(m.ids) \subseteq Hash
  BY <1>2, <1>3, ToPeer
<1>6. ASSUME NEW p \in Peer
      PROVE  ToSet(inbox[p]) \subseteq NodeMail /\ ToSet(outbox[p]) \subseteq PeerMail
  <2>1. inbox[p] \in Seq(NodeMail) /\ outbox[p] \in Seq(PeerMail)
    BY DEF SyncInv, MailTyped
  <2>. QED  BY <2>1, LenProperties, ElementOfSeq DEF ToSet
<1>. QED  BY <1>4, <1>5, <1>6 DEF TypeOK, SyncInv

\* The scan that ends the handler of a <block> (network.c:225) leaves limbo
\* with no block the chain could take: whatever the peers' heights, whoever
\* answers first, however far ahead a block arrives, and with the faults of
\* the handler and of the lists corrected or not.  The loop of data.c:498 to
\* 526 stops at the first branch it swaps in: what it has passed over above
\* does not connect to the new tip either, and what is below is on it.
THEOREM SyncNothingHeldBack == Spec => []NothingHeldBack
<1>1. SyncInv => NothingHeldBack
  BY Typed DEF NothingHeldBack, SyncInv, Taken
<1>. QED  BY <1>1, SpecInv, PTL

\* No step but the peer's own shortens the queue to a peer.
LEMMA OthersAdd ==
    ASSUME SyncInv, [Next]_vars, NEW p \in Peer, ~ PeerReads(p)
    PROVE  Len(outbox'[p]) >= Len(outbox[p])
<1>1. MailTyped /\ outbox[p] \in Seq(PeerMail) /\ Len(outbox[p]) \in Nat
      /\ outbox \in [Peer -> Seq(PeerMail)]
  BY LenProperties DEF SyncInv, MailTyped
<1>2. CASE outbox'[p] = outbox[p]
  BY <1>1, <1>2
<1>3. CASE \E m : outbox'[p] = Append(outbox[p], m)
  BY <1>1, <1>3, AppendProperties
<1>4. CASE Join
  BY <1>3, <1>4 DEF Join
<1>5. ASSUME NEW q \in Peer, PeerReads(q) PROVE outbox'[p] = outbox[p]
  <2>1. outbox' = [outbox EXCEPT ![q] = Tail(@)]
    BY <1>5 DEF PeerReads, PeerGetblocks, PeerGetdata, PeerInv
  <2>2. q # p
    BY <1>5
  <2>. QED  BY <1>1, <2>1, <2>2
<1>6. ASSUME NEW q \in Peer, PeerTells(q) PROVE outbox'[p] = outbox[p]
  BY <1>6 DEF PeerTells
<1>7. CASE \E q \in Peer : ReceiveInv(q)
  <2>1. PICK q \in Peer : ReceiveInv(q)
    BY <1>7
  <2>2. PICK m : outbox' = [outbox EXCEPT ![q] = Append(@, m)]
    BY <2>1 DEF ReceiveInv
  <2>3. CASE q = p
    BY <1>1, <1>3, <2>2, <2>3
  <2>4. CASE q # p
    BY <1>1, <1>2, <2>2, <2>4
  <2>. QED  BY <2>3, <2>4
<1>8. ASSUME NEW q \in Peer, ReceiveGetdata(q)
      PROVE  outbox'[p] = outbox[p]
  <2>. DEFINE m == Head(inbox[q])
              sent == Served(m.ids, stored)
  <2>1. m \in NodeMail /\ m.ctype = "getdata"
    BY <1>1, <1>8, Queues DEF MailTyped, ReceiveGetdata
  <2>2. sent = <<>>
    BY <2>1, ToNode, NothingServed DEF SyncInv
  <2>3. outbox' = [outbox EXCEPT ![q] = @ \o sent]
    BY <1>8 DEF ReceiveGetdata
  <2>. HIDE DEF sent
  <2>4. outbox[p] \o <<>> = outbox[p]
    BY <1>1, ConcatEmptySeq
  <2>. QED  BY <1>1, <2>2, <2>3, <2>4
<1>9. ASSUME NEW q \in Peer, ReceiveBlock(q) PROVE Len(outbox'[p]) >= Len(outbox[p])
  BY <1>9, ReceiveBlockInv
<1>12. ASSUME NEW q \in Peer, Scan(q) PROVE Len(outbox'[p]) >= Len(outbox[p])
  BY <1>12, ScanInv
<1>10. CASE UNCHANGED vars
  BY <1>2, <1>10 DEF vars
<1>11. CASE \E q \in Peer : NodeReads(q)
  BY <1>2, <1>7, <1>8, <1>9, <1>11 DEF NodeReads
<1>. QED  BY <1>2, <1>4, <1>5, <1>6, <1>10, <1>11, <1>12 DEF Next

\* A request is served in full.
LEMMA ServesEach ==
    ASSUME "max_width" \in Repaired, SyncInv, [Next]_vars, NEW p \in Peer
    PROVE  Serves(p)
<1>. SUFFICES ASSUME outbox[p] # <<>>, outbox'[p] = Tail(outbox[p]),
                     Head(outbox[p]).ctype = "getdata",
                     NEW b \in ToSet(Head(outbox[p]).ids) \cap (0..PeerHeight[p])
              PROVE  \E n \in DOMAIN inbox'[p] : inbox'[p][n] = Message("block", <<b>>)
  BY DEF Serves
<1>. DEFINE ids == Head(outbox[p]).ids
            sent == Served(ids, 0..PeerHeight[p])
<1>1. /\ outbox[p] \in Seq(PeerMail) /\ Len(outbox[p]) \in Nat /\ Head(outbox[p]) \in PeerMail
      /\ inbox[p] \in Seq(NodeMail) /\ inbox \in [Peer -> Seq(NodeMail)]
  BY LenProperties, HeadTailProperties DEF SyncInv, MailTyped
<1>2. Len(Tail(outbox[p])) = Len(outbox[p]) - 1
  BY <1>1, HeadTailProperties
<1>3. PeerReads(p)
  <2>1. ~ (Len(outbox'[p]) >= Len(outbox[p]))
    BY <1>1, <1>2
  <2>. QED  BY <2>1, OthersAdd
<1>4. PeerGetdata(p)
  BY <1>3 DEF PeerReads, PeerGetblocks, PeerInv
<1>5. ids \in Seq(Hash)
  BY <1>1, ToPeer
<1>7. inbox' = [inbox EXCEPT ![p] = @ \o sent]
  BY <1>4 DEF PeerGetdata
<1>8. sent \in Seq(NodeMail)
  BY <1>5, ServedToNode
<1>9. PICK n \in 1..Len(sent) : sent[n] = Message("block", <<b>>)
  <2>1. Message("block", <<b>>) \in ToSet(sent)
    BY <1>5, ServedIs
  <2>. QED  BY <1>8, <2>1, LenProperties DEF ToSet
<1>. HIDE DEF sent
<1>10. inbox'[p] = inbox[p] \o sent
  BY <1>1, <1>7
<1>11. /\ Len(inbox[p]) \in Nat /\ Len(sent) \in Nat
       /\ DOMAIN (inbox[p] \o sent) = 1..(Len(inbox[p]) + Len(sent))
       /\ (inbox[p] \o sent)[Len(inbox[p]) + n] = sent[n]
  BY <1>1, <1>8
<1>12. Len(inbox[p]) + n \in DOMAIN (inbox[p] \o sent)
  BY <1>11
<1>. QED  BY <1>9, <1>10, <1>11, <1>12

\* A peer that takes a <getdata> off its connection sends every block of it
\* that it has (handle_connection, network.c:143 to 158), however many are
\* asked for, once the end of the list (network.c:149) is kept in more than
\* one byte: as written it wraps at 8 hashes.
THEOREM SyncRequestsServed ==
    ASSUME "max_width" \in Repaired
    PROVE  Spec => RequestsServed
<1>1. SyncInv /\ [Next]_vars => \A p \in Peer : Serves(p)
  BY ServesEach
<1>2. SyncInv /\ [Next]_vars => [\A p \in Peer : Serves(p)]_vars
  BY <1>1
<1>. QED  BY <1>2, SpecInv, PTL DEF Spec, RequestsServed
===============================================================================
