------------------------------ MODULE WireProofs ------------------------------
(***************************************************************************)
(* The framing of messages with its statements corrected, for any messages *)
(* and any size of the buffer, on a transport that keeps the boundaries of *)
(* calls.                                                                  *)
(***************************************************************************)
EXTENDS Wire, SequenceTheorems, TLAPS

------------------------------------------------------------------------------
(* Numbers in bytes.                                                       *)

LEMMA Quotient ==
    ASSUME NEW a \in Nat, NEW d \in Nat \ {0}
    PROVE  a = d * (a \div d) + (a % d) /\ a % d \in 0..(d - 1) /\ a \div d \in Nat
  OBVIOUS

\* A number of two digits, and its digits.
LEMMA Digits ==
    ASSUME NEW hi \in Byte, NEW lo \in Byte, NEW v, v = hi * Radix + lo
    PROVE  v \in Nat /\ v \div Radix = hi /\ v % Radix = lo
<1>1. Radix \in Nat \ {0, 1} /\ hi \in Nat /\ lo \in Nat /\ lo < Radix
  BY BytesConstants DEF Byte
<1>2. hi * Radix \in Nat /\ v \in Nat
  BY <1>1
<1>3. v = Radix * (v \div Radix) + (v % Radix) /\ v % Radix \in 0..(Radix - 1) /\ v \div Radix \in Nat
  BY <1>1, <1>2, Quotient
<1>. DEFINE q == v \div Radix
            r == v % Radix
<1>4. q \in Nat /\ r \in Nat /\ r < Radix /\ hi * Radix + lo = q * Radix + r
  BY <1>1, <1>3
<1>. HIDE DEF q, r
<1>5. q = hi
  <2>1. CASE q > hi
    <3>1. q * Radix >= (hi + 1) * Radix
      BY <1>1, <1>4, <2>1
    <3>. QED  BY <1>1, <1>4, <3>1
  <2>2. CASE q < hi
    <3>1. hi * Radix >= (q + 1) * Radix
      BY <1>1, <1>4, <2>2
    <3>. QED  BY <1>1, <1>4, <3>1
  <2>. QED  BY <1>1, <1>4, <2>1, <2>2
<1>6. r = lo
  BY <1>1, <1>4, <1>5
<1>. QED  BY <1>2, <1>5, <1>6 DEF q, r

\* The two bytes of a version.
LEMMA VersionDigits ==
    ASSUME NEW v \in UShort
    PROVE  /\ Shifted(v, 2, 0) \in Byte /\ Shifted(v, 2, 1) \in Byte
           /\ v = Shifted(v, 2, 0) * Radix + Shifted(v, 2, 1)
<1>1. Radix \in Nat \ {0, 1} /\ v \in Nat /\ v < Radix * Radix
  BY BytesConstants DEF UShort, Place
<1>. DEFINE q == v \div Radix
            r == v % Radix
<1>2. v = Radix * q + r /\ r \in Byte /\ q \in Nat
  BY <1>1 DEF Byte
<1>3. Place(2 - 1 - 0) = Radix /\ Place(2 - 1 - 1) = 1
  BY DEF Place
<1>4. Shifted(v, 2, 0) = q % Radix /\ Shifted(v, 2, 1) = (v \div 1) % Radix
  BY <1>3 DEF Shifted
<1>5. v \div 1 = v
  BY <1>1
<1>. HIDE DEF q, r
<1>6. q < Radix
  <2>1. CASE q >= Radix
    <3>1. Radix * q >= Radix * Radix
      BY <1>1, <1>2, <2>1
    <3>. QED  BY <1>1, <1>2, <3>1 DEF Byte
  <2>. QED  BY <1>1, <1>2, <2>1
<1>7. q % Radix = q /\ q \in Byte
  BY <1>1, <1>2, <1>6 DEF Byte
<1>8. Radix * q = q * Radix
  BY <1>1, <1>2
<1>. QED  BY <1>2, <1>4, <1>5, <1>7, <1>8 DEF r

\* Reversing the bytes twice gives the number back.
LEMMA TwiceReversed ==
    ASSUME NEW v \in UShort
    PROVE  ntohs(ntohs(v)) = v
<1>1. CASE Host = "little"
  <2>. DEFINE hi == Shifted(v, 2, 0)
              lo == Shifted(v, 2, 1)
              w == Reversed(v, 2)
  <2>1. hi \in Byte /\ lo \in Byte /\ v = hi * Radix + lo
    BY VersionDigits
  <2>2. w = hi + lo * Radix
    BY DEF Reversed
  <2>3. Radix \in Nat \ {0, 1} /\ hi \in Nat /\ lo \in Nat /\ hi < Radix /\ lo < Radix
    BY <2>1, BytesConstants DEF Byte
  <2>. HIDE DEF hi, lo, w
  <2>4. w = lo * Radix + hi
    BY <2>2, <2>3
  <2>5. w \in Nat /\ w \div Radix = lo /\ w % Radix = hi
    BY <2>1, <2>4, Digits
  <2>6. lo % Radix = lo /\ w \div 1 = w
    BY <2>3, <2>5
  <2>7. Shifted(w, 2, 0) = lo /\ Shifted(w, 2, 1) = hi
    BY <2>5, <2>6 DEF Shifted, Place
  <2>8. Reversed(w, 2) = lo + hi * Radix
    BY <2>7 DEF Reversed
  <2>9. Reversed(w, 2) = v
    BY <2>1, <2>3, <2>8
  <2>. QED  BY <1>1, <2>9 DEF ntohs, w
<1>2. CASE Host # "little"
  BY <1>2 DEF ntohs
<1>. QED  BY <1>1, <1>2

\* The receiver reads the version the sender wrote.
LEMMA VersionRead ==
    ASSUME NEW v \in UShort, NEW s, s[1] = Shifted(v, 2, 0), s[2] = Shifted(v, 2, 1)
    PROVE  ntohs(btous(s, 1)) = v
<1>. DEFINE hi == Shifted(v, 2, 0)
            lo == Shifted(v, 2, 1)
<1>1. hi \in Byte /\ lo \in Byte /\ v = hi * Radix + lo
  BY VersionDigits
<1>2. Radix \in Nat \ {0, 1} /\ hi \in Nat /\ lo \in Nat
  BY <1>1, BytesConstants DEF Byte
<1>3. s[1 + 0] = hi /\ s[1 + 1] = lo
  OBVIOUS
<1>. HIDE DEF hi, lo
<1>4. BigEndian(s, 1, 2) = hi * Place(2 - 1 - 0) + lo * Place(2 - 1 - 1)
  BY <1>1, <1>3 DEF BigEndian
<1>5. Place(2 - 1 - 0) = Radix /\ Place(2 - 1 - 1) = 1
  BY DEF Place
<1>6. BigEndian(s, 1, 2) = v
  BY <1>1, <1>2, <1>4, <1>5
<1>. QED  BY <1>6, TwiceReversed DEF btous

------------------------------------------------------------------------------
(* A message in bytes.                                                     *)

\* The bytes of message m of a sender of version v.
Frame(v, m) == <<Shifted(v, 2, 0), Shifted(v, 2, 1), m.ctype>> \o m.body

LEMMA MessageTyped ==
    ASSUME NEW m \in Message
    PROVE  /\ m.ctype \in Handled /\ m.ctype \in Cell
           /\ m.body \in Seq(Cell)
           /\ m = [ctype |-> m.ctype, body |-> m.body]
<1>1. m.ctype \in Handled /\ m.body \in Seq(Int) /\ m = [ctype |-> m.ctype, body |-> m.body]
  BY WireConstants
<1>2. Handled \subseteq Byte
  BY WireConstants, BytesConstants
  DEF Handled, Byte, CTYPE_GETBLOCKS, CTYPE_MEMPOOL, CTYPE_INV, CTYPE_GETDATA,
      CTYPE_BLOCK, CTYPE_TX, CTYPE_PING, CTYPE_PONG
<1>3. m.body \in Seq(Range(m.body))
  BY <1>1, SeqOfRange
<1>4. Range(m.body) \subseteq Cell /\ Byte \subseteq Cell
  BY DEF Cell
<1>5. m.body \in Seq(Cell)
  BY <1>3, <1>4, SeqMonotonic
<1>. QED  BY <1>1, <1>2, <1>4, <1>5

LEMMA FrameIs ==
    ASSUME NEW v \in UShort, NEW m \in Message
    PROVE  /\ Frame(v, m) \in Seq(Cell)
           /\ Len(m.body) \in Nat /\ Len(Frame(v, m)) = 3 + Len(m.body)
           /\ Frame(v, m)[1] = Shifted(v, 2, 0) /\ Frame(v, m)[2] = Shifted(v, 2, 1)
           /\ Frame(v, m)[3] = m.ctype
           /\ \A i \in 1..Len(m.body) : Frame(v, m)[3 + i] = m.body[i]
<1>. DEFINE h == <<Shifted(v, 2, 0), Shifted(v, 2, 1), m.ctype>>
            b == m.body
<1>1. m.ctype \in Cell /\ b \in Seq(Cell)
  BY MessageTyped
<1>2. Shifted(v, 2, 0) \in Cell /\ Shifted(v, 2, 1) \in Cell
  BY VersionDigits DEF Cell
<1>3. h \in Seq(Cell) /\ Len(h) = 3 /\ h[1] = Shifted(v, 2, 0) /\ h[2] = Shifted(v, 2, 1)
      /\ h[3] = m.ctype
  BY <1>1, <1>2
<1>. HIDE DEF h, b
<1>4. Len(b) \in Nat
  BY <1>1, LenProperties
<1>5. /\ h \o b \in Seq(Cell) /\ Len(h \o b) = Len(h) + Len(b)
      /\ \A i \in 1..Len(h) + Len(b) :
            (h \o b)[i] = IF i <= Len(h) THEN h[i] ELSE b[i - Len(h)]
  BY <1>1, <1>3, ConcatProperties
<1>6. \A i \in 1..Len(b) : (h \o b)[3 + i] = b[i]
  <2>. SUFFICES ASSUME NEW i \in 1..Len(b) PROVE (h \o b)[3 + i] = b[i]
    OBVIOUS
  <2>1. 3 + i \in 1..Len(h) + Len(b) /\ ~ (3 + i <= Len(h)) /\ 3 + i - Len(h) = i
    BY <1>3, <1>4
  <2>. QED  BY <1>5, <2>1
<1>7. (h \o b)[1] = h[1] /\ (h \o b)[2] = h[2] /\ (h \o b)[3] = h[3]
  BY <1>3, <1>4, <1>5
<1>8. Frame(v, m) = h \o b
  BY DEF Frame, h, b
<1>. QED  BY <1>3, <1>4, <1>5, <1>6, <1>7, <1>8 DEF b

------------------------------------------------------------------------------
(* The receiver's buffer.                                                  *)

\* Corrected, the sender writes frames and the receiver looks for the content
\* behind the header.
LEMMA Corrected ==
    ASSUME Repaired = Statements
    PROVE  BodyAt = 3 /\ \A m : Raw(m) = Frame(peerVersion, m)
<1>1. {"send_body", "version_shift", "body_offset"} \subseteq Repaired
  BY DEF Statements
<1>2. VersionHigh = Shifted(peerVersion, 2, 0)
  BY <1>1 DEF VersionHigh
<1>. QED  BY <1>1, <1>2 DEF BodyAt, Raw, Frame

\* Message m lies at the start of the buffer, whatever follows it.
AtFront(m) == \A i \in 1..Len(Frame(peerVersion, m)) : buf[i] = Frame(peerVersion, m)[i]

LEMMA FrontIs ==
    ASSUME TypeOK, NEW m \in Message, AtFront(m)
    PROVE  /\ buf[1] = Shifted(peerVersion, 2, 0) /\ buf[2] = Shifted(peerVersion, 2, 1)
           /\ buf[3] = m.ctype
           /\ \A i \in 1..Len(m.body) : buf[3 + i] = m.body[i]
<1>1. peerVersion \in UShort
  BY WireConstants DEF TypeOK
<1>. DEFINE f == Frame(peerVersion, m)
<1>2. /\ Len(m.body) \in Nat /\ Len(f) = 3 + Len(m.body)
      /\ f[1] = Shifted(peerVersion, 2, 0) /\ f[2] = Shifted(peerVersion, 2, 1)
      /\ f[3] = m.ctype /\ \A i \in 1..Len(m.body) : f[3 + i] = m.body[i]
  BY <1>1, FrameIs
<1>3. \A i \in 1..Len(f) : buf[i] = f[i]
  BY DEF AtFront
<1>. HIDE DEF f
<1>4. 1 \in 1..Len(f) /\ 2 \in 1..Len(f) /\ 3 \in 1..Len(f)
  BY <1>2
<1>5. \A i \in 1..Len(m.body) : 3 + i \in 1..Len(f)
  BY <1>2
<1>. QED  BY <1>2, <1>3, <1>4, <1>5

\* The size a handler goes by is the size of the message at the start of the
\* buffer.
LEMMA SizeRead ==
    ASSUME Repaired = Statements, NEW m \in Message,
           \A i \in 1..Len(m.body) : buf[3 + i] = m.body[i]
    PROVE  ContentSize(m.ctype) = Len(m.body)
<1>. DEFINE b == m.body
<1>1. /\ Len(b) \in Nat /\ m.ctype \in Handled
      /\ m.ctype \in {CTYPE_INV, CTYPE_GETDATA} => Len(b) >= 2 /\ b[2] \in Byte
      /\ m.ctype \in {CTYPE_BLOCK, CTYPE_TX} => Len(b) >= 4
      /\ Len(b) = Announced(m)
  BY WireConstants, MessageTyped, LenProperties
<1>2. BodyAt = 3
  BY Corrected
<1>3. \A i \in 1..Len(b) : buf[3 + i] = b[i]
  OBVIOUS
<1>. USE DEF CTYPE_GETBLOCKS, CTYPE_MEMPOOL, CTYPE_INV, CTYPE_GETDATA,
             CTYPE_BLOCK, CTYPE_TX, CTYPE_PING, CTYPE_PONG
<1>. HIDE DEF b
<1>4. CASE m.ctype \in {CTYPE_INV, CTYPE_GETDATA}
  <2>1. 2 \in 1..Len(b) /\ 3 + 2 = 5 /\ BodyAt + 2 = 5
    BY <1>1, <1>2, <1>4
  <2>2. Count = b[2]
    BY <1>1, <1>3, <1>4, <2>1 DEF Count
  <2>3. Announced(m) = 2 + b[2] * SIZE_SHA256 /\ ContentSize(m.ctype) = ListSize
    BY <1>4 DEF Announced, ContentSize, b
  <2>. QED  BY <1>1, <2>2, <2>3 DEF ListSize, b
<1>5. CASE m.ctype \in {CTYPE_BLOCK, CTYPE_TX}
  <2>1. 1 \in 1..Len(b) /\ 2 \in 1..Len(b) /\ 3 \in 1..Len(b) /\ 4 \in 1..Len(b)
    BY <1>1, <1>5
  <2>2. buf[3 + 1] = b[1] /\ buf[3 + 2] = b[2] /\ buf[3 + 3] = b[3] /\ buf[3 + 4] = b[4]
    BY <1>3, <2>1
  <2>3. buf[4 + 0] = b[1 + 0] /\ buf[4 + 1] = b[1 + 1] /\ buf[4 + 2] = b[1 + 2] /\ buf[4 + 3] = b[1 + 3]
    BY <2>2
  <2>4. BigEndian(buf, 4, 4) = BigEndian(b, 1, 4)
    BY <2>3 DEF BigEndian
  <2>5. BodyAt + 1 = 4
    BY <1>2
  <2>6. Announced(m) = 4 + BigEndian(b, 1, 4)
        /\ ContentSize(m.ctype) = 4 + BigEndian(buf, BodyAt + 1, 4)
    BY <1>5 DEF Announced, ContentSize, b
  <2>. QED  BY <1>1, <2>4, <2>5, <2>6 DEF b
<1>6. CASE m.ctype = CTYPE_GETBLOCKS
  BY <1>1, <1>6 DEF Announced, ContentSize, b
<1>7. CASE m.ctype \in {CTYPE_MEMPOOL, CTYPE_PING, CTYPE_PONG}
  BY <1>1, <1>7 DEF Announced, ContentSize, b
<1>. QED  BY <1>1, <1>4, <1>5, <1>6, <1>7 DEF Handled

\* What its handler reads is the message, and not what an earlier and longer
\* one has left behind it.
LEMMA ContentRead ==
    ASSUME Repaired = Statements, TypeOK, NEW m \in Message, AtFront(m)
    PROVE  /\ VersionOk <=> peerVersion = __VERSION
           /\ buf[3] = m.ctype /\ Content(buf[3]) = m.body
<1>1. peerVersion \in UShort
  BY WireConstants DEF TypeOK
<1>2. /\ buf[1] = Shifted(peerVersion, 2, 0) /\ buf[2] = Shifted(peerVersion, 2, 1)
      /\ buf[3] = m.ctype
      /\ \A i \in 1..Len(m.body) : buf[3 + i] = m.body[i]
  BY FrontIs
<1>3. VersionOk <=> peerVersion = __VERSION
  BY <1>1, <1>2, VersionRead DEF VersionOk
<1>4. ContentSize(m.ctype) = Len(m.body)
  BY <1>2, SizeRead
<1>. DEFINE b == m.body
            n == 3 + Len(b)
            x == SubSeq(buf, 4, n)
<1>5. b \in Seq(Cell) /\ Len(b) \in Nat /\ n <= MAX_MSG_SIZE /\ MAX_MSG_SIZE \in Nat
  BY MessageTyped, LenProperties, WireConstants
<1>6. Content(buf[3]) = SubSeq(buf, 3 + 1, IF n < MAX_MSG_SIZE THEN n ELSE MAX_MSG_SIZE)
  BY <1>2, <1>4, Corrected DEF Content
<1>. HIDE DEF b
<1>7. (IF n < MAX_MSG_SIZE THEN n ELSE MAX_MSG_SIZE) = n /\ 3 + 1 = 4
  BY <1>5
<1>8. Content(buf[3]) = x
  BY <1>6, <1>7
<1>9. \A i \in 4..n : buf[i] \in Cell
  <2>. SUFFICES ASSUME NEW i \in 4..n PROVE buf[i] \in Cell
    OBVIOUS
  <2>1. i \in 1..MAX_MSG_SIZE
    BY <1>5
  <2>. QED  BY <2>1 DEF TypeOK
<1>10. 4 \in Int /\ n \in Int
  BY <1>5
<1>11. /\ x \in Seq(Cell) /\ Len(x) = IF 4 <= n THEN n - 4 + 1 ELSE 0
       /\ \A i \in 1..n - 4 + 1 : x[i] = buf[4 + i - 1]
  BY <1>9, <1>10, SubSeqProperties
<1>. HIDE DEF x
<1>12. Len(x) = Len(b)
  BY <1>5, <1>11
<1>13. ASSUME NEW i \in 1..Len(x) PROVE x[i] = b[i]
  <2>1. i \in 1..n - 4 + 1 /\ 4 + i - 1 = 3 + i /\ i \in 1..Len(b)
    BY <1>5, <1>12
  <2>2. x[i] = buf[4 + i - 1]
    BY <1>11, <2>1
  <2>. QED  BY <1>2, <2>1, <2>2 DEF b
<1>14. x = b
  BY <1>5, <1>11, <1>12, <1>13, SeqEqual
<1>. QED  BY <1>2, <1>3, <1>8, <1>14 DEF b

------------------------------------------------------------------------------
(* The invariant.                                                          *)

\* The messages that were received: those the handlers were given, and the
\* one in the buffer.
Received == Len(got) + IF pc = "parse" THEN 1 ELSE 0

\* The pieces under way are the messages that were not received, in order,
\* and the buffer begins with the message that is being parsed.
Owed ==
    /\ Len(stream) = Len(sent) - Received
    /\ \A i \in 1..Len(stream) : stream[i] = Frame(peerVersion, sent[Received + i])
    /\ pc = "parse" => AtFront(sent[Received])

WireInv ==
    /\ VersionChecked
    /\ pc # "closed" => Received <= Len(sent) /\ Owed

LEMMA WireInit ==
    ASSUME Init
    PROVE  WireInv
<1>1. \A S : <<>> \in Seq(S) /\ Len(<<>>) = 0
  OBVIOUS
<1>2. stream = <<>> /\ got = <<>> /\ sent = <<>> /\ pc = "recv" /\ rejected = FALSE
  BY DEF Init
<1>3. TypeOK
  <2>1. buf \in [1..MAX_MSG_SIZE -> Cell]
    <3>1. Junk \in Cell
      BY Zenon DEF Cell
    <3>. QED  BY <3>1 DEF Init
  <2>2. 0 <= MaxSends
    BY WireConstants
  <2>. QED  BY <1>1, <1>2, <2>1, <2>2 DEF Init, TypeOK
<1>4. Received = 0
  BY <1>2 DEF Received
<1>5. 1..0 = {}
  OBVIOUS
<1>. QED  BY <1>1, <1>2, <1>3, <1>4, <1>5 DEF WireInv, VersionChecked, Owed

\* The numbers and sequences the steps below calculate with.
LEMMA Counts ==
    ASSUME TypeOK
    PROVE  /\ Len(sent) \in Nat /\ Len(got) \in Nat /\ Len(stream) \in Nat
           /\ Received \in Nat /\ peerVersion \in UShort
           /\ \A k \in 1..Len(sent) : sent[k] \in Message
  BY LenProperties, ElementOfSeq, WireConstants DEF TypeOK, Received

LEMMA OneOrMore == \A k \in Nat : k >= 1 => k = 1 \/ 2 <= k
  OBVIOUS

LEMMA SendStep ==
    ASSUME Repaired = Statements, Boundaries = TRUE, WireInv, NEW m \in Message,
           sendto_peer(m)
    PROVE  WireInv' /\ Pipe!Submit
<1>1. TypeOK
  BY DEF WireInv, VersionChecked
<1>2. /\ Len(sent) \in Nat /\ Len(got) \in Nat /\ Len(stream) \in Nat
      /\ Received \in Nat /\ peerVersion \in UShort
      /\ \A k \in 1..Len(sent) : sent[k] \in Message
  BY <1>1, Counts
<1>. DEFINE f == Frame(peerVersion, m)
<1>3. /\ stream' = stream \o <<f>> /\ sent' = Append(sent, m) /\ Len(sent) < MaxSends
      /\ UNCHANGED <<peerVersion, shut, buf, pc, got, rejected>>
  BY Corrected DEF sendto_peer, Pieces
<1>4. f \in Seq(Cell)
  BY <1>2, FrameIs
<1>. HIDE DEF f
<1>5. stream \in Seq(Seq(Cell)) /\ sent \in Seq(Message)
  BY <1>1 DEF TypeOK
<1>6. /\ stream' \in Seq(Seq(Cell)) /\ Len(stream') = Len(stream) + 1
      /\ \A i \in 1..Len(stream) : stream'[i] = stream[i]
      /\ stream'[Len(stream) + 1] = f
  BY <1>2, <1>3, <1>4, <1>5
<1>7. /\ sent' \in Seq(Message) /\ Len(sent') = Len(sent) + 1
      /\ \A i \in 1..Len(sent) : sent'[i] = sent[i]
      /\ sent'[Len(sent) + 1] = m
  BY <1>2, <1>3, <1>5, AppendProperties
<1>8. TypeOK'
  <2>1. Len(sent') <= MaxSends
    BY <1>2, <1>3, <1>7, WireConstants
  <2>. QED  BY <1>1, <1>3, <1>6, <1>7, <2>1 DEF TypeOK
<1>9. VersionChecked'
  BY <1>3, <1>8 DEF WireInv, VersionChecked
<1>10. Received' = Received
  BY <1>3 DEF Received
<1>11. ASSUME pc # "closed" PROVE Received' <= Len(sent') /\ Owed'
  <2>1. Received <= Len(sent) /\ Owed
    BY <1>11 DEF WireInv
  <2>2. Len(stream) = Len(sent) - Received
    BY <2>1 DEF Owed
  <2>3. Len(stream') = Len(sent') - Received'
    BY <1>2, <1>6, <1>7, <1>10, <2>2
  <2>4. ASSUME NEW i \in 1..Len(stream') PROVE stream'[i] = Frame(peerVersion, sent'[Received + i])
    <3>1. CASE i <= Len(stream)
      <4>1. i \in 1..Len(stream) /\ Received + i \in 1..Len(sent)
        BY <1>2, <2>2, <3>1
      <4>. QED  BY <1>6, <1>7, <2>1, <4>1 DEF Owed
    <3>2. CASE i = Len(stream) + 1
      <4>1. Received + i = Len(sent) + 1
        BY <1>2, <2>2, <3>2
      <4>. QED  BY <1>6, <1>7, <3>2, <4>1 DEF f
    <3>. QED  BY <1>2, <1>6, <3>1, <3>2
  <2>5. ASSUME pc = "parse" PROVE AtFront(sent[Received])' /\ Received \in 1..Len(sent)
    <3>1. Received \in 1..Len(sent)
      BY <1>2, <2>1, <2>5 DEF Received
    <3>2. AtFront(sent[Received])
      BY <2>1, <2>5 DEF Owed
    <3>. QED  BY <1>3, <1>7, <1>10, <3>1, <3>2 DEF AtFront
  <2>6. Received' <= Len(sent')
    BY <1>2, <1>7, <1>10, <2>1
  <2>7. \A i \in 1..Len(stream') : stream'[i] = Frame(peerVersion', sent'[Received' + i])
    BY <1>3, <1>10, <2>4
  <2>8. pc' = "parse" => AtFront(sent[Received])'
    BY <1>3, <2>5
  <2>. QED  BY <2>3, <2>6, <2>7, <2>8 DEF Owed
<1>12. WireInv'
  BY <1>3, <1>9, <1>11 DEF WireInv
<1>. QED  BY <1>3, <1>12 DEF Pipe!Submit

LEMMA ReceiveStep ==
    ASSUME Repaired = Statements, Boundaries = TRUE, WireInv,
           NEW n \in 1..Len(stream), Receive(n)
    PROVE  WireInv' /\ UNCHANGED <<sent, got>>
<1>1. TypeOK
  BY DEF WireInv, VersionChecked
<1>2. /\ Len(sent) \in Nat /\ Len(got) \in Nat /\ Len(stream) \in Nat
      /\ Received \in Nat /\ peerVersion \in UShort
      /\ \A k \in 1..Len(sent) : sent[k] \in Message
  BY <1>1, Counts
<1>3. /\ pc = "recv" /\ n = 1 /\ buf' = Written(buf, 1, Head(stream))
      /\ stream' = SubSeq(stream, 1 + 1, Len(stream)) /\ pc' = "parse"
      /\ UNCHANGED <<peerVersion, sent, shut, got, rejected>>
  BY DEF Receive, Chunk
<1>4. Received <= Len(sent) /\ Owed /\ Received = Len(got) /\ Received' = Received + 1
  BY <1>2, <1>3 DEF WireInv, Received
<1>5. stream \in Seq(Seq(Cell)) /\ Len(stream) >= 1 /\ Head(stream) = stream[1]
  BY <1>1, <1>2 DEF TypeOK
<1>6. Len(stream) = Len(sent) - Received /\ Received + 1 \in 1..Len(sent)
  BY <1>2, <1>4, <1>5 DEF Owed
<1>. DEFINE m == sent[Received + 1]
            f == Frame(peerVersion, m)
<1>7. m \in Message
  BY <1>2, <1>6
<1>8. f \in Seq(Cell) /\ Len(f) = 3 + Len(m.body) /\ Len(m.body) \in Nat
  BY <1>2, <1>7, FrameIs
<1>9. Head(stream) = f
  <2>1. 1 \in 1..Len(stream)
    BY <1>2, <1>5
  <2>. QED  BY <1>4, <1>5, <2>1 DEF Owed
<1>10. Len(f) <= MAX_MSG_SIZE
  BY <1>7, <1>8, WireConstants
<1>. HIDE DEF f
<1>11. /\ stream' \in Seq(Seq(Cell)) /\ Len(stream') = Len(stream) - 1
       /\ \A i \in 1..(Len(stream) - 1) : stream'[i] = stream[i + 1]
  <2>1. \A i \in 2..Len(stream) : stream[i] \in Seq(Cell)
    <3>. SUFFICES ASSUME NEW i \in 2..Len(stream) PROVE stream[i] \in Seq(Cell)
      OBVIOUS
    <3>1. i \in 1..Len(stream)
      BY <1>2
    <3>. QED  BY <1>5, <3>1, ElementOfSeq
  <2>2. stream' = SubSeq(stream, 2, Len(stream)) /\ 2 \in Int /\ Len(stream) \in Int
    BY <1>2, <1>3
  <2>3. /\ stream' \in Seq(Seq(Cell))
        /\ Len(stream') = IF 2 <= Len(stream) THEN Len(stream) - 2 + 1 ELSE 0
        /\ \A i \in 1..Len(stream) - 2 + 1 : stream'[i] = stream[2 + i - 1]
    BY <2>1, <2>2, SubSeqProperties
  <2>4. Len(stream) - 2 + 1 = Len(stream) - 1
    BY <1>2
  <2>5. \A i \in 1..(Len(stream) - 1) : 2 + i - 1 = i + 1
    BY <1>2
  <2>6. Len(stream') = Len(stream) - 1
    <3>1. CASE Len(stream) = 1
      BY <2>3, <3>1
    <3>2. CASE 2 <= Len(stream)
      BY <1>2, <2>3, <3>2
    <3>3. Len(stream) \in Nat /\ Len(stream) >= 1
      BY <1>2, <1>5
    <3>4. Len(stream) = 1 \/ 2 <= Len(stream)
      BY <3>3, OneOrMore
    <3>. QED  BY <3>1, <3>2, <3>4
  <2>. QED  BY <2>3, <2>4, <2>5, <2>6
<1>12. /\ buf' \in [1..MAX_MSG_SIZE -> Cell]
       /\ \A i \in 1..Len(f) : buf'[i] = f[i]
  <2>1. buf \in [1..MAX_MSG_SIZE -> Cell] /\ DOMAIN buf = 1..MAX_MSG_SIZE /\ DOMAIN f = 1..Len(f)
    BY <1>1, <1>8 DEF TypeOK
  <2>2. buf' = [i \in 1..MAX_MSG_SIZE |-> IF i - 1 + 1 \in 1..Len(f) THEN f[i - 1 + 1] ELSE buf[i]]
    BY <1>3, <1>9, <2>1 DEF Written
  <2>3. \A i \in 1..MAX_MSG_SIZE : i - 1 + 1 = i
    BY WireConstants
  <2>4. buf' = [i \in 1..MAX_MSG_SIZE |-> IF i \in 1..Len(f) THEN f[i] ELSE buf[i]]
    BY <2>2, <2>3
  <2>5. \A i \in 1..Len(f) : f[i] \in Cell /\ i \in 1..MAX_MSG_SIZE
    BY <1>8, <1>10, ElementOfSeq, WireConstants
  <2>. QED  BY <2>1, <2>4, <2>5
<1>13. TypeOK'
  BY <1>1, <1>3, <1>11, <1>12 DEF TypeOK
<1>14. VersionChecked'
  BY <1>3, <1>13 DEF WireInv, VersionChecked
<1>15. AtFront(sent[Received])'
  <2>1. sent'[Received'] = m /\ peerVersion' = peerVersion
    BY <1>3, <1>4
  <2>. QED  BY <1>12, <2>1 DEF AtFront, f
<1>16. Owed'
  <2>1. Len(stream') = Len(sent') - Received'
    BY <1>2, <1>3, <1>4, <1>6, <1>11
  <2>2. ASSUME NEW i \in 1..Len(stream') PROVE stream'[i] = Frame(peerVersion, sent[Received' + i])
    <3>1. i \in 1..(Len(stream) - 1) /\ i + 1 \in 1..Len(stream) /\ Received' + i = Received + (i + 1)
      BY <1>2, <1>4, <1>11
    <3>. QED  BY <1>4, <1>11, <3>1 DEF Owed
  <2>. QED  BY <1>3, <1>4, <1>15, <2>1, <2>2 DEF Owed
<1>17. Received' <= Len(sent')
  BY <1>2, <1>3, <1>4, <1>6
<1>. QED  BY <1>3, <1>14, <1>16, <1>17 DEF WireInv

\* The message that is being parsed is the next one that was sent.
LEMMA Parsed ==
    ASSUME Repaired = Statements, WireInv, pc = "parse"
    PROVE  /\ Len(got) + 1 \in 1..Len(sent) /\ sent[Len(got) + 1] \in Message
           /\ VersionOk <=> peerVersion = __VERSION
           /\ buf[3] = sent[Len(got) + 1].ctype
           /\ Content(buf[3]) = sent[Len(got) + 1].body
<1>1. TypeOK
  BY DEF WireInv, VersionChecked
<1>2. Received = Len(got) + 1 /\ Received <= Len(sent) /\ Owed
  BY DEF WireInv, Received
<1>3. Len(got) + 1 \in 1..Len(sent) /\ sent[Len(got) + 1] \in Message
  BY <1>1, <1>2, Counts
<1>4. AtFront(sent[Len(got) + 1])
  BY <1>2 DEF Owed
<1>. QED  BY <1>1, <1>3, <1>4, ContentRead

LEMMA RejectStep ==
    ASSUME Repaired = Statements, WireInv, Reject
    PROVE  WireInv' /\ UNCHANGED <<sent, got>>
<1>1. TypeOK
  BY DEF WireInv, VersionChecked
<1>2. /\ pc = "parse" /\ ~ VersionOk /\ rejected' = TRUE /\ pc' = "closed"
      /\ UNCHANGED <<peerVersion, sent, stream, shut, buf, got>>
  BY DEF Reject
<1>3. peerVersion # __VERSION
  BY <1>2, Parsed
<1>4. TypeOK'
  BY <1>1, <1>2 DEF TypeOK
<1>. QED  BY <1>2, <1>3, <1>4 DEF WireInv, VersionChecked

LEMMA HandleStep ==
    ASSUME Repaired = Statements, WireInv, Handle
    PROVE  WireInv' /\ Pipe!Deliver
<1>1. TypeOK
  BY DEF WireInv, VersionChecked
<1>2. /\ Len(sent) \in Nat /\ Len(got) \in Nat /\ Len(stream) \in Nat
      /\ \A k \in 1..Len(sent) : sent[k] \in Message
  BY <1>1, Counts
<1>3. pc = "parse" /\ VersionOk
  BY DEF Handle
<1>. DEFINE m == sent[Len(got) + 1]
<1>4. /\ Len(got) + 1 \in 1..Len(sent) /\ m \in Message
      /\ peerVersion = __VERSION /\ buf[3] = m.ctype /\ Content(buf[3]) = m.body
  BY <1>3, Parsed
<1>5. m.ctype \in Handled /\ m.body \in Seq(Cell) /\ m = [ctype |-> m.ctype, body |-> m.body]
  BY <1>4, MessageTyped
<1>6. /\ got' = Append(got, m) /\ pc' = "recv"
      /\ UNCHANGED <<peerVersion, sent, stream, shut, buf, rejected>>
  BY <1>4, <1>5 DEF Handle
<1>. HIDE DEF m
<1>7. got \in Seq([ctype : Handled, body : Seq(Cell)]) /\ m \in [ctype : Handled, body : Seq(Cell)]
  BY <1>1, <1>5 DEF TypeOK
<1>8. got' \in Seq([ctype : Handled, body : Seq(Cell)]) /\ Len(got') = Len(got) + 1
  BY <1>6, <1>7, AppendProperties
<1>9. TypeOK'
  BY <1>1, <1>6, <1>8 DEF TypeOK
<1>10. VersionChecked'
  BY <1>4, <1>6, <1>9 DEF WireInv, VersionChecked
<1>11. Received' = Received
  BY <1>2, <1>3, <1>6, <1>8 DEF Received
<1>12. Received <= Len(sent) /\ Owed
  BY <1>3 DEF WireInv
<1>13. Owed' /\ Received' <= Len(sent')
  BY <1>6, <1>11, <1>12 DEF Owed
<1>14. Pipe!Deliver
  BY <1>2, <1>4, <1>6 DEF Pipe!Deliver, m
<1>. QED  BY <1>10, <1>13, <1>14 DEF WireInv

LEMMA OtherStep ==
    ASSUME WireInv, Shutdown \/ PeerGone \/ UNCHANGED vars
    PROVE  WireInv' /\ UNCHANGED <<sent, got>>
<1>1. TypeOK
  BY DEF WireInv, VersionChecked
<1>2. UNCHANGED <<peerVersion, sent, stream, buf, got, rejected>>
  BY DEF Shutdown, PeerGone, vars
<1>3. pc' \in {pc, "closed"} /\ shut' \in BOOLEAN
  <2>1. CASE Shutdown
    BY <2>1 DEF Shutdown
  <2>2. CASE PeerGone
    BY <1>1, <2>2 DEF PeerGone, TypeOK
  <2>3. CASE UNCHANGED vars
    BY <1>1, <2>3 DEF vars, TypeOK
  <2>. QED  BY <2>1, <2>2, <2>3
<1>4. TypeOK'
  BY <1>1, <1>2, <1>3 DEF TypeOK
<1>5. VersionChecked'
  BY <1>2, <1>4 DEF WireInv, VersionChecked
<1>6. ASSUME pc' # "closed" PROVE Received' <= Len(sent') /\ Owed'
  <2>1. pc' = pc /\ pc # "closed"
    BY <1>3, <1>6
  <2>2. Received <= Len(sent) /\ Owed /\ Received' = Received
    BY <1>2, <2>1 DEF WireInv, Received
  <2>. QED  BY <1>2, <2>1, <2>2 DEF Owed, AtFront
<1>. QED  BY <1>2, <1>5, <1>6 DEF WireInv

\* Every step keeps the invariant and is a step of the channel.
LEMMA WireStep ==
    ASSUME Repaired = Statements, Boundaries = TRUE, WireInv, [Next]_vars
    PROVE  WireInv' /\ [Pipe!Submit \/ Pipe!Deliver]_(Pipe!channelVars)
<1>. USE DEF Pipe!channelVars
<1>1. ASSUME NEW m \in Message, sendto_peer(m)
      PROVE  WireInv' /\ [Pipe!Submit \/ Pipe!Deliver]_(Pipe!channelVars)
  BY <1>1, SendStep
<1>2. ASSUME NEW n \in 1..Len(stream), Receive(n)
      PROVE  WireInv' /\ [Pipe!Submit \/ Pipe!Deliver]_(Pipe!channelVars)
  BY <1>2, ReceiveStep
<1>3. ASSUME Reject
      PROVE  WireInv' /\ [Pipe!Submit \/ Pipe!Deliver]_(Pipe!channelVars)
  BY <1>3, RejectStep
<1>4. ASSUME Handle
      PROVE  WireInv' /\ [Pipe!Submit \/ Pipe!Deliver]_(Pipe!channelVars)
  BY <1>4, HandleStep
<1>5. ASSUME Shutdown \/ PeerGone \/ UNCHANGED vars
      PROVE  WireInv' /\ [Pipe!Submit \/ Pipe!Deliver]_(Pipe!channelVars)
  BY <1>5, OtherStep
<1>. QED  BY <1>1, <1>2, <1>3, <1>4, <1>5 DEF Next, ReceiverStep

------------------------------------------------------------------------------
(* Theorems.                                                               *)

\* With its statements corrected and on a transport that keeps the
\* boundaries of calls, the receiver never turns away a peer of its own
\* version and never runs a handler for another one, on a machine of either
\* byte order (network.c:95 to 101); and its buffer never overflows.
THEOREM WireVersionChecked ==
    ASSUME Repaired = Statements, Boundaries = TRUE
    PROVE  Spec => []VersionChecked
<1>1. Init => WireInv
  BY WireInit
<1>2. WireInv /\ [Next]_vars => WireInv'
  BY WireStep
<1>3. WireInv => VersionChecked
  BY DEF WireInv
<1>. QED  BY <1>1, <1>2, <1>3, PTL DEF Spec

\* With its statements corrected and on a transport that keeps the
\* boundaries of calls, a connection implements the channel that Sync takes
\* it for: sendto_peer submits, a handler's call delivers the next message
\* that was submitted, whatever longer messages have left in the buffer
\* (network.c:80 to 105, 354 to 366).
THEOREM WireImplementsChannel ==
    ASSUME Repaired = Statements, Boundaries = TRUE
    PROVE  Spec => ImplementsChannel
<1>1. Init => WireInv /\ Pipe!ChannelInit
  BY WireInit DEF Init, Pipe!ChannelInit
<1>2. WireInv /\ [Next]_vars
          => WireInv' /\ [Pipe!Submit \/ Pipe!Deliver]_(Pipe!channelVars)
  BY WireStep
<1>. QED  BY <1>1, <1>2, PTL DEF Spec, ImplementsChannel, Pipe!ChannelSpec

===============================================================================
