-------------------------------- MODULE Wire ---------------------------------
(***************************************************************************)
(* One direction of a connection: sendto_peer on one side, the receiving   *)
(* loop of handle_connection on the other, and TCP's stream of bytes in    *)
(* between.  The loop takes what one recvfrom returns for one message, in  *)
(* a buffer that it never clears.  TCP promises the order of bytes only:   *)
(* Boundaries says whether each recvfrom happens to return what one sendto *)
(* handed over.                                                            *)
(*                                                                         *)
(* A cell is a byte, or a number outside Byte for a byte nobody looks at.  *)
(* A statement that defeats its function is taken as written, or with its  *)
(* evident correction when its name is in Repaired.                        *)
(***************************************************************************)
EXTENDS Bytes, SequencesExt

CONSTANTS
    Message,        \* records of ctype and body
    MaxSends,       \* bound: messages sent
    PeerVersions,   \* what the sender's __VERSION may be
    SIZE_SHA256,
    MAX_MSG_SIZE,
    Junk,           \* uninitialised memory
    Boundaries,     \* the transport keeps the boundaries of calls
    Repaired

\* send_body: the content is copied over the header, and the length counts
\*   one byte of header (network.c:362, 363);
\* version_shift: the high byte of the version is shifted the wrong way
\*   (network.c:358);
\* body_offset: the content is looked for at the start of the message
\*   (network.c:108 to 241, shared.h:202 to 227).
Statements == {"send_body", "version_shift", "body_offset"}

__VERSION       == 1
CTYPE_GETBLOCKS == 1
CTYPE_MEMPOOL   == 2
CTYPE_INV       == 3
CTYPE_GETDATA   == 4
CTYPE_BLOCK     == 5
CTYPE_TX        == 6
CTYPE_PING      == 9
CTYPE_PONG      == 10
Handled == {CTYPE_GETBLOCKS, CTYPE_MEMPOOL, CTYPE_INV, CTYPE_GETDATA,
            CTYPE_BLOCK, CTYPE_TX, CTYPE_PING, CTYPE_PONG}

\* The size of a content, which its fixed part announces: the count of a
\* list of hashes, or the size of a block or of a transaction.
Announced(m) ==
    CASE m.ctype = CTYPE_GETBLOCKS -> SIZE_SHA256 + 1
      [] m.ctype \in {CTYPE_INV, CTYPE_GETDATA} -> 2 + m.body[2] * SIZE_SHA256
      [] m.ctype \in {CTYPE_BLOCK, CTYPE_TX} -> 4 + BigEndian(m.body, 1, 4)
      [] OTHER -> 0

ASSUME WireConstants ==
    /\ 10 \in Byte /\ Junk \notin Byte
    /\ Boundaries \in BOOLEAN /\ MaxSends \in Nat
    /\ SIZE_SHA256 \in Nat /\ MAX_MSG_SIZE \in Nat
    /\ PeerVersions \subseteq UShort
    /\ Repaired \subseteq Statements
    /\ Message \subseteq [ctype : Handled, body : Seq(Int)]
    /\ MAX_MSG_SIZE >= 7
    /\ \A m \in Message :
          /\ Len(m.body) + 3 <= MAX_MSG_SIZE
          /\ m.ctype \in {CTYPE_INV, CTYPE_GETDATA} =>
                 Len(m.body) >= 2 /\ m.body[2] \in Byte
          /\ m.ctype \in {CTYPE_BLOCK, CTYPE_TX} => Len(m.body) >= 4
          /\ Len(m.body) = Announced(m)

VARIABLES
    peerVersion,   \* the sender's version
    sent,          \* messages in the order in which they were sent
    stream,        \* pieces of bytes under way
    shut,          \* the sender has closed its end
    buf,           \* the receiver's msg
    pc,            \* "recv", "parse" or "closed"
    got,           \* messages the handlers were given
    rejected       \* a <reject> was sent

vars == <<peerVersion, sent, stream, shut, buf, pc, got, rejected>>

Init ==
    /\ peerVersion \in PeerVersions
    /\ sent = <<>> /\ got = <<>> /\ stream = <<>>
    /\ buf = [i \in 1..MAX_MSG_SIZE |-> Junk]
    /\ pc = "recv"
    /\ shut = FALSE /\ rejected = FALSE

------------------------------------------------------------------------------
(* The sender.                                                             *)

VersionHigh == IF "version_shift" \in Repaired THEN Shifted(peerVersion, 2, 0)
                                               ELSE 0

\* The bytes sendto_peer hands to sendto.
Raw(m) ==
    IF "send_body" \in Repaired
    THEN <<VersionHigh, Shifted(peerVersion, 2, 1), m.ctype>> \o m.body
    ELSE <<VersionHigh>> \o m.body

\* The pieces in which the transport may hand the bytes on: whole, or in
\* any way, for which single bytes stand.
Pieces(bytes) == IF Boundaries THEN <<bytes>>
                 ELSE [i \in 1..Len(bytes) |-> <<bytes[i]>>]

\* The bytes of one call stay together: the calls of two threads for the
\* same peer come one after the other.
sendto_peer(m) ==
    /\ ~ shut /\ Len(sent) < MaxSends
    /\ stream' = stream \o Pieces(Raw(m))
    /\ sent' = Append(sent, m)
    /\ UNCHANGED <<peerVersion, shut, buf, pc, got, rejected>>

Shutdown ==
    /\ ~ shut
    /\ shut' = TRUE
    /\ UNCHANGED <<peerVersion, sent, stream, buf, pc, got, rejected>>

------------------------------------------------------------------------------
(* The receiver.                                                           *)

Chunk(n) == IF Boundaries THEN Head(stream) ELSE FlattenSeq(SubSeq(stream, 1, n))

\* recvfrom returns n pieces: they overwrite the start of the buffer and the
\* rest of it stays.
Receive(n) ==
    /\ pc = "recv"
    /\ Boundaries => n = 1
    /\ Len(Chunk(n)) <= MAX_MSG_SIZE
    /\ buf' = Written(buf, 1, Chunk(n))
    /\ stream' = SubSeq(stream, n + 1, Len(stream))
    /\ pc' = "parse"
    /\ UNCHANGED <<peerVersion, sent, shut, got, rejected>>

\* recvfrom returns 0.
PeerGone ==
    /\ pc = "recv" /\ shut /\ stream = <<>>
    /\ pc' = "closed"
    /\ UNCHANGED <<peerVersion, sent, stream, shut, buf, got, rejected>>

\* Fault: the version is not looked at.
FaultyVersionOk == TRUE

\* btous converts once too often, and so does its caller (network.c:95).
VersionOk == ntohs(btous(buf, 1)) = __VERSION

Reject ==
    /\ pc = "parse"
    /\ ~ VersionOk
    /\ rejected' = TRUE
    /\ pc' = "closed"
    /\ UNCHANGED <<peerVersion, sent, stream, shut, buf, got>>

BodyAt == IF "body_offset" \in Repaired THEN 3 ELSE 0

Count == IF buf[BodyAt + 2] \in Byte THEN buf[BodyAt + 2] ELSE 0

\* Fault: the count of hashes is taken for their bytes.
FaultyListSize == 2 + Count

ListSize == 2 + Count * SIZE_SHA256

\* How far a handler reads: a list of hashes by its count, a block and a
\* transaction by their size.
ContentSize(ctype) ==
    CASE ctype = CTYPE_GETBLOCKS -> SIZE_SHA256 + 1
      [] ctype \in {CTYPE_INV, CTYPE_GETDATA} -> ListSize
      [] ctype \in {CTYPE_BLOCK, CTYPE_TX} -> 4 + BigEndian(buf, BodyAt + 1, 4)
      [] OTHER -> 0

\* The content as the handler reads it; past the buffer is no content.
Content(ctype) ==
    LET end == BodyAt + ContentSize(ctype)
    IN  SubSeq(buf, BodyAt + 1, IF end < MAX_MSG_SIZE THEN end ELSE MAX_MSG_SIZE)

\* A message is given to its handler.  An unknown type is ignored, and so
\* here are <reject>, which is printed, and <peer> and <alert>, which are
\* fatal: the sender has none of these.
Handle ==
    /\ pc = "parse"
    /\ VersionOk
    /\ got' = IF buf[3] \in Handled
              THEN Append(got, [ctype |-> buf[3], body |-> Content(buf[3])])
              ELSE got
    /\ pc' = "recv"
    /\ UNCHANGED <<peerVersion, sent, stream, shut, buf, rejected>>

ReceiverStep ==
    (\E n \in 1..Len(stream) : Receive(n)) \/ PeerGone \/ Reject \/ Handle

Next == (\E m \in Message : sendto_peer(m)) \/ Shutdown \/ ReceiverStep

\* The thread of the connection runs.
Spec == Init /\ [][Next]_vars /\ WF_vars(ReceiverStep)

------------------------------------------------------------------------------
(* Properties.                                                             *)

Cell == Byte \cup {Junk} \cup UNION {Range(m.body) : m \in Message}

TypeOK ==
    /\ peerVersion \in PeerVersions
    /\ sent \in Seq(Message) /\ Len(sent) <= MaxSends
    /\ stream \in Seq(Seq(Cell))
    /\ buf \in [1..MAX_MSG_SIZE -> Cell]
    /\ pc \in {"recv", "parse", "closed"}
    /\ got \in Seq([ctype : Handled, body : Seq(Cell)])
    /\ shut \in BOOLEAN /\ rejected \in BOOLEAN

\* The handlers are given the messages that were sent, whole, once and in
\* order, although the buffer still holds what longer messages left in it:
\* the "reliable underlying transport" of messages that "specify the size of
\* the following content" (README.md:20, 23), and the channel that Sync
\* takes a connection for.
Pipe == INSTANCE Channel
ImplementsChannel == Pipe!ChannelSpec

\* A peer of our own version is never turned away because its bytes were
\* misread, and no handler runs for a peer of another version
\* (network.c:95 to 101).
VersionChecked ==
    /\ TypeOK
    /\ rejected => peerVersion # __VERSION
    /\ got # <<>> => peerVersion = __VERSION

==============================================================================
