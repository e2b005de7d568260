------------------------------- MODULE Sha256 --------------------------------
(***************************************************************************)
(* The streaming part of sha256 in crypto.c: sha256_init, sha256_update a  *)
(* byte at a time, and the padding of sha256_final, on one context that is *)
(* used for message after message (the loop of mine).  sha256_transform is *)
(* a fixed function of the state and a block, so the state stands for the  *)
(* bytes that were passed to it, and the digest for those of the message.  *)
(* The sizes are parameters: 64, 4 and 8 in the code.                      *)
(***************************************************************************)
EXTENDS Digits, Sequences

CONSTANTS
    BlockLen,    \* bytes of ctx->data
    WordBytes,   \* bytes of a uint
    Bits,        \* bits of a byte
    Data,        \* the bytes messages are made of
    MaxLen       \* bound: the length of a message

Word     == Place[WordBytes]
LengthAt == BlockLen - 2 * WordBytes    \* 56
Stop     == Radix \div 2                \* 0x80
Cells    == 0..(BlockLen - 1)

\* A block has room for the length and one byte more, and its bits fit a
\* word: what the carry of DBL_INT_ADD relies on.
ASSUME Sha256Constants ==
    /\ BlockLen \in Nat /\ WordBytes \in Nat \ {0} /\ Bits \in Nat \ {0}
    /\ Radix \in Nat \ {0, 1} /\ Radix = 2^Bits
    /\ MaxLen \in Nat
    /\ LengthAt > 0
    /\ BlockLen * Bits < Word
    /\ MaxLen * Bits < Word * Word
    /\ Data \subseteq Byte

VARIABLES
    data,       \* ctx->data
    datalen,    \* ctx->datalen
    bitlen,     \* ctx->bitlen, the low word and the high word
    hashed,     \* ctx->state: the bytes sha256_transform was given
    message,    \* the bytes passed to sha256_update since sha256_init
    pc          \* "idle", "open" between init and final, "done"

contextVars == <<data, datalen, bitlen, hashed, message, pc>>

\* malloc leaves the context undefined.
ContextInit ==
    /\ data = [i \in Cells |-> Radix - 1]
    /\ datalen = 0
    /\ bitlen = <<0, 0>>
    /\ hashed = <<>> /\ message = <<>>
    /\ pc = "idle"

InOrder(d) == [i \in 1..BlockLen |-> d[i - 1]]

sha256_transform(h, d) == h \o InOrder(d)

DBL_INT_ADD(n, c) ==
    <<(n[1] + c) % Word,
      IF n[1] > Word - 1 - c THEN (n[2] + 1) % Word ELSE n[2]>>

\* The buffer keeps the bytes of the last message.
sha256_init ==
    /\ pc # "open"
    /\ datalen' = 0
    /\ bitlen' = <<0, 0>>
    /\ hashed' = <<>> /\ message' = <<>>
    /\ pc' = "open"
    /\ UNCHANGED data

BlockFull == datalen + 1 = BlockLen

\* One iteration of the loop of sha256_update.
sha256_update(b) ==
    /\ pc = "open" /\ Len(message) < MaxLen
    /\ message' = Append(message, b)
    /\ data' = [data EXCEPT ![datalen] = b]
    /\ IF BlockFull
       THEN /\ hashed' = sha256_transform(hashed, data')
            /\ bitlen' = DBL_INT_ADD(bitlen, BlockLen * Bits)
            /\ datalen' = 0
       ELSE /\ datalen' = datalen + 1
            /\ UNCHANGED <<hashed, bitlen>>
    /\ UNCHANGED pc

\* The buffer with the stop bit after the data and zeros up to end.
Padded(end) ==
    [i \in Cells |-> IF i = datalen THEN Stop
                     ELSE IF datalen < i /\ i < end THEN 0 ELSE data[i]]

\* Digit i of a number, the first of WordBytes the most significant.
Digit(n, i) == (n \div Place[WordBytes - 1 - i]) % Radix

\* The buffer with the high and the low word of the length at its end.
WithLength(d, n) ==
    [i \in Cells |-> IF i < LengthAt THEN d[i]
                     ELSE IF i < LengthAt + WordBytes THEN Digit(n[2], i - LengthAt)
                     ELSE Digit(n[1], i - LengthAt - WordBytes)]

\* Fault: the data may end where the length begins.
FaultyFitsLength == datalen <= LengthAt

\* The stop bit and the length fit the block.
FitsLength == datalen < LengthAt

sha256_final ==
    /\ pc = "open"
    /\ bitlen' = DBL_INT_ADD(bitlen, datalen * Bits)
    /\ IF FitsLength
       THEN /\ data' = WithLength(Padded(LengthAt), bitlen')
            /\ hashed' = sha256_transform(hashed, data')
       ELSE /\ data' = WithLength([i \in Cells |-> 0], bitlen')
            /\ hashed' = sha256_transform(
                            sha256_transform(hashed, Padded(BlockLen)), data')
    /\ pc' = "done"
    /\ UNCHANGED <<datalen, message>>

ContextNext == sha256_init \/ (\E b \in Data : sha256_update(b)) \/ sha256_final

ContextSpec == ContextInit /\ [][ContextNext]_contextVars

------------------------------------------------------------------------------
(* Properties.                                                             *)

TypeOK ==
    /\ data \in [Cells -> Byte]
    /\ datalen \in Cells
    /\ bitlen \in (0..(Word - 1)) \X (0..(Word - 1))
    /\ hashed \in Seq(Byte) /\ message \in Seq(Data)
    /\ pc \in {"idle", "open", "done"}

\* What has been hashed and what waits in the buffer is the message, and
\* the two words count the bits hashed, also after the low word has wrapped.
StreamSound ==
    pc = "open" =>
        /\ message = hashed \o SubSeq(InOrder(data), 1, datalen)
        /\ bitlen[2] * Word + bitlen[1] = Len(hashed) * Bits

Zeros(n) == [i \in 1..n |-> 0]

\* A number in two words, the most significant digit first.
LengthField(n) ==
    [i \in 1..(2 * WordBytes) |-> (n \div Place[2 * WordBytes - i]) % Radix]

\* The padding of sha256: the message, the stop bit, as few zeros as fill
\* the block and the length in bits.
Padding(m) ==
    m \o <<Stop>> \o Zeros((LengthAt - 1 - Len(m)) % BlockLen)
      \o LengthField(Len(m) * Bits)

\* Up to sha256_final nothing of the message is lost, and sha256_final has
\* hashed exactly the padded message, whatever its length and whatever the
\* context was used for before: a digest depends on the message alone
\* (mine.c:39 to 41 reuses one context for all headers).
HashesPadded ==
    /\ TypeOK
    /\ StreamSound
    /\ pc = "done" => hashed = Padding(message)

==============================================================================
