------------------------------ MODULE WorkBlock ------------------------------
(***************************************************************************)
(* The miner's work block as blocks.c keeps it: one buffer of bytes, used  *)
(* for block after block, with a header at fixed positions (shared.h) and  *)
(* the transactions behind it.  Whoever reads the block back goes through  *)
(* the same positions and conversions.  The order of the calls is that of  *)
(* mine.c; which header is begun, which transactions arrive and when the   *)
(* search is interrupted is left open (Miner says).  Nothing calls         *)
(* block_update_root, so the root stays what block_add_header wrote.       *)
(*                                                                         *)
(* A cell of the buffer holds a byte, or a number outside Byte for a byte  *)
(* of a hash or of a transaction's inputs and outputs.  A statement that   *)
(* defeats its function is taken as written, or with its evident           *)
(* correction when its name is in Repaired.                                *)
(***************************************************************************)
EXTENDS Bytes, Sequences, FiniteSetsExt

CONSTANTS
    Junk,           \* uninitialised memory
    Headers,        \* records of time, height, prev and target
    Times,          \* what get_curr_time may answer
    Tx, Coinbase,   \* transactions of the mempool, and the miner's own
    Ins, Outs, LockTime,    \* their in_count, out_count and lock_time
    SIZE_TX_INPUT, SIZE_TX_OUTPUT,
    MAX_BLOCK_SIZE,
    Repaired

\* byte_order: btoui and btous convert a number that is in host order
\*   already (util.c:64, 73);
\* count_address: block_compute_size takes the address of the count for the
\*   count (blocks.c:88);
\* count_byte: it keeps the count in a uchar (blocks.c:88);
\* target_byte: the one byte of the target is read as a uint
\*   (blockchain.c:28).
Statements == {"byte_order", "count_address", "count_byte", "target_byte"}

\* Fault: the nonce begins one byte late and runs into the count.
FaultyPosNonce == 76

__VERSION              == 1
SIZE_SHA256            == 32
POS_BLOCK_VERSION      == 0
POS_BLOCK_TIME         == 2
POS_BLOCK_HEIGHT       == 6
POS_BLOCK_PREV_HASH    == 10
POS_BLOCK_MERKLE_ROOT  == 42
POS_BLOCK_TARGET       == 74
POS_BLOCK_NONCE        == 75
POS_BLOCK_TX_COUNT     == 79
SIZE_BLOCK_HEADER      == 83
POS_TX_IN_COUNT        == 2
POS_TX_OUT_COUNT       == 4
SIZE_TX_HEADER         == 10

AllTx == Tx \cup {Coinbase}
Addr  == 0..(MAX_BLOCK_SIZE - 1)

ASSUME WorkBlockConstants ==
    /\ Tx \subseteq Int \ Byte /\ Coinbase \in Int \ (Tx \cup Byte)
    /\ Junk \in Int \ (Byte \cup AllTx)
    /\ \A t \in AllTx : /\ Ins[t] \in UShort /\ Outs[t] \in UShort
                        /\ LockTime[t] \in UInt
    /\ \A h \in Headers : /\ h.time \in UInt /\ h.height \in UInt
                          /\ h.prev \in Int \ Byte /\ h.target \in Byte
    /\ Times \subseteq UInt
    /\ SIZE_TX_INPUT \in Nat /\ SIZE_TX_OUTPUT \in Nat
    /\ MAX_BLOCK_SIZE \in Nat /\ MAX_BLOCK_SIZE > SIZE_BLOCK_HEADER
    /\ Repaired \subseteq Statements

VARIABLES
    mem,     \* the buffer
    point,      \* where the loop of main is
    alive    \* fatal ends the process

blockVars == <<mem, point, alive>>

BlockInit ==
    /\ mem = [a \in Addr |-> Junk]
    /\ point = "header"
    /\ alive = TRUE

------------------------------------------------------------------------------
(* Reading.                                                                *)

ReadUInt(m, at) == IF "byte_order" \in Repaired THEN BigEndian(m, at, 4)
                                                ELSE btoui(m, at)
ReadUShort(m, at) == IF "byte_order" \in Repaired THEN BigEndian(m, at, 2)
                                                  ELSE btous(m, at)

\* The hash in a field of the header, if the field holds one.
ReadHash(m, at) == IF \A i \in 0..(SIZE_SHA256 - 1) : m[at + i] = m[at]
                   THEN m[at] ELSE Junk

m_tx_size(in_count, out_count) ==
    SIZE_TX_HEADER + SIZE_TX_INPUT * in_count + SIZE_TX_OUTPUT * out_count

\* The size of the transaction at address at; past the buffer there is none.
tx_compute_size(m, at) ==
    IF at + SIZE_TX_HEADER <= MAX_BLOCK_SIZE
    THEN m_tx_size(ReadUShort(m, at + POS_TX_IN_COUNT),
                   ReadUShort(m, at + POS_TX_OUT_COUNT))
    ELSE 0

\* The count block_compute_size goes by; an address may be any number.
SizeCounts(m) ==
    LET count == ReadUInt(m, POS_BLOCK_TX_COUNT)
    IN  IF "count_address" \notin Repaired THEN Byte
        ELSE {IF "count_byte" \in Repaired THEN count ELSE count % Radix}

\* The addresses at which the first count transactions begin, and the end.
Cursors(m, count) ==
    LET cursor[i \in 0..count] ==
            IF i = 0 THEN SIZE_BLOCK_HEADER
            ELSE cursor[i - 1] + tx_compute_size(m, cursor[i - 1])
    IN  cursor

block_compute_size(m, count) == Cursors(m, count)[count]

------------------------------------------------------------------------------
(* Writing.                                                                *)

HashBytes(h) == [i \in 1..SIZE_SHA256 |-> h]

\* A transaction as r_tx_gen lays it out: the fields of its header in the
\* order of their positions, then its inputs and outputs.
r_tx_gen(t) ==
    ustob(__VERSION) \o ustob(Ins[t]) \o ustob(Outs[t]) \o uitob(LockTime[t])
    \o [i \in 1..(m_tx_size(Ins[t], Outs[t]) - SIZE_TX_HEADER) |-> t]

TxData == [t \in AllTx |-> r_tx_gen(t)]

\* The header's writes one after the other; the body is left as it is.
block_add_header(m, h) ==
    LET a == Written(m, POS_BLOCK_VERSION, ustob(__VERSION))
        b == Written(a, POS_BLOCK_TIME, uitob(h.time))
        c == Written(b, POS_BLOCK_HEIGHT, uitob(h.height))
        d == Written(c, POS_BLOCK_PREV_HASH, HashBytes(h.prev))
        e == Written(d, POS_BLOCK_MERKLE_ROOT, HashBytes(0))
        f == [e EXCEPT ![POS_BLOCK_TARGET] = h.target]
        g == Written(f, POS_BLOCK_NONCE, uitob(0))
    IN  Written(g, POS_BLOCK_TX_COUNT, uitob(0))

block_inc_nonce(m) ==
    Written(m, POS_BLOCK_NONCE,
            uitob((ReadUInt(m, POS_BLOCK_NONCE) + 1) % (Radix * Place(3))))

Fits(size, t) == size + m_tx_size(Ins[t], Outs[t]) < MAX_BLOCK_SIZE

\* A transaction is written behind the last and counted.
AddedTx(m, size, t) ==
    Written(Written(m, size, TxData[t]), POS_BLOCK_TX_COUNT,
            uitob((ReadUInt(m, POS_BLOCK_TX_COUNT) + 1) % (Radix * Place(3))))

block_add_tx(t) ==
    \E count \in SizeCounts(mem) :
        LET size == block_compute_size(mem, count)
        IN  IF Fits(size, t)
            THEN mem' = AddedTx(mem, size, t) /\ UNCHANGED alive
            ELSE alive' = FALSE /\ UNCHANGED mem

\* The bytes of transaction t are at address a,
Holds(m, a, t) ==
    /\ a + Len(TxData[t]) <= MAX_BLOCK_SIZE
    /\ \A i \in 1..Len(TxData[t]) : m[a + i - 1] = TxData[t][i]

\* and a reader finds it.
TxAt(m, a) == IF \E t \in AllTx : Holds(m, a, t)
              THEN CHOOSE t \in AllTx : Holds(m, a, t) ELSE Junk

\* The transactions a reader finds.
ReadTxs(m) ==
    LET count == Min({ReadUInt(m, POS_BLOCK_TX_COUNT), MAX_BLOCK_SIZE})
        from  == Cursors(m, count)
    IN  [i \in 1..count |-> TxAt(m, from[i - 1])]

------------------------------------------------------------------------------
(* The calls in the order of mine.c.                                       *)

Goto(step) == point' = step

BeginBlock(h) ==
    /\ point = "header" /\ alive
    /\ mem' = block_add_header(mem, h)
    /\ Goto("coinbase")
    /\ UNCHANGED alive

AddCoinbase ==
    /\ point = "coinbase" /\ alive
    /\ block_add_tx(Coinbase)
    /\ Goto("check")

\* The tip has changed, or it has not.
Check ==
    /\ point = "check" /\ alive
    /\ Goto("header") \/ Goto("fill")
    /\ UNCHANGED <<mem, alive>>

FillTx(t) ==
    /\ point = "fill" /\ alive
    /\ block_add_tx(t)
    /\ UNCHANGED point

FillDone ==
    /\ point = "fill" /\ alive
    /\ Goto("time")
    /\ UNCHANGED <<mem, alive>>

UpdateTime(now) ==
    /\ point = "time" /\ alive
    /\ mem' = Written(mem, POS_BLOCK_TIME, uitob(now))
    /\ Goto("mine")
    /\ UNCHANGED alive

\* mine: the header was hashed in vain.
TryNonce ==
    /\ point = "mine" /\ alive
    /\ mem' = block_inc_nonce(mem)
    /\ UNCHANGED <<point, alive>>

\* mine returns, found or out of time.
EndMine ==
    /\ point = "mine" /\ alive
    /\ Goto("check")
    /\ UNCHANGED <<mem, alive>>

BlockNext ==
    \/ \E h \in Headers : BeginBlock(h)
    \/ AddCoinbase
    \/ Check
    \/ \E t \in Tx : FillTx(t)
    \/ FillDone
    \/ \E now \in Times : UpdateTime(now)
    \/ TryNonce
    \/ EndMine

BlockSpec == BlockInit /\ [][BlockNext]_blockVars

------------------------------------------------------------------------------
(* Properties.                                                             *)

\* The target as compute_next_target reads it from a stored header.
ReadTarget(m) == IF "target_byte" \in Repaired THEN m[POS_BLOCK_TARGET]
                                               ELSE ReadUInt(m, POS_BLOCK_TARGET)

\* The block as its readers find it.
ReadBlock ==
    IF mem[POS_BLOCK_VERSION] = Junk THEN <<>>
    ELSE [time   |-> ReadUInt(mem, POS_BLOCK_TIME),
          height |-> ReadUInt(mem, POS_BLOCK_HEIGHT),
          prev   |-> ReadHash(mem, POS_BLOCK_PREV_HASH),
          target |-> ReadTarget(mem),
          root   |-> ReadHash(mem, POS_BLOCK_MERKLE_ROOT),
          nonce  |-> ReadUInt(mem, POS_BLOCK_NONCE),
          txs    |-> ReadTxs(mem)]

\* The buffer, read back through the positions and conversions of the code,
\* behaves as a record: every write lands in its own field, the nonce counts
\* through all its values without touching the target or the count, bytes of
\* an earlier block never show, and no transaction is written over.
Record == INSTANCE BlockRecord WITH
    block <- ReadBlock, NoBlock <- <<>>, Unset <- 0, Tx <- AllTx,
    TxSize <- [t \in AllTx |-> m_tx_size(Ins[t], Outs[t])],
    HeaderSize <- SIZE_BLOCK_HEADER, SizeLimit <- MAX_BLOCK_SIZE,
    NonceCount <- Radix * Place(3)
ImplementsRecord == Record!RecordSpec

==============================================================================
