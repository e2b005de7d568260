------------------------------- MODULE Ledger -------------------------------
(***************************************************************************)
(* The block ledger of a freecoin node: the databases of data.c ("blocks", *)
(* "chain", "limbo", "txs" and the mempool) and the handler of network.c   *)
(* that changes them, from the arrival of a <block> message to the end of  *)
(* the limbo scan and of the chain revert it may start.                    *)
(*                                                                         *)
(* The handler of a <block> holds peers_mutex throughout (network.c:191    *)
(* to 226), so one handler at a time is active and one set of its locals   *)
(* is kept here.  <tx> messages take another mutex, which the revert does  *)
(* not take, and are handled by other threads between any two of its       *)
(* steps.  A step writes one record of one database; the write to "txs"    *)
(* and the change of the mempool for one transaction are one step, since   *)
(* no other thread reads "txs" and a crash forgets the mempool.            *)
(*                                                                         *)
(* The repository is unfinished.  A statement that cannot mean what it     *)
(* says is modelled both ways: as written, and with its evident correction *)
(* when its name is in Repaired.  The levels of "limbo" are capped sets    *)
(* here; what array.c makes of them is the module LimboLevel.              *)
(***************************************************************************)
EXTENDS Integers, FiniteSets, FiniteSetsExt

CONSTANTS
    Block,        \* block hashes; a hash stands for the block it identifies
    Genesis,      \* the first block, already stored and on the chain
    Absent,       \* no block: the hash before the genesis block, no record
    MaxHeight,    \* bound on the heights of the blocks of Block
    Height,       \* the height field of each block
    Prev,         \* its prev_hash field
    Tx,           \* transaction hashes
    Txs,          \* the transactions in the body of each block
    Valid,        \* blocks that is_valid_chain accepts on their predecessor
    LevelCap,     \* LIMBO_MAX_LEVEL_SIZE
    MempoolCap,   \* MAX_MEMPOOL_SIZE
    REASONABLE_CONFIRMATIONS,
    ByteBase,     \* values of one byte of a limbo key (256)
    Repaired      \* the statements taken with their evident correction

\* safe_set: data_chain_safe_set is given a block where it expects a hash
\*   (data.c:214, 320, network.c:219), so its lookup fails and it returns;
\* chain_record: it records the height under the hash (data.c:326, 327),
\*   where every reader looks for the hash under the height (data.c:345);
\* height_record: the height of the chain is read out of its records as if
\*   they were block headers (data.c:396);
\* highest: _data_VAR_get_height starts from an uninitialised maximum
\*   (data.c:392);
\* index_hash: data_txs_add is called without its block (data.c:204);
\* key_order: the keys of "limbo" are native little-endian integers, which
\*   the cursor of the scan compares byte by byte (data.c:500);
\* valid_if: the validity of a block guards the whole trace, and the wrong
\*   way round (validation.c:27);
\* missing_block: a failed read leaves the last block in the buffer, whose
\*   predecessor is then looked for for ever (validation.c:26, 34);
\* confirm_wrap: the height less the confirmations wraps (validation.c:28);
\* revert_args: data_limbo_scan passes the new tip where data_blocks_revert
\*   expects the common block, and the reverse (data.c:514);
\* dangling_else: the else of data.c:523 binds to the inner if.
Statements ==
    {"safe_set", "chain_record", "height_record", "highest", "index_hash",
     "key_order", "valid_if", "missing_block", "confirm_wrap", "revert_args",
     "dangling_else"}

Heights == 0..MaxHeight

ASSUME LedgerConstants ==
    /\ Genesis \in Block
    /\ Absent \notin Block
    /\ MaxHeight \in Nat
    /\ Height \in [Block -> Heights]
    /\ Prev \in [Block -> Block \cup {Absent}]
    /\ Txs \in [Block -> SUBSET Tx]
    /\ Height[Genesis] = 0
    /\ Prev[Genesis] = Absent
    /\ Repaired \subseteq Statements
    /\ LevelCap \in Nat
    /\ MempoolCap \in Nat
    /\ REASONABLE_CONFIRMATIONS \in Nat
    /\ ByteBase \in Nat \ {0}
    /\ MaxHeight < ByteBase * ByteBase

\* A valid block is one higher than its predecessor (README.md:349).
ASSUME ValidHeights ==
    /\ Valid \subseteq Block
    /\ \A b \in Valid : Prev[b] \in Block => Height[b] = Height[Prev[b]] + 1

VARIABLES
    \* the databases
    blocks,     \* hashes stored in "blocks"
    chain,      \* "chain": the hash recorded at each height
    limbo,      \* "limbo": the hashes listed at each height
    levels,     \* heights that have a record in "limbo", possibly empty
    txs,        \* "txs": the block each transaction is indexed under
    mempool,    \* transactions in the mempool
    \* messages sent by the current, or by the last, handler
    asked,      \* hashes requested with <getdata>
    announced,  \* hashes advertised by the last <inv> of the handler
    \* the handler and its locals
    pc,
    arrived,    \* the block of the message
    place,      \* what its height and prev_hash make of it
    body,       \* transactions of the block in hand still to be written
    scanHeight, \* curr_height of data_limbo_scan, read once
    ahead,      \* heights the cursor has still to visit
    todo,       \* the listed hashes of the cursor's level still to be tried
    swapped,    \* already_swapped
    trial,      \* hash: the listed block being tried
    walk,       \* end_hash_buffer: where the trace has got to
    branch,     \* blocks the trace has passed through
    common,     \* common_block_hash of data_blocks_revert
    latest,     \* new_latest_block_hash
    hash,       \* curr_block_hash
    buf,        \* the block in curr_block
    index       \* i of the loop over the old blocks

dbVars     == <<blocks, chain, limbo, levels, txs>>
msgVars    == <<asked, announced>>
blockVars  == <<arrived, place, body>>
scanVars   == <<scanHeight, ahead, todo, swapped>>
traceVars  == <<trial, walk, branch>>
revertVars == <<common, latest, hash, buf, index>>
vars == <<dbVars, mempool, msgVars, pc, blockVars, scanVars, traceVars,
          revertVars>>

MaybeBlock == Block \cup {Absent}

Steps == {"idle", "index", "place", "begin", "level", "pick", "trace",
          "old", "oldtx", "new", "newtx", "record", "announce"}

\* The steps of the two loops of data_blocks_revert.
OldLoop == {"old", "oldtx"}
NewLoop == {"new", "newtx", "record"}

Places == {"request", "append", "limbo", "drop"}

TypeOK ==
    /\ blocks \subseteq Block
    /\ chain \in [Heights -> MaybeBlock]
    /\ limbo \in [Heights -> SUBSET Block]
    /\ levels \subseteq Heights
    /\ txs \in [Tx -> MaybeBlock]
    /\ mempool \subseteq Tx
    /\ asked \subseteq MaybeBlock
    /\ announced \subseteq MaybeBlock
    /\ pc \in Steps
    /\ arrived \in MaybeBlock
    /\ place \in Places
    /\ body \subseteq Tx
    /\ scanHeight \in Heights
    /\ ahead \subseteq Heights
    /\ todo \subseteq Block
    /\ swapped \in BOOLEAN
    /\ trial \in MaybeBlock
    /\ walk \in MaybeBlock
    /\ branch \subseteq Block
    /\ common \in MaybeBlock
    /\ latest \in MaybeBlock
    /\ hash \in MaybeBlock
    /\ buf \in MaybeBlock
    /\ index \in Heights

------------------------------------------------------------------------------
(* The database functions of data.c.                                       *)

\* The records a walk over "chain" finds.
ChainHeights == {h \in Heights : chain[h] # Absent}

\* What an uninitialised local may hold.
Uninitialised == IF "highest" \in Repaired THEN {0} ELSE Heights

\* What _data_VAR_get_height over "chain" may return: the greatest height of
\* a record, from where its maximum starts.  As written it reads the height
\* field of a header out of a record that has none.
data_chain_get_height ==
    IF "height_record" \in Repaired
    THEN {Max({start} \cup ChainHeights) : start \in Uninitialised}
    ELSE Heights

\* Fault: the early return for a block that is not stored is missing.
FaultySafeSet(b) == [chain EXCEPT ![Height[b]] = b]

\* The chain after data_chain_safe_set for block b: nothing is recorded for
\* a block that is not stored.
data_chain_safe_set(b) ==
    IF {"safe_set", "chain_record"} \subseteq Repaired /\ b \in blocks
    THEN [chain EXCEPT ![Height[b]] = b]
    ELSE chain

data_chain_exists(b) == b \in Block /\ chain[Height[b]] = b

\* Fault: the last slot of a level is never used.
FaultyLimboAdd(b) ==
    [limbo EXCEPT ![Height[b]] =
        IF Cardinality(@) + 1 < LevelCap THEN @ \cup {b} ELSE @]

\* The level of b after array_add: a full level drops the block.
data_limbo_safe_add(b) ==
    [limbo EXCEPT ![Height[b]] =
        IF Cardinality(@) < LevelCap THEN @ \cup {b} ELSE @]

data_limbo_del(b) == [limbo EXCEPT ![Height[b]] = @ \ {b}]

\* data_blocks_get into a buffer that holds `old`: a failed read leaves it.
data_blocks_get(h, old) == IF h \in blocks THEN h ELSE old

\* What data_txs_add may index a transaction of a new block b under.
IndexedUnder(b) == IF "index_hash" \in Repaired THEN {b} ELSE MaybeBlock

\* The order of the keys of "limbo".  As written: a native little-endian
\* integer compared byte by byte, here of two bytes.
LimboKey(h) ==
    IF "key_order" \in Repaired THEN h
    ELSE (h % ByteBase) * ByteBase + (h \div ByteBase)

\* The hashes build_block_list finds for `count` blocks after height h, the
\* chain being at height curr.
build_block_list(h, count, curr) ==
    LET last == Min({h + count, curr})
    IN  {chain[i] : i \in {i \in (h + 1)..last :
                             \A j \in (h + 1)..i : chain[j] # Absent}}

------------------------------------------------------------------------------
(* Messages.                                                               *)

\* Fault: prev_hash is not compared with the hash of the chain's tip.
FaultyPlacement(b, curr) ==
    CASE Height[b] <= curr -> "request"
      [] Height[b] > 2 /\ Height[b] - 2 >= curr -> "request"
      [] Height[b] - 1 = curr -> "append"
      [] OTHER -> "drop"

\* Where the handler of a <block> puts b when the chain is at height curr.
Placement(b, curr) ==
    IF \/ Height[b] <= curr
       \/ Height[b] > 2 /\ Height[b] - 2 >= curr
    THEN "request"
    ELSE IF Height[b] - 1 = curr
    THEN IF chain[curr] # Absent /\ Prev[b] = chain[curr]
         THEN "append" ELSE "limbo"
    ELSE "drop"

\* A <block> arrives and no other handler holds peers_mutex.  valid_block has
\* an empty body: it may answer anything.
ReceiveBlock(b) ==
    /\ pc = "idle"
    /\ \E curr \in data_chain_get_height : place' = Placement(b, curr)
    /\ arrived' = b
    /\ asked' = {}
    /\ announced' = {}
    /\ \/ body' = Txs[b] /\ pc' = "index"
       \/ body' = {} /\ pc' = "place"
    /\ UNCHANGED <<dbVars, mempool, scanVars, traceVars, revertVars>>

\* data_blocks_add: its transactions are indexed one by one, then the block
\* is stored.
IndexTx(t) ==
    /\ pc = "index"
    /\ t \in body
    /\ txs' = [txs EXCEPT ![t] = arrived]
    /\ body' = body \ {t}
    /\ UNCHANGED <<blocks, chain, limbo, levels, mempool, msgVars, pc, arrived,
                   place, scanVars, traceVars, revertVars>>

StoreBlock ==
    /\ pc = "index"
    /\ body = {}
    /\ blocks' = blocks \cup {arrived}
    /\ pc' = "place"
    /\ UNCHANGED <<chain, limbo, levels, txs, mempool, msgVars, blockVars,
                   scanVars, traceVars, revertVars>>

\* The block is placed, whatever valid_block said.
PlaceBlock ==
    /\ pc = "place"
    /\ IF place \in {"request", "limbo"}
       THEN /\ limbo' = data_limbo_safe_add(arrived)
            /\ levels' = levels \cup {Height[arrived]}
       ELSE UNCHANGED <<limbo, levels>>
    /\ asked' = IF place = "request" THEN {arrived} ELSE {}
    /\ chain' = IF place = "append" THEN data_chain_safe_set(arrived) ELSE chain
    /\ arrived' = Absent
    /\ place' = "drop"
    /\ pc' = "begin"
    /\ UNCHANGED <<blocks, txs, mempool, announced, body, scanVars, traceVars,
                   revertVars>>

\* A <tx> arrives on some connection; past the cap it is ignored.
ReceiveTx(t) ==
    /\ Cardinality(mempool) < MempoolCap
    /\ mempool' = mempool \cup {t}
    /\ UNCHANGED <<dbVars, msgVars, pc, blockVars, scanVars, traceVars,
                   revertVars>>

------------------------------------------------------------------------------
(* data_limbo_scan.                                                        *)

BeginScan ==
    /\ pc = "begin"
    /\ scanHeight' \in data_chain_get_height
    /\ ahead' = Heights
    /\ swapped' = FALSE
    /\ pc' = "level"
    /\ UNCHANGED <<dbVars, mempool, msgVars, blockVars, todo, traceVars,
                   revertVars>>

\* Faults: the comparison is off by one, either way.
FaultyRaiseMore(h) == h > scanHeight + 1
FaultyRaiseEqual(h) == h >= scanHeight

\* "Only attempt blocks which would make our chain higher" (data.c:502).
WouldRaise(h) == h > scanHeight

\* The record the cursor moves to: the one with the greatest key left.
CursorAt(h) ==
    /\ h \in levels \cap ahead
    /\ \A k \in levels \cap ahead : LimboKey(k) <= LimboKey(h)

\* The cursor reads a level: a copy of its list, which later changes to
\* "limbo" do not reach.
ReadLevel(h) ==
    /\ pc = "level"
    /\ CursorAt(h)
    /\ WouldRaise(h)
    /\ todo' = limbo[h]
    /\ ahead' = {k \in ahead : LimboKey(k) < LimboKey(h)}
    /\ pc' = "pick"
    /\ UNCHANGED <<dbVars, mempool, msgVars, blockVars, scanHeight, swapped,
                   traceVars, revertVars>>

\* No record is left, or the cursor is at one that would not make the chain
\* higher: the scan returns and the handler releases peers_mutex.
EndScan ==
    /\ pc = "level"
    /\ \/ levels \cap ahead = {}
       \/ \E h \in Heights : CursorAt(h) /\ ~ WouldRaise(h)
    /\ pc' = "idle"
    /\ scanHeight' = 0
    /\ ahead' = {}
    /\ swapped' = FALSE
    /\ UNCHANGED <<dbVars, mempool, msgVars, blockVars, todo, traceVars,
                   revertVars>>

\* The next hash listed at the level is tried.  The array's order depends on
\* earlier deletions, so it may be any of them.
PickHash(b) ==
    /\ pc = "pick"
    /\ b \in todo
    /\ todo' = todo \ {b}
    /\ trial' = b
    /\ walk' = b
    /\ branch' = {}
    /\ pc' = "trace"
    /\ UNCHANGED <<dbVars, mempool, msgVars, blockVars, scanHeight, ahead,
                   swapped, revertVars>>

LevelDone ==
    /\ pc = "pick"
    /\ todo = {}
    /\ pc' = "level"
    /\ UNCHANGED <<dbVars, mempool, msgVars, blockVars, scanVars, traceVars,
                   revertVars>>

\* Fault: a block as old as the confirmations allow is too old.
FaultyRecent(b, curr) == Height[b] + REASONABLE_CONFIRMATIONS > curr + 1

\* b is less than the confirmations below the height of the chain.  As
\* written, the difference wraps and is above every height.
Recent(b, curr) ==
    /\ Height[b] + REASONABLE_CONFIRMATIONS > curr
    /\ "confirm_wrap" \in Repaired \/ curr >= REASONABLE_CONFIRMATIONS

\* The trace of validation.c, which replaces the empty function that the
\* scan calls (data.c:534): one block back through prev_hash.
TraceStep ==
    /\ pc = "trace"
    /\ walk \in blocks
    /\ \E curr \in data_chain_get_height : Recent(walk, curr)
    /\ ~ data_chain_exists(walk)
    /\ branch' = branch \cup {walk}
    /\ walk' = Prev[walk]
    /\ UNCHANGED <<dbVars, mempool, msgVars, pc, blockVars, scanVars, trial,
                   revertVars>>

\* The trace answers 1: at a recent block of the chain.
Traced ==
    /\ pc = "trace"
    /\ walk \in blocks
    /\ \E curr \in data_chain_get_height : Recent(walk, curr)
    /\ data_chain_exists(walk)

\* It answers 0: at a block that is missing or too old or, as written, that
\* valid_block accepts.  As written only an uninitialised buffer, where the
\* first read failed, can end it at a missing block.
NotTraced ==
    /\ pc = "trace"
    /\ \/ "valid_if" \notin Repaired
       \/ walk \notin blocks /\ ("missing_block" \in Repaired \/ walk = trial)
       \/ /\ walk \in blocks
          /\ \E curr \in data_chain_get_height : ~ Recent(walk, curr)

\* is_valid_chain(hash, end_hash_buffer).
is_valid_chain == branch \subseteq Valid

ForgetTrial ==
    /\ trial' = Absent
    /\ walk' = Absent
    /\ branch' = {}

\* The block where a trace ended is requested from every peer.  As written
\* the else belongs to the inner if: one that was not traced is not.
Chase ==
    /\ NotTraced
    /\ asked' = IF "dangling_else" \in Repaired THEN asked \cup {walk} ELSE asked
    /\ pc' = "pick"
    /\ ForgetTrial
    /\ UNCHANGED <<dbVars, mempool, announced, blockVars, scanVars, revertVars>>

\* A branch that starts at the chain is not taken; as written the block of
\* the chain is requested.
GiveUp ==
    /\ Traced
    /\ swapped \/ ~ is_valid_chain
    /\ asked' = IF "dangling_else" \in Repaired THEN asked ELSE asked \cup {walk}
    /\ pc' = "pick"
    /\ ForgetTrial
    /\ UNCHANGED <<dbVars, mempool, announced, blockVars, scanVars, revertVars>>

------------------------------------------------------------------------------
(* data_blocks_revert.                                                     *)

\* The trial's branch is valid and none was swapped in before: the call of
\* data_blocks_revert, up to its first loop.
BeginRevert ==
    /\ Traced
    /\ ~ swapped /\ is_valid_chain
    /\ swapped' = TRUE
    /\ common' = IF "revert_args" \in Repaired THEN walk ELSE trial
    /\ latest' = IF "revert_args" \in Repaired THEN trial ELSE walk
    /\ IF common' \in blocks
       THEN index' \in data_chain_get_height /\ pc' = "old"
       ELSE index' = 0 /\ pc' = "announce"
    /\ hash' = Absent
    /\ buf' = Absent
    /\ UNCHANGED <<dbVars, mempool, msgVars, blockVars, scanHeight, ahead, todo,
                   traceVars>>

\* Faults: the loop runs one block too far; returned transactions are capped;
\* the second loop looks for the block below the common one.
FaultyOldLeft == index >= Height[common]
FaultyReturnTx(t) ==
    IF Cardinality(mempool) < MempoolCap THEN mempool \cup {t} ELSE mempool
FaultyAtCommon(b) == Height[b] + 1 = Height[common]

OldLeft == index > Height[common]

\* data_mempool_add of a transaction of an old block, with no cap.
ReturnTx(t) == mempool \cup {t}

\* One iteration over the old blocks.  A failed data_chain_get goes unnoticed
\* and leaves the hash of the last iteration.
OldBlock ==
    /\ pc = "old"
    /\ OldLeft
    /\ hash' = IF chain[index] # Absent THEN chain[index] ELSE hash
    /\ IF hash' \in blocks
       THEN buf' = hash' /\ body' = Txs[hash'] /\ pc' = "oldtx"
       ELSE pc' = "announce" /\ UNCHANGED <<buf, body>>
    /\ UNCHANGED <<dbVars, mempool, msgVars, arrived, place, scanVars, traceVars,
                   common, latest, index>>

\* A transaction of the old block leaves the index and enters the mempool.
OldTx(t) ==
    /\ pc = "oldtx"
    /\ t \in body
    /\ txs' = [txs EXCEPT ![t] = Absent]
    /\ mempool' = ReturnTx(t)
    /\ body' = body \ {t}
    /\ UNCHANGED <<blocks, chain, limbo, levels, msgVars, pc, arrived, place,
                   scanVars, traceVars, revertVars>>

\* The old block enters limbo and stays in "chain".
OldListed ==
    /\ pc = "oldtx"
    /\ body = {}
    /\ limbo' = data_limbo_safe_add(buf)
    /\ levels' = levels \cup {Height[buf]}
    /\ index' = index - 1
    /\ pc' = "old"
    /\ UNCHANGED <<blocks, chain, txs, mempool, msgVars, blockVars, scanVars,
                   traceVars, common, latest, hash, buf>>

\* The first loop is over; the second starts from new_latest_block_hash.
OldDone ==
    /\ pc = "old"
    /\ ~ OldLeft
    /\ hash' = latest
    /\ index' = 0
    /\ pc' = "new"
    /\ UNCHANGED <<dbVars, mempool, msgVars, blockVars, scanVars, traceVars,
                   common, latest, buf>>

\* The block the second loop looks at: the result of data_blocks_get is not
\* checked, so a missing block leaves the last one in the buffer.
NewCurrent == data_blocks_get(hash, buf)

\* Blocks are told apart by height, not by hash.
AtCommon(b) == Height[b] = Height[common]

\* One iteration over the new blocks, from the highest down.
NewBlock ==
    /\ pc = "new"
    /\ ~ AtCommon(NewCurrent)
    /\ buf' = NewCurrent
    /\ body' = Txs[NewCurrent]
    /\ pc' = "newtx"
    /\ UNCHANGED <<dbVars, mempool, msgVars, arrived, place, scanVars, traceVars,
                   common, latest, hash, index>>

\* A transaction of the new block enters the index and leaves the mempool.
NewTx(t) ==
    /\ pc = "newtx"
    /\ t \in body
    /\ \E b \in IndexedUnder(buf) : txs' = [txs EXCEPT ![t] = b]
    /\ mempool' = mempool \ {t}
    /\ body' = body \ {t}
    /\ UNCHANGED <<blocks, chain, limbo, levels, msgVars, pc, arrived, place,
                   scanVars, traceVars, revertVars>>

\* The new block leaves limbo, and only then is it recorded in "chain".
NewUnlisted ==
    /\ pc = "newtx"
    /\ body = {}
    /\ limbo' = data_limbo_del(buf)
    /\ levels' = levels \cup {Height[buf]}
    /\ pc' = "record"
    /\ UNCHANGED <<blocks, chain, txs, mempool, msgVars, blockVars, scanVars,
                   traceVars, revertVars>>

NewRecord ==
    /\ pc = "record"
    /\ chain' = data_chain_safe_set(buf)
    /\ hash' = Prev[buf]
    /\ pc' = "new"
    /\ UNCHANGED <<blocks, limbo, levels, txs, mempool, msgVars, blockVars,
                   scanVars, traceVars, common, latest, buf, index>>

NewDone ==
    /\ pc = "new"
    /\ AtCommon(NewCurrent)
    /\ pc' = "announce"
    /\ UNCHANGED <<dbVars, mempool, msgVars, blockVars, scanVars, traceVars,
                   revertVars>>

\* Back in data_limbo_scan: the <inv> to all peers, then the next hash.  The
\* rest of the list, up to the count that is sent, is uninitialised memory.
Announce ==
    /\ pc = "announce"
    /\ \E curr \in data_chain_get_height :
         announced' = build_block_list(Height[trial], Height[trial] - scanHeight,
                                       curr)
    /\ pc' = "pick"
    /\ ForgetTrial
    /\ common' = Absent
    /\ latest' = Absent
    /\ hash' = Absent
    /\ buf' = Absent
    /\ index' = 0
    /\ UNCHANGED <<dbVars, mempool, asked, blockVars, scanVars>>

------------------------------------------------------------------------------
(* The specification.                                                      *)

Init ==
    /\ blocks = {Genesis}
    /\ chain = [h \in Heights |-> IF h = 0 THEN Genesis ELSE Absent]
    /\ limbo = [h \in Heights |-> {}]
    /\ levels = {}
    /\ txs = [t \in Tx |-> IF t \in Txs[Genesis] THEN Genesis ELSE Absent]
    /\ mempool = {}
    /\ asked = {}
    /\ announced = {}
    /\ pc = "idle"
    /\ arrived = Absent
    /\ place = "drop"
    /\ body = {}
    /\ scanHeight = 0
    /\ ahead = {}
    /\ todo = {}
    /\ swapped = FALSE
    /\ trial = Absent
    /\ walk = Absent
    /\ branch = {}
    /\ common = Absent
    /\ latest = Absent
    /\ hash = Absent
    /\ buf = Absent
    /\ index = 0

\* The steps of the handler that holds peers_mutex.
HandlerStep ==
    \/ \E t \in Tx : IndexTx(t)
    \/ StoreBlock
    \/ PlaceBlock
    \/ BeginScan
    \/ \E h \in Heights : ReadLevel(h)
    \/ EndScan
    \/ \E b \in Block : PickHash(b)
    \/ LevelDone
    \/ TraceStep
    \/ Chase
    \/ GiveUp
    \/ BeginRevert
    \/ OldBlock
    \/ \E t \in Tx : OldTx(t)
    \/ OldListed
    \/ OldDone
    \/ NewBlock
    \/ \E t \in Tx : NewTx(t)
    \/ NewUnlisted
    \/ NewRecord
    \/ NewDone
    \/ Announce

Next ==
    \/ \E b \in Block : ReceiveBlock(b)
    \/ \E t \in Tx : ReceiveTx(t)
    \/ HandlerStep

Spec == Init /\ [][Next]_vars

\* The process dies, from fatal() on some thread for instance, and starts
\* again: the databases are as they were left, the mempool and every local
\* are gone.
Crash ==
    /\ mempool' = {}
    /\ asked' = {}
    /\ announced' = {}
    /\ pc' = "idle"
    /\ arrived' = Absent
    /\ place' = "drop"
    /\ body' = {}
    /\ scanHeight' = 0
    /\ ahead' = {}
    /\ todo' = {}
    /\ swapped' = FALSE
    /\ trial' = Absent
    /\ walk' = Absent
    /\ branch' = {}
    /\ common' = Absent
    /\ latest' = Absent
    /\ hash' = Absent
    /\ buf' = Absent
    /\ index' = 0
    /\ UNCHANGED dbVars

CrashSpec == Init /\ [][Next \/ Crash]_vars /\ WF_vars(HandlerStep)

------------------------------------------------------------------------------
(* Properties.                                                             *)

ChainBlocks == {chain[h] : h \in ChainHeights}
ChainTxs == UNION {Txs[b] : b \in ChainBlocks}

\* Block y is below the confirmations of the chain (validation.h:23).
TooOld(y) == \E h \in ChainHeights : Height[y] + REASONABLE_CONFIRMATIONS <= h

\* Where a complete trace from b would end, and the blocks it would pass:
\* the reference the scan's own trace is compared with.
TraceStops(y) == y \notin blocks \/ TooOld(y) \/ data_chain_exists(y)

TracePath(b) ==
    LET Step[n \in 0..Cardinality(Block)] ==
            IF n = 0 THEN b
            ELSE LET y == Step[n - 1] IN IF TraceStops(y) THEN y ELSE Prev[y]
    IN  {Step[n] : n \in 0..Cardinality(Block)}

TraceTarget(b) == CHOOSE y \in TracePath(b) : TraceStops(y)

\* b is listed in limbo above the chain.
ListedAbove(b) ==
    /\ b \in limbo[Height[b]]
    /\ \A h \in ChainHeights : h < Height[b]

\* b's branch starts at a recent block of the chain and is valid.
Adoptable(b) ==
    /\ TraceTarget(b) \in blocks
    /\ ~ TooOld(TraceTarget(b))
    /\ data_chain_exists(TraceTarget(b))
    /\ {y \in TracePath(b) : ~ TraceStops(y)} \subseteq Valid

\* "All block heights in chain point to blocks listing identical block
\* heights" (validation.h:7), and those blocks are stored: the early return
\* of data_chain_safe_set is all that keeps a block that valid_block refused
\* out of the chain.
ChainStored ==
    \A h \in ChainHeights : chain[h] \in blocks /\ Height[chain[h]] = h

\* "Chain has no gaps" (validation.h:5) and is linked through prev_hash from
\* the genesis block up, except while data_blocks_revert is overwriting it.
ChainLinked ==
    pc \notin NewLoop =>
        /\ chain[0] = Genesis
        /\ \A h \in ChainHeights \ {0} : /\ chain[h - 1] # Absent
                                         /\ Prev[chain[h]] = chain[h - 1]

\* "All txs are found in specified block heights" (validation.h:8): whenever
\* no handler is active, every transaction on the chain is indexed under a
\* stored block that contains it.
IndexSound ==
    pc = "idle" =>
        \A t \in ChainTxs : txs[t] \in blocks /\ t \in Txs[txs[t]]

\* When a handler is done no valid branch that would make the chain higher
\* is left in limbo, though the scan reads the chain height only once, tries
\* stale copies of the lists and swaps at most one branch in.
LimboResolved ==
    pc = "idle" => \A b \in Block : ListedAbove(b) => ~ Adoptable(b)

\* When a handler is done it has requested the missing ancestor of every
\* branch in limbo that would be higher than the chain (README.md:313).
OrphansChased ==
    pc = "idle" =>
        \A b \in Block :
            /\ ListedAbove(b)
            /\ TraceTarget(b) \notin blocks
            => TraceTarget(b) \in asked

\* The transactions of the block that data_blocks_revert is about to record:
\* from data_mempool_del (data.c:207) to data_chain_safe_set (214) neither the
\* mempool nor the chain has them.
InHand == IF pc \in {"newtx", "record"} THEN Txs[buf] ELSE {}

Held == ChainTxs \cup mempool \cup InHand

\* No step loses a transaction: what the chain, the mempool or the block that
\* is being recorded holds, one of them holds afterwards, through both loops
\* of a revert and with <tx> messages in between.
TxConserved == [][Held \subseteq Held']_vars

\* A block that leaves the chain is listed in limbo, unless the block that
\* takes its place and others had filled its level.
DisplacedListed ==
    [][\A h \in ChainHeights :
         chain'[h] # chain[h] =>
             \/ chain[h] \in limbo[h]
             \/ Cardinality(limbo[h] \cup {chain'[h]}) >= LevelCap]_vars

\* Every handler returns and releases peers_mutex.
HandlerFinishes == (pc # "idle") ~> (pc = "idle")

\* Facts about the handler's locals that the invariants above rest on: what
\* each step of the handler may assume was stored before it.
LocalsStored ==
    /\ pc \in {"index", "place"} => arrived \in Block
    /\ pc = "trace" => /\ branch \subseteq blocks
                       /\ trial \in branch \cup {walk}
    /\ pc \in {"trace", "announce"} \cup OldLoop \cup NewLoop => trial \in Block
    /\ pc \in OldLoop \cup NewLoop => common \in blocks /\ latest \in blocks
    /\ pc = "oldtx" => buf \in blocks /\ index > Height[common]
    /\ pc = "new" => NewCurrent \in blocks
    /\ pc \in {"newtx", "record"} => buf \in blocks

\* The blocks recorded up to height `top` are linked.
LinkedTo(top) ==
    /\ chain[0] = Genesis
    /\ \A h \in ChainHeights \ {0} :
          h <= top => chain[h - 1] # Absent /\ Prev[chain[h]] = chain[h - 1]

\* What the trace has established about the branch it passed through.
BranchTraced ==
    /\ branch \subseteq blocks
    /\ trial \in branch \cup {walk}
    /\ \A b \in branch : Prev[b] \in branch \cup {walk}
    /\ branch \subseteq Valid /\ walk \in Block =>
           \A b \in branch : Height[b] > Height[walk]

\* Above the block the second loop is about to record, the new blocks it
\* has recorded so far are linked down to that block.
LinkedFrom(b) ==
    \A h \in ChainHeights :
        /\ h = Height[b] + 1 => Prev[chain[h]] = b
        /\ h > Height[b] + 1 => /\ chain[h - 1] # Absent
                                /\ Prev[chain[h]] = chain[h - 1]

\* What the scan and the revert rely on for the chain to be linked again at
\* the end.
RevertSound ==
    /\ \A h \in Heights : \A b \in limbo[h] : Height[b] = h
    /\ pc \in {"idle", "index", "place", "begin", "level"} => todo = {}
    /\ pc \in {"index", "place"} /\ place = "append" =>
           /\ \A h \in ChainHeights : h < Height[arrived]
           /\ Height[arrived] - 1 \in ChainHeights
           /\ Prev[arrived] = chain[Height[arrived] - 1]
    /\ \A b \in todo : Height[b] > scanHeight
    /\ pc = "trace" => Height[trial] > scanHeight
    /\ pc \in {"level", "pick", "trace"} /\ ~ swapped =>
           \A h \in ChainHeights : h <= scanHeight
    /\ pc \in {"trace"} \cup OldLoop \cup NewLoop => BranchTraced
    /\ pc \in OldLoop \cup NewLoop =>
           /\ common = walk /\ latest = trial
           /\ branch \subseteq Valid
           /\ data_chain_exists(common)
           /\ LinkedTo(Height[common])
    /\ pc \in {"announce"} \cup OldLoop \cup NewLoop => swapped
    /\ pc \in OldLoop => \A h \in ChainHeights : h < Height[trial]
    /\ pc \in NewLoop => hash \in branch \cup {common} /\ LinkedFrom(hash)
    /\ pc \in {"newtx", "record"} => buf = hash /\ hash # common

\* The chain as a reader that waits for the end of a revert sees it: from
\* the start of its second loop on, the branch being swapped in.
SettledChain ==
    IF pc \notin NewLoop \/ "revert_args" \notin Repaired THEN chain
    ELSE [h \in Heights |->
             IF h <= Height[common] THEN chain[h]
             ELSE IF \E b \in branch : Height[b] = h
             THEN CHOOSE b \in branch : Height[b] = h
             ELSE Absent]

\* Between them the handlers keep the promise of BestChain: a revert counts
\* as one step although it rewrites the chain block by block.
Best == INSTANCE BestChain WITH chain <- SettledChain, stored <- blocks
ImplementsBestChain == Best!BestSpec

==============================================================================
