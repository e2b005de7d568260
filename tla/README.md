# A TLA+ development of freecoin

freecoin is an unfinished peer-to-peer currency node in C (`src/src`, headers in
`src/include`, protocol description in `src/README.md`). This directory holds
TLA+ modules of the parts that decide which blocks the node keeps, in which
order they make up its chain, what the miner works on, how nodes exchange
blocks and how all of it is laid out in bytes; TLC configurations that check
them on small instances; and TLAPS proofs of their safety properties.
`PROJECT.json` maps every definition to the source lines it stands for.

## 1. The system

| component | state | operations | talks to |
|---|---|---|---|
| ledger databases (`data.c`) | `blocks` (hash → block), `chain` (height → hash), `limbo` (height → list of hashes), `txs` (transaction → block) | `data_blocks_add`, `data_chain_safe_set`, `data_limbo_safe_add`/`_del`, `data_limbo_scan`, `data_blocks_revert` | called by the `<block>` handler; read without a lock by the miner |
| limbo levels (`array.c`) | length-prefixed arrays inside `limbo` records | add, delete, find | ledger |
| mempool (`data.c`, `build.c`) | slot array, count, mutex | add, delete, exists, get, `build_mempool_list` | `<tx>`, `<mempool>` handlers, the revert, the miner |
| message handlers (`network.c`) | one thread per peer; `peers_mutex` | `<getblocks>`, `<inv>`, `<getdata>`, `<block>`, `<tx>`, `<mempool>`, … | everything above |
| list building (`build.c`) | none | lists of block and transaction hashes | handlers, scan |
| joining (`network.c`) | peer table, `server_ready`, `peers_mutex` | `join_network`, server and client threads | start of `main` |
| miner (`mine/mine.c`, `blocks.c`) | work block, copies of the tip's height and hash | restart on a stale tip, take transactions, search a nonce | chain and mempool, unlocked |
| merkle root (`transactions.c`) | array of hash buffers and a spare | `compute_merkle_root` | work block |
| work block (`blocks.c`, `transactions.c`, `shared.h`) | one buffer of bytes: a header at fixed positions, transactions behind it | `block_add_header`, `block_add_tx`, `block_inc_nonce`, `block_compute_size` (and `block_update_root`, which nothing calls) | miner |
| framing (`network.c`, `shared.h`) | a receiving buffer per connection | `sendto_peer`, the loop on `recvfrom`, the version check | every handler |
| validation (`validation.c`) | none | trace of a branch to the chain; the rest is empty | scan |
| targets (`blockchain.c`, `bignum.c`) | none | `compute_next_target`, `big_mult`, `big_compare` | miner |
| bytes (`util.c`) | none | integers and hexadecimal text to bytes and back | everything that is stored or sent |
| sha256 (`crypto.c`) | a context: buffer, length in bits, state | `sha256_init`, `_update`, `_final` | `mine` |
| queue (`queue.c`), printing, tests | | | |

**What is hard.** Each connection has a thread; the `<block>` handler holds
`peers_mutex` while it stores a block, scans limbo and possibly rewrites the
chain block by block, but `<tx>` handlers (another mutex), the mempool callers
inside the revert (no mutex at all) and the miner (no mutex at all) run in
between. Nothing is transactional, so a crash can fall between any two records
that are written.
Blocks arrive in any order and more than once. Several loops ignore the result
of a read and go on with what their buffer held. Counters are bytes. The
complete list, with source lines and the properties that cover it, is
`hazards` in `PROJECT.json`.

**What makes it correct.** The chain is a gapless, linked line of stored blocks
(`validation.h:5-8`), it is only replaced by a higher one (`README.md:238`), no
adoptable branch is left in limbo (`README.md:304-309`), no transaction gets
lost in a revert, the mempool behaves as a set under its mutex, the miner ends
up on the tip with a coherent header, a joining node catches up and the
exchange ends, and the in-place merkle computation equals its definition.
Beneath these: bytes written through the positions of `shared.h` are read back
as the record they stand for, messages arrive whole and in order, a limbo level is the set the ledger takes it for, and the
pure functions compute what their names say.

## 2. How the code is read

The repository does not compile. The modules follow these rules.

* **Names and arguments that only keep the code from compiling** are the ones they
  evidently stand for: `data_limbo_add` is `data_limbo_safe_add`, `hash` at
  `data.c:236` is `block_hash`, `mempool->size` is `count`; `data_chain_exists`
  without its height (`validation.c:30`) is asked about the block's own height. A
  missing argument that would be data read from nowhere is a statement of its own
  (`index_hash` below).
* **Empty or undeclared functions** are nondeterministic or parameters:
  `valid_block` has no body and answers anything in `Ledger`; `is_valid_chain`
  does not exist and is the constant set `Valid`.
* **As written, or corrected.** Some statements, taken literally, defeat the
  function they are in (a block passed where a hash is expected, an
  uninitialised maximum). Checking only the literal program would stop at the
  first of them. Each module therefore has a set `Statements` of such places and
  a constant `Repaired ⊆ Statements`: outside `Repaired` a statement means
  what is written, inside it its evident correction. Passing runs repair all of a
  module's statements and ask whether the *design* works; §6 says what TLC finds
  with a statement as written. Everything else is as written in every run,
  oddities included (ignored return values, the miner's own loops, heights compared
  instead of hashes). A fault that no correction of one statement would remove is
  not corrected: the property it breaks is checked by a run that is expected to
  find the violation (`ledger_crash_gap`, `ledger_index`, `wire_stream`), or the
  property says exactly in which case it fails (`SlotsSound`, `DisplacedListed`,
  `Converges`).
* **`Repaired = {}`** is the program as far as one module looks at it. What another
  module is about is taken there in its corrected form: `Ledger` takes a level of
  limbo for a capped set (`LimboLevel` has the faults of `array.c` and of
  `data.c:432`) and the mempool for a set, `Sync` takes the chain and limbo that
  `Ledger` maintains with its corrections, and `Sync` and `Ledger` exchange
  messages that arrive as they were built (`Wire`).
* **Uninitialised reads** and racing accesses are a choice over possible values.
* **Data** is abstracted to identities: a hash is a model value, a block is its
  hash with `Height`, `Prev` and `Txs` as functions of it. Berkeley DB, pthreads
  and sockets are external. The genesis block is in the database at the start
  (no code creates it).
* **Byte order.** `Bytes` has the conversions of `util.c:60-88` for either kind
  of host; the modules that use it run with a little-endian one. The modules
  above it exchange numbers. In `Ledger` the order of limbo's keys is that of
  their bytes (`LimboKey`, with the byte's radix `ByteBase`).
* **Widths.** Where a module is about bytes, the values of a byte are a
  parameter (`Radix`), so that a counter of four bytes wraps within reach while
  every field keeps its width and position.

## 3. The modules

### Ledger, BestChain

`Ledger` is `data.c` and the `<block>` and `<tx>` handlers. The databases are
`blocks`, `chain`, `limbo` (with `levels`, the heights that have a record,
possibly an empty one), `txs` and, as a set, `mempool`. As `peers_mutex`
admits one `<block>` handler at a time, its program counter and locals are plain
variables, and a step writes one record of one database:

| action | code |
|---|---|
| `ReceiveBlock`, `IndexTx`, `StoreBlock`, `PlaceBlock` | the handler up to the scan: `valid_block`, the transactions one by one, the block, then `limbo` or `chain` (`network.c:189-224`, `data.c:232-262`) |
| `ReceiveTx` | a `<tx>` on another thread |
| `BeginScan`, `ReadLevel`, `EndScan`, `PickHash`, `LevelDone` | the cursor loop of `data_limbo_scan` and the loop over a copied level |
| `TraceStep`, `Chase`, `GiveUp` | tracing back with the cutoff of `validation.c:28`, and the request for where the trace ended |
| `BeginRevert`, `OldBlock`, `OldTx`, `OldListed`, `OldDone` | `data_blocks_revert`, the loop over the old blocks |
| `NewBlock`, `NewTx`, `NewUnlisted`, `NewRecord`, `NewDone` | its loop over the new blocks |
| `Announce` | the `<inv>` afterwards |
| `Crash` | process death and restart: databases stay, mempool and locals go |

Two writes are one step only in `OldTx` and `NewTx`: the record in `txs` and the
change of the mempool for one transaction. No thread reads `txs` in between (the
`<inv>` of transactions asks for existence and keeps nothing), and a crash forgets
the mempool, so the order of the two cannot be seen.

`BestChain` is the abstract specification: one line of linked stored blocks that
is replaced by a strictly higher one in a single step. `Ledger` implements it
through `SettledChain`, which shows the finished branch from the start of the
revert's second loop on.

### Mempool, MempoolSet

`Mempool` is the slot array with the check, the slot write and the count update
as separate steps of separate threads: connections that take the mutex, and the
reverting thread that, as written, does not. `count++` may or may not reread
`count`. The handler of a `<getdata>` of transactions goes through its hashes
one at a time with the mutex held (`SendTx`). The number of slots is a parameter that
nothing in the code relates to the cap or to the transactions there are: a write to
the slot behind the last is `AddOverrun`, after which the thread is lost. `MempoolSet`
is the set `Ledger` takes the mempool for.

### Miner

The loop of `main` with each unlocked read a step of its own, next to an
environment that extends the chain, swaps a branch in from the top down (the
order of `Ledger`'s `NewRecord`) and changes the mempool, under the cap for a `<tx>` and
without one for a revert. The environment obeys what `Ledger` establishes: a revert
ends on a higher chain, by one block or more.

### Sync

A node and its peers with FIFO connections and the `<getblocks>` → `<inv>` →
`<getdata>` → `<block>` exchange, including the list ends of
`build_block_list`, the one-byte loop bound of the `<getdata>` handler, and
peers that announce their tip early. The scan goes from level to level
(`ScanSwap`, `ScanChase`, `ScanDone`) with `peers_mutex` held while the other
connections go on. One branch only, so that a block is its height; rival branches,
the steps of a revert and the trace's cutoff are `Ledger`'s subject. `valid_block`
accepts.

### Startup

`join_network`, `start_client_conn` and `server_listener`, with the connection
threads reduced to what they do with `peers_mutex` and with their peer: a
`<block>` or a `<getdata>` of nodes locks and unlocks it, a closed connection
frees the peer. `fatal` on any thread ends the process (`alive`).

### Merkle, MerkleTree

`compute_merkle_root` with slots as pointers and buffers as memory; the level is
overwritten in place through exchanges with a spare buffer. `MerkleTree` is the
definition in the comment above the function.

### Bytes, WorkBlock, BlockRecord

`WorkBlock` is the buffer of the work block, cell by cell at the positions of
`shared.h`, with the functions of `blocks.c` that `mine.c` calls and the layout of transactions;
the order of the calls is that of `mine.c`. A cell holds a byte, or a number
outside `Byte` that stands for a byte of a hash or of a transaction's body.
`BlockRecord` is what the miner takes the buffer for: a record with a nonce that
counts and a list that grows below a limit. `ReadBlock` reads the buffer as the
node's readers do: numbers and hashes at their positions, and behind the header the
transaction whose bytes are at each cursor (`Holds`, `TxAt`). Through it `WorkBlock`
implements `BlockRecord`.

### Wire, Channel

One direction of a connection: `sendto_peer`, TCP's stream and the receiving loop up
to the dispatch. The loop takes what one `recvfrom` returns for one message and reads
it out of a buffer that it never clears, as far as the count or the size in the content
says. `Channel` is the FIFO of whole messages that `Sync` uses. `Boundaries` is a
parameter of the transport, not a correction: with it a `recvfrom` returns what one
`sendto` handed over, which TCP does not promise but often does on an idle
connection; without it any number of bytes. The bytes of one `sendto` stay together.

### Sha256

`sha256_init`, `sha256_update` byte by byte and the padding of `sha256_final`, on
a context that is used again. The state stands for the bytes passed to
`sha256_transform`, so equality with the padded message is equality of digests.
Block, word and byte sizes are parameters; a byte of `Bits` bits has `Radix` values.

The specification of `Sha256` is called `ContextSpec` and that of `WorkBlock`
`BlockSpec`: they are proved about next to those of `Algorithms` and `Merkle`.

### Algorithms and its operator modules

`LimboLevel` (`array.c`), `Trace` (`validation.c`), `Bignum` (`bignum.c`),
and `Hex` (`util.c:10-44`) hold functions without state of their own. `Algorithms` takes a level of limbo through every sequence of
additions and deletions beside the set it should hold, and calls the others with
every argument in bounds. `Bignum` has a step of `big_mult`'s inner loop (`AddAt`), the
loop (`AddRow`) and the loop around it, with `Value` for what the digits stand for.
`Digits` says what a byte counts for in a number, for `Bignum` and `Sha256`.
`compute_next_target`, which calls `Bignum`'s functions, is not modelled (§7).

## 4. The runs

`cd tla && tlc -config X.cfg M`, with `M` the `MC` module of the run.

| run | checks | bounds |
|---|---|---|
| `ledger` | type invariant; chain linked; limbo resolved; orphans requested; transactions conserved; displaced blocks listed; refinement of `BestChain` | rival branches of length 2 and 3, a block that lies about its height, two transactions shared across branches and one of them twice on a line (as a coinbase is), level cap 2 and mempool cap 1 (both reached), 3 confirmations (a chain of height 3 reaches the cutoff) |
| `ledger_crash` | `ChainStored` with a crash between any two record writes; every handler returns | branches of length 1 and 3, 2 confirmations |
| `block` | two sequential components one after the other: in-place writing, root, refinement of `MerkleTree` (whose fairness makes every level follow: the computation ends); then the work block's buffer implements `BlockRecord` | 1 to 11 transactions: odd levels at the leaves (3, 5, 7, 9, 11), one level up (6, 10) and twice in a row (3, 5, 11); bytes of radix 2: the nonce wraps at 16, a count of one byte at 2; two headers in turn in one buffer, transactions of different sizes, of which the limit admits three |
| `mempool` | slots sound and overrun only when all are in use, answers to `<mempool>` and `<getdata>` right, calls take effect and lose nothing, refinement of `MempoolSet`, mutex released | 2 connections, the revert, 4 transactions, cap 4, 3 slots: as in the code the slots run out below the cap |
| `miner` | header coherent; the miner ends on the tip, or dies of a full block and of nothing else | heights to 3, two rivals per height, reverts that raise the chain by one or two, 2 transactions, cap 1, a block of 2: what a revert adds overflows it |
| `sync` | nothing held back, catches up, comes to rest, requests served | two peers of heights 2 and 1; a byte of 64 values, so that a list of 2 hashes is where `network.c:149` wraps (8 with 256) |
| `startup` | one first peer, no thread waits for its own mutex, `join_network` returns, the mutex is always released | 3 attempts to connect, 2 accepted connections |
| `wire` | refinement of `Channel` over a transport that keeps boundaries, the version check | 3 messages of a `<ping>`, an `<inv>` of one or two hashes and a `<block>`, so that shorter ones follow longer ones in the buffer; a peer of version 1 or 17 |
| `algorithms` | a limbo level is a capped set; trace, product, order and hexadecimal text are right; streaming and padding of sha256 equal the definition, with a context used again | 4 hashes in a level of 3; chains to height 4 with 2 confirmations and branches of 3; numbers of 2 digits; all 256 bytes; blocks of 6 bytes, words of 2, bytes of 2 bits, messages to 13 bytes: up to 4 blocks, both sides of the boundary where the length needs a block of its own, and a low word that wraps |
| `ledger_crash_gap` | violation: a crash in the revert's second loop leaves a chain that is not linked | as `ledger_crash` |
| `ledger_index` | violation: a revert takes a transaction that is in two blocks of a line out of the index | two branches over a block whose transaction the old one repeats |
| `wire_stream` | violation: without boundaries the handlers are given messages nobody sent | as `wire`, 2 messages, every cut of the stream |

The type invariant of a module is listed in its run or a conjunct of the run's
first invariant (`SlotsSound`, `HeaderSound`, `NothingHeldBack`, `VersionChecked`,
`HashesPadded`); those of `Merkle` and `Startup` are part of their proofs only.

Deadlock is checked in `ledger`, `ledger_crash` and `algorithms`. The others may
stop: `block` and `sync` end, in `startup`, `mempool` and `miner` the process or a
thread may die, in `wire` the connection is closed.

**Why the bounds suffice.** In `ledger` every action and both outcomes of every
test occur, a revert leaves two old blocks and brings three new ones, both caps and
the trace's cutoff are met. A longer branch repeats loop iterations the proofs cover for
every length. In `sync` two peers are the least that send the same block twice, and the
list of a peer at height 2 is as long as the loop bound wraps at.

**Fairness.** `HandlerStep` (Ledger): the thread that holds `peers_mutex` keeps
running; `Step(th)` (Mempool): a thread keeps running once it has its lock, no
fairness for getting one; `MinerStep`, `RecordNext` (Miner): both loops run until
they exit; `Join`, `PeerReads`, `NodeReads`, `Scan` (Sync): each connection thread loops
on `recvfrom`, its handlers run on, and TCP delivers (a thread waits for `peers_mutex`
only while a scan runs, which ends); `MainStep`, `Listen`, `HandlerStep` (Startup): the
threads run and the user answers the prompt, and (strongly fair) the scheduler
does not keep `main` off `peers_mutex` for ever while connections lock and unlock
it, the one assumption about pthreads beyond mutual exclusion;
`ReceiverStep` (Wire): TCP delivers and the receiving loop runs;
`Next` (Merkle): sequential code runs. Arrivals of messages, extensions of the
chain and crashes are never assumed.

**Mutants.** The `Faulty…` operators are plausible bugs of the definitions they
precede, one for each property of each passing run; with one in place TLC finds
the property violated.

## 5. The proofs

Every theorem holds for every value of the constants that its module's
assumptions admit; the hypotheses beyond those are named below. Each theorem
about a run's property is checked on the run's instance as well.

### LedgerProofs

* `LedgerTyped`: `Spec => []TypeOK`, for every `Repaired`.
* `LedgerChainStored`: the chain points only at stored blocks that list that
  height, for every `Repaired`, with crashes and without. Inductive invariant:
  `Safety = TypeOK ∧ ChainStored ∧ LocalsStored`; the last is needed because
  the revert records what its buffers hold (`NewCurrent` is a stored block even
  when `data_blocks_get` failed).
* `LedgerChainLinked`, with all statements repaired, and so all that follow: the
  chain is gapless and linked whenever no second loop of a revert is running.
  `ChainLinked` alone is not inductive: it says nothing while the loop runs.
  `RevertSound` adds what is true then: the branch was traced from the trial down
  to `common` and rises by one block per step, the trial is above everything
  recorded, the chain is linked up to `common` (`LinkedTo`) and, above the block
  to be recorded next, the new blocks are linked down to it (`LinkedFrom`). When
  the loop reaches `common` the two parts meet. The argument uses that the scan
  swaps only once: a second swap would rest on a stale `scanHeight`.
* `LedgerBestChain`: `Ledger` implements `BestChain`. `LineInv` adds that the
  branch has one block at each height from `common` to the trial, and that what is
  recorded of it so far agrees with what `SettledChain` shows; so the second loop
  stutters, and only `OldDone` is a step to a higher chain.
* `LedgerTxConserved`, `LedgerDisplacedListed`: no single write of a revert loses a
  transaction, and a displaced block is in limbo unless its level was full. Between
  `data_mempool_del` (`data.c:207`) and `data_chain_safe_set` (`214`) a transaction may
  be in neither database; it is then in the block that is about to be recorded
  (`InHand`), which is what the property counts and a reader of the databases does not
  see (§6). `ReturnInv` follows the first loop down: the blocks it has passed have their
  transactions in the mempool or in the new branch and are listed. Blocks may share
  transactions in any way.
* `LedgerLimboResolved`, `LedgerOrphansChased`: when a handler is done no valid branch
  in limbo that starts at a recent block of the chain would make it higher, and what the
  branches above the chain lack has been requested. Both properties speak of the path a
  trace would take, a recursive function, and of the cutoff `REASONABLE_CONFIRMATIONS`
  (`TooOld`). The invariant (`ScanInv`) speaks instead of sets of blocks closed under
  going one block back (valid, stored and leading to a recent block of the chain; or
  leading to a missing block), which a trace cannot leave (`TraceSound`); every block
  the scan has passed is judged by them (`ScanSound`), and the scan comes down in the
  order of heights (`ScanOrder`). Lemmas about `TracePath` then relate the sets to the
  path. Heights are unbounded: with `key_order` corrected the order of keys is that of
  heights. Hypotheses: finitely many blocks; for the second theorem `Acyclic`, that no
  block is its own ancestor, which a block's hash ensures.

`IndexSound` is no theorem: it is false (`ledger_index`).

### SyncProofs

* `SyncNothingHeldBack`, for any peers, heights and list size and every `Repaired`:
  when a scan is through limbo keeps no block that the chain could take. `SyncInv` says
  what the scan has established so far: every level it has passed has a gap below it
  (`Taken`), no listed block lies between the chain it started from and the chain
  (`Unlisted`), so that stopping at `base` leaves nothing out although it is read once;
  and which messages can be under way (`MailTyped`).
* `SyncRequestsServed`, with `max_width`, for any heights and lists of any length: only
  the peer itself shortens the queue to it (`OthersAdd`), and its loop visits every hash
  of the list (`VisitedIs`), which is where the width of `max` matters.

What a loop keeps of a list (`Kept`) is defined by ranks and not by recursion:
`KeptIs` then follows from the theorems on cardinality, without induction.

### MempoolProofs

With the mutex taken by the revert (`revert_locks`) and the slots written that the
functions mean (`add_data`, `del_last`):

* `MempoolSlotsSound`, for any number of slots: the slots in use hold different
  transactions, and a thread writes past the array only when every slot is in use.
  Inductive invariant: `TypeOK ∧ Distinct` and, for each thread, `Local`: past
  its lock it owns the mutex, so that nobody else is past one (`Alone`), and what it
  has read still holds (between the check and the write the transaction is in no
  slot; between the write and the count the slot behind the last holds it). That a
  full array holds as many transactions as slots is `FullArray`.
* `MempoolImplementsSet`, `MempoolCallsTakeEffect`: from the same invariant, each
  step adds or deletes one transaction of the set, or nothing, and a call that
  returns has had its effect.
* `MempoolAnswersSound`, with all statements repaired: the answers are what the
  mempool holds. `Reply` says what a connection's thread has collected so far.

### MinerProofs

`MinerHeaderSound`, for every `Repaired`: height and hash are read apart and still
fit, because a recorded height is never cleared and every block is recorded at its
own height (`ChainSound`, `HeaderRead`).

### StartupProofs

`StartupTyped` for every `Repaired`: the invariant says where each thread can be
(`Places`).
`StartupNoSelfWait`, with `break_unlock`: `Held` says at which steps a thread owns
`peers_mutex`. `StartupOneFirstPeer`, with `connfd_set`: a successful attempt is the
only client that ever runs.

### WireProofs

With all statements repaired and a transport that keeps boundaries, for any messages
that have the size they announce and either byte order:

* `WireImplementsChannel`: `sendto_peer` submits a message, a handler's call delivers
  the next one that was submitted, and every other step leaves the channel alone.
* `WireVersionChecked`: a peer of this version is never turned away and no handler runs
  for another one.

The invariant (`Owed`): what is under way are the frames of the messages sent and not
yet received, and while a message is being parsed the buffer starts with its frame
(`AtFront`), whatever an earlier one left behind it. What the handler then reads as the
size is the size of that message (`SizeRead`), so it reads nothing else (`ContentRead`);
reversing the bytes of the version twice gives it back (`TwiceReversed`).

### MerkleProofs

`MerklePointers`, `MerkleInPlace` and `MerkleRefines` (any number of transactions,
any hash function): each level the buffers hold is the one `MerkleTree` gives, and
the result is its last hash. `InPlace` needs distinct pointers, or a write through
slot `k` could change slot `i ≥ 2k`.

`WorkBlockIsRecord`, for any radix, either byte order of the host, any size of a block
and any headers and transactions: `WorkBlock` implements `BlockRecord`, with the four
statements corrected that misread the buffer (`ReadsCorrected`), so no write disturbs
another field, nothing of an earlier block shows, and the transactions found are those
added, in order. `RecordInv` says that the header's numbers are bytes once it was begun
and has the body (`BodyOf`): the cursors form a walk from the end of the header, at each
of them stands the next transaction, and the last one is the size that
`block_compute_size` finds. Adding a transaction continues the walk; any two walks over
the same cells agree (`WalkUnique`) and no two transactions can be at one address
(`TxFound`), so the list found is the list extended. Hypotheses: `TxsMarked` (a
transaction has an input or an output: two bare headers can be equal byte for byte) and
`CountFits` (a block holds no more bytes than a count of four can say, which holds for
the sizes of `shared.h`).

### AlgorithmsProofs

`LevelsAreCappedSets` (the statements of `array.c` corrected): a level lists each hash
of the capped set once, after any calls. `TracesAnswer` (those of `validation.c`): the
trace ends and answers what its contract says, for chains and branches of any length.

`BytesAreExact` (the statements of `bignum.c` and `util.c` corrected), for every radix
and numbers of any length: `big_mult` computes the product, `big_compare` the order,
hexadecimal text is read back. The invariant of a row: what the result stands for plus
the carry at its place is what it stood for before plus the products added so far. A
sum of a carry, a digit and a product stays below the square of the radix, so the 16
bits suffice; and the carry at the end of a row is zero, because the partial product
fits the joint width of the operands. This is why the loop may drop it.

`Sha256HashesPadded`, for every block, word and byte size that `Sha256Constants` admits
and any number of messages through one context: what `sha256_transform` is given is the
padded message. `ShaInv` says that before `sha256_final` whole blocks of the message
have been hashed, the rest is in the buffer and the two words count the bits of what was
hashed (`Streaming`), and afterwards that `hashed` is the padded message. The steps that
carry it: `DBL_INT_ADD` carries exactly when the low word wraps; a block that the last
byte fills is hashed at once, so there is always room for the stop bit; and the digits
of the two words are the digits of the length.

The loops in these proofs are recursive functions. That such a function exists follows
from `Recursion` and what it returns is found as the least index at which a claim would
fail or the loop stops (`LeastNumber`), so no theorem on induction is needed.

### Assumptions on constants

`LedgerConstants`, `ValidHeights` (a block that validation accepts is one higher than
its predecessor, `README.md:349`), `MaxTxPositive`, `MempoolConstants`, `MinerConstants`, `StartupConstants`, `BytesConstants`,
`WireConstants` (every content has the size its fixed part announces and fits the
buffer with its header), `SyncConstants`, `AlgorithmsConstants` (a radix of at least
2), `WorkBlockConstants` (what stands for a hash or a transaction is no byte, and every
number fits its field), `Sha256Constants` (a block has room for the length and one byte
more, its bits fit a word, and the bits of a message fit two).

### Only model-checked

* all liveness (the prover does not handle fairness): `HandlerFinishes`,
  `CallersReturn`, `MutexReleased`, `Converges`, `CatchesUp`, `Quiet`, `JoinReturns`,
  and that `Merkle` implements the fair `MerkleTree` (`ImplementsTree`; the
  part without fairness is `MerkleRefines`).

Every invariant, every action property and every other refinement that a passing run
checks is a theorem too.

## 6. What the modelling showed about the code

Three disagreements have runs of their own, which `findings` quotes: a revert is not
atomic (`ledger_crash_gap`, `validation.h:5`); a revert takes the coinbase that two
blocks of one miner share out of the index while one of them stays on the chain
(`ledger_index`, `validation.h:8`); one `recvfrom` is not one message (`wire_stream`,
`README.md:20,23`). The following can be reproduced by taking a name out of `Repaired`
in a passing configuration; TLC then finds a property of that run violated.

| place | as written | reproduce with |
|---|---|---|
| `data.c:214,320`, `network.c:219` | `data_chain_safe_set` looks a block up as a hash and records nothing; `README.md:302` | `Ledger`, without `safe_set`: `TxConserved` |
| `data.c:326-327` | it records the height under the hash, where it is looked up the other way round | without `chain_record`: `TxConserved` |
| `data.c:396` | the height is read out of a record that holds a hash | without `height_record`: `OrphansChased` |
| `data.c:392` | uninitialised maximum: the scan may start above every branch | without `highest`: `OrphansChased` |
| `data.c:204` | `data_txs_add` without its block | without `index_hash`: no property but `IndexSound`, which fails anyway |
| `data.c:500-504` | little-endian keys: the scan stops at a low height; `README.md:304` | without `key_order`, `ByteBase = 3`: `OrphansChased` |
| `validation.c:27` | the test of validity guards the trace, the wrong way round | without `valid_if`: `OrphansChased` |
| `validation.c:26` | a missing block is traced for ever | without `missing_block`: deadlock, and `HandlerFinishes` in `ledger_crash` |
| `validation.c:28` | below the number of confirmations the difference wraps and nothing is recent | without `confirm_wrap`: `OrphansChased` |
| `data.c:514` | arguments exchanged: no branch is ever swapped in; `README.md:307` | without `revert_args`: `HandlerFinishes` in `ledger_crash` |
| `data.c:523` | dangling else: the missing ancestor is not requested; `README.md:313` | without `dangling_else`: `OrphansChased` |
| `data.c:176` | the revert adds to and deletes from the mempool without its mutex and corrupts the slots; `data.c:569-570` | `Mempool`, without `revert_locks` |
| `network.c:163` | a byte offset is compared with the number of hashes, so a `<getdata>` of one or two transactions is answered with none; `README.md:284-285` | without `getdata_bound`: `AnswersSound` |
| `network.c:166` | that offset is taken for a slot, past the last one: a null pointer is followed | without `get_index`: `AnswersSound` |
| `data.c:595-597`, `618`, `623-625`, `build.c:48` | the added transaction is never copied; the slot's struct is taken for its hash; the hole is filled from one past the end | `Mempool`, without `add_data`, `slot_hash`, `del_last` |
| `mine.c:145` | a second round takes the first transactions again | `Miner`, without `fill_index` |
| `mine.c:144-146` | unlocked reads: `data_mempool_get` may return NULL | without `miner_locks`: `Converges` |
| `network.c:207-211` | a block that is not the next one is requested from its sender again, arrives again and is requested again, for ever; the correction requests its predecessor ("Find missing block"); `README.md:293-294` | `Sync`, without `request_own`: `Quiet` |
| `network.c:204` | block 2 over the genesis block is stored but not listed, and the node stays at height 1; `README.md:293` | `Sync`, without `height_two`: `CatchesUp` |
| `network.c:149` | `count * SIZE_SHA256` in a `uchar`: a `<getdata>` of 8 blocks is answered with none, so a node that is 8 behind does not catch up; `README.md:278-280` | without `max_width`: `RequestsServed`, `CatchesUp` |
| `network.c:35` | the first loop is left with `peers_mutex` held and `join_network` waits for itself | `Startup`, without `break_unlock`: `NoSelfWait`, `JoinReturns` |
| `network.c:23-60,78,308` | uninitialised count and descriptor, a loop with no exit, `fatal` in every connection thread | `Startup`, without the statement |
| `build.c:37` | hashes are copied onto themselves, the list stays empty | `Sync`, without `list_dest` |
| `util.c:64,73` | `ntohl` on a number in host order: on a little-endian host the nonce takes few values and counts are misread; `util.c:60` | `WorkBlock`, without `byte_order`: `ImplementsRecord` |
| `blocks.c:88` | the address of the count is taken for the count, and it is kept in a byte | without `count_address`, `count_byte`: `ImplementsRecord` |
| `blockchain.c:28` | the target's byte is read with three of the nonce's | without `target_byte`: `ImplementsRecord` |
| `network.c:362-363` | the content overwrites version and type, two bytes are not sent | `Wire`, without `send_body` |
| `network.c:358` | the version's high byte is always 0, so version 17 (at radix 16) passes for 1 | without `version_shift`: `VersionChecked` |
| `network.c:108-241` | content is read from the start of the message, where the header is | without `body_offset`: `ImplementsChannel` |
| `data.c:431-435` | a level without a record has an uninitialised length | `Algorithms`, without `absent_level`: `LevelIsCappedSet` |
| `array.c:17,21-22,26,32,35,39` | the overflow check multiplies by the size of a hash, the loops run past the length, `memcmp` is taken the wrong way round, the new length is lost with the copy of the struct | without `overflow_check`, `loop_bound`, `memcmp_sense`, `count_store` |
| `validation.c:26-28` | the test of validity has no body, a missing block is traced for ever, the confirmations wrap; `validation.h:20-27` | without `valid_if`, `missing_block`, `confirm_wrap`: `TraceAnswers` |
| `bignum.c:10-16` | both operands are read past their ends | without `mult_bounds`: `BytesExact` |
| `bignum.c:32` | the least significant byte decides; `bignum.c:3` | without `compare_order`: `BytesExact` |
| `util.c:42` | the low nibble is not masked | without `nibble_mask`: `BytesExact` |

Visible in the modules without a run: the mempool's array has 500 slots
(`data.c:105`, `shared.h:43`), but `<tx>` is capped at a number of bytes (`build.c:66`,
`network.c:231`) and a revert not at all (`data.c:176`), so the 501st transaction is
written past it (`data.c:599`; `AddOverrun` in `mempool`); in the same way the
transactions and the coinbase may exceed the block, which is fatal (`blocks.c:79`;
reached in `miner`); between `data.c:207` and `214` a transaction of the block being
recorded is neither in the mempool nor on the chain, and a `<mempool>`, a `<tx>` or the
miner meanwhile finds it in neither; a `<tx>` for it is taken again and stays in the
mempool; nothing writes the merkle root, since `block_update_root` has no caller
(`mine.c:145-149`, `README.md:351`); the list announced after a revert starts
after the new tip and so is empty (`data.c:519`, `README.md:308`); transactions
of blocks in limbo are indexed (`data.c:248`, `README.md:411-413`); a block that
is appended leaves its transactions in the mempool (`network.c:219`,
`README.md:236`); a full limbo level drops a displaced block (`data.c:436`); an
`<inv>` of transactions is compared with the index of blocks' transactions and not
with the mempool, so what is waiting there is requested again (`build.c:73`,
`README.md:274`), and `build_mempool_list` returns no count (`build.c:43-51`); the
digest's copy has its shifts commented out, so each word gives its low byte four
times (`crypto.c:143-150`); `big_mult` clears and writes 64 bytes of a buffer of
36, and its second operand is mostly uninitialised (`blockchain.c:59-68`); a
recalculation divides by 2, marked to be made a constant (`blockchain.c:63`), the bounds of an interval are 5040 and 80640
while 144 blocks of 600 s make 86400 s (`shared.h:169-177`), and the interval is 144
blocks where `README.md:352` says 2016; the
thread of the first peer frees it while the table of peers points to it
(`network.c:265`), and accepted peers are never entered there (`network.c:301-308`,
`README.md:289`).

## 7. Not modelled, and the plan

Of the code that keeps state or computes, the following is left out:

* the `<inv>` of transactions (`network.c:135-141`, `build.c:67-78`): it looks up
  an index without a lock and answers; no state depends on it;
* the rounds of `sha256_transform` (a fixed function of its arguments; nothing
  smaller than the function itself says what it should compute) and the copy of
  the digest;
* `compute_next_target` and `block_update_root`: the first rests on `big_div`, which is
  empty, and on conversions that do not exist, so what it computes is not in the source; the second has no caller;
* `big_div`, `target_to_etarget`, `is_valid_chain`, `valid_block`, `succeed`: empty
  or missing, so there is nothing to translate;
* `queue.c`: nothing uses it; `data_nodes_*`: a stub;
* printing, the stand-alone socket examples, the old Python implementation, the
  test program (it states no expectation);
* sockets, pthreads and Berkeley DB: external, modelled from their use.

What remains worth doing follows the code: the division and the conversion of targets
and the validation of blocks, once they are written; reassembly of messages in
`Wire`, once the receiving loop has it; `IndexSound`, once the index keeps more than one
block per transaction or a coinbase is unique. The liveness
properties could be proved with a prover that handles fairness.
