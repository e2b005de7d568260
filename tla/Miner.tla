-------------------------------- MODULE Miner --------------------------------
(***************************************************************************)
(* The loop of mine.c that keeps a work block on top of the chain, next to *)
(* the threads that change the chain and the mempool under it.  The miner  *)
(* takes no lock: it reads the chain's height and then the hash recorded   *)
(* there, and the mempool's size and then its transactions, while a        *)
(* handler extends the chain or data_blocks_revert overwrites it from the  *)
(* new tip down.                                                           *)
(*                                                                         *)
(* The chain is the one Ledger maintains: the block at height h lists that *)
(* height, no height is skipped and a revert makes the chain higher.  The  *)
(* mempool is the array Mempool maintains.  The integers of the header are *)
(* read back as they were written (a big-endian host, util.c:62).          *)
(***************************************************************************)
EXTENDS Integers, Sequences

CONSTANTS
    MaxHeight,   \* bound on the height of the chain
    Fork,        \* rival blocks at one height
    Tx,          \* transactions
    Coinbase,    \* the transaction that pays the miner
    MempoolCap,  \* MAX_MEMPOOL_SIZE, in transactions
    BlockCap,    \* MAX_BLOCK_SIZE, in transactions
    Repaired     \* the statements taken with their evident correction

\* fill_index: new transactions are taken from the start of the mempool, not
\*   from where the last round stopped (mine.c:145);
\* miner_locks: the mempool's mutex is not taken (mine.c:144 to 146).
Statements == {"fill_index", "miner_locks"}

Heights == 0..MaxHeight

\* A block is identified by its height and which of the rivals it is.
Hashes == Heights \X Fork
Absent == <<>>

ASSUME MinerConstants ==
    /\ MaxHeight \in Nat
    /\ Fork # {}
    /\ Coinbase \notin Tx
    /\ MempoolCap \in Nat
    /\ BlockCap \in Nat \ {0}
    /\ Repaired \subseteq Statements

VARIABLES
    chain,        \* the hash recorded at each height
    swap,         \* the blocks a revert has still to record
    mempool,
    pc,
    height,       \* latest_block_height
    latest,       \* latest_block_hash
    work,         \* the work block
    cmp_height,   \* the height read for the stale check
    diff,
    i

envVars == <<chain, swap, mempool>>
vars == <<envVars, pc, height, latest, work, cmp_height, diff, i>>

TipHeight == CHOOSE h \in Heights :
                 /\ chain[h] # Absent
                 /\ \A k \in Heights : k > h => chain[k] = Absent
Tip == chain[TipHeight]

Init ==
    /\ \E f \in Fork :
           chain = [h \in Heights |-> IF h = 0 THEN <<0, f>> ELSE Absent]
    /\ swap = {}
    /\ mempool = <<>>
    /\ pc = "height"
    /\ height = 0
    /\ latest = Absent
    /\ work = [height |-> 0, prev |-> Absent, root |-> <<>>, txs |-> <<>>]
    /\ cmp_height = 0
    /\ diff = 0
    /\ i = 0

------------------------------------------------------------------------------
(* The other threads.                                                      *)

minerVars == <<pc, height, latest, work, cmp_height, diff, i>>

Record(b) == chain' = [chain EXCEPT ![b[1]] = b]

\* A handler appends a block.
Extend(f) ==
    /\ swap = {}
    /\ TipHeight < MaxHeight
    /\ Record(<<TipHeight + 1, f>>)
    /\ UNCHANGED <<swap, mempool, minerVars>>

\* A handler starts to swap in a branch that leaves the chain below `low` and
\* ends above its tip.
BeginRevert(low, top, f) ==
    /\ swap = {}
    /\ low <= TipHeight
    /\ TipHeight < top
    /\ swap' = (low..top) \X {f}
    /\ UNCHANGED <<chain, mempool, minerVars>>

\* It records the next block of the branch, from the highest down.
RecordNext ==
    /\ \E b \in swap : /\ \A c \in swap : c[1] <= b[1]
                       /\ Record(b)
                       /\ swap' = swap \ {b}
    /\ UNCHANGED <<mempool, minerVars>>

\* The miner holds the mempool's mutex.
Locked == "miner_locks" \in Repaired /\ pc = "fill"

\* The handler of <tx> adds a transaction below the cap, a revert without one.
PoolAdd(t) ==
    /\ ~ Locked
    /\ Len(mempool) < MempoolCap \/ swap # {}
    /\ \A n \in DOMAIN mempool : mempool[n] # t
    /\ mempool' = Append(mempool, t)
    /\ UNCHANGED <<chain, swap, minerVars>>

\* A revert deletes a transaction; the last one takes its place.
PoolDel(n) ==
    /\ ~ Locked
    /\ swap # {}
    /\ mempool' = [m \in 1..(Len(mempool) - 1) |->
                      IF m = n THEN mempool[Len(mempool)] ELSE mempool[m]]
    /\ UNCHANGED <<chain, swap, minerVars>>

------------------------------------------------------------------------------
(* The loop of main.                                                       *)

\* Starting a new block: the height first, then the hash.
ReadHeight ==
    /\ pc = "height"
    /\ height' = TipHeight
    /\ pc' = "hash"
    /\ UNCHANGED <<envVars, latest, work, cmp_height, diff, i>>

\* Fault: the tip's hash is read, whatever height was read before.
FaultyHashRead == Tip

HashRead == chain[height]

ReadHash ==
    /\ pc = "hash"
    /\ latest' = HashRead
    /\ pc' = IF HashRead = Absent THEN "dead" ELSE "header"
    /\ UNCHANGED <<envVars, height, work, cmp_height, diff, i>>

\* A block that is given a transaction past its cap is fatal.
block_add_tx(block, t) == [block EXCEPT !.txs = Append(@, t)]
Overflows(block) == Len(block.txs) >= BlockCap

NextHeight == height + 1

\* The header, with a merkle root of zeros, and the coinbase transaction.
SetHeader ==
    /\ pc = "header"
    /\ work' = block_add_tx([height |-> NextHeight, prev |-> latest,
                             root |-> <<>>, txs |-> <<>>], Coinbase)
    /\ pc' = "stale"
    /\ UNCHANGED <<envVars, height, latest, cmp_height, diff, i>>

\* Fault: the height read when the block was started is used again.
FaultyCheckHeight == height

CheckHeight == TipHeight

StaleHeight ==
    /\ pc = "stale"
    /\ cmp_height' = CheckHeight
    /\ pc' = "compare"
    /\ UNCHANGED <<envVars, height, latest, work, diff, i>>

\* The mempool's size less the transactions taken before, coinbase aside.
Wanted == Len(mempool) - (Len(work.txs) - 1)

StaleCompare ==
    /\ pc = "compare"
    /\ IF chain[cmp_height] = latest
       THEN /\ diff' = Wanted
            /\ i' = 0
            /\ pc' = "fill"
       ELSE /\ pc' = "height"
            /\ UNCHANGED <<diff, i>>
    /\ UNCHANGED <<envVars, height, latest, work, cmp_height>>

\* The slot the next transaction is taken from.
NextSlot == IF "fill_index" \in Repaired THEN Len(work.txs) - 1 ELSE i

\* data_mempool_get returns NULL past the end, which block_add_tx reads.
FillTx ==
    /\ pc = "fill"
    /\ i < diff
    /\ IF NextSlot >= Len(mempool) \/ Overflows(work)
       THEN pc' = "dead" /\ UNCHANGED <<work, i>>
       ELSE /\ work' = block_add_tx(work, mempool[NextSlot + 1])
            /\ i' = i + 1
            /\ UNCHANGED pc
    /\ UNCHANGED <<envVars, height, latest, cmp_height, diff>>

FillDone ==
    /\ pc = "fill"
    /\ i >= diff
    /\ pc' = "mine"
    /\ UNCHANGED <<envVars, height, latest, work, cmp_height, diff, i>>

\* mine(): nonces are tried until one is found, which is printed, or until
\* the time is up.  The work block stays.
Mine ==
    /\ pc = "mine"
    /\ pc' = "stale"
    /\ UNCHANGED <<envVars, height, latest, work, cmp_height, diff, i>>

MinerStep ==
    \/ ReadHeight
    \/ ReadHash
    \/ SetHeader
    \/ StaleHeight
    \/ StaleCompare
    \/ FillTx
    \/ FillDone
    \/ Mine

Next ==
    \/ \E f \in Fork :
           \/ Extend(f)
           \/ \E low, top \in Heights \ {0} : BeginRevert(low, top, f)
    \/ RecordNext
    \/ \E t \in Tx : PoolAdd(t)
    \/ \E n \in DOMAIN mempool : PoolDel(n)
    \/ MinerStep

\* The miner keeps running, and so does a revert that was started.
Spec == Init /\ [][Next]_vars /\ WF_vars(MinerStep) /\ WF_vars(RecordNext)

------------------------------------------------------------------------------
(* Properties.                                                             *)

TypeOK ==
    /\ chain \in [Heights -> Hashes \cup {Absent}]
    /\ swap \subseteq Hashes
    /\ mempool \in Seq(Tx)
    /\ pc \in {"height", "hash", "header", "stale", "compare", "fill", "mine",
               "dead"}
    /\ height \in Heights
    /\ latest \in Hashes \cup {Absent}
    /\ work.height \in 0..(MaxHeight + 1)
    /\ work.prev \in Hashes \cup {Absent}
    /\ work.root = <<>>
    /\ work.txs \in Seq(Tx \cup {Coinbase})
    /\ cmp_height \in Heights
    /\ diff \in Int
    /\ i \in Nat

Started == pc \in {"stale", "compare", "fill", "mine"}

\* The work block names a predecessor one below its own height (README.md:349)
\* although height and hash are read one after the other while the chain is
\* extended or half overwritten.
HeaderSound == TypeOK /\ (Started => work.prev[1] + 1 = work.height)

\* Once the chain no longer changes the miner works on its tip for good: the
\* comparison of hashes notices every extension and every revert.  All that
\* can end it is a block that is full when the mempool holds more
\* (blocks.c:79), never a transaction or a hash it does not find.
Converges == <>[](\/ Started /\ work.prev = Tip
                  \/ pc = "dead" /\ Overflows(work))

==============================================================================
