------------------------------- MODULE Mempool -------------------------------
(***************************************************************************)
(* The mempool of data.c: an array of slots, a count of the slots in use   *)
(* and a mutex that the functions leave to their callers.  The callers are *)
(* the handlers of <tx>, <mempool> and <getdata>, one thread per           *)
(* connection, which take the mutex, and the thread that runs              *)
(* data_blocks_revert, which does not.  There is one of those at a time,   *)
(* because it holds peers_mutex.                                           *)
(*                                                                         *)
(* A statement that defeats the purpose of its function is modelled both   *)
(* ways: as written, and with its evident correction when its name is in   *)
(* Repaired.                                                               *)
(***************************************************************************)
EXTENDS Integers, FiniteSets, Sequences

CONSTANTS
    Tx,           \* transactions, told apart by their hashes
    Junk,         \* what a hash of uninitialised memory looks like
    Null,         \* no transaction: an empty slot, no owner of the mutex
    Conn,         \* threads that run handle_connection
    Reverter,     \* the thread that runs data_blocks_revert
    MempoolCap,   \* MAX_MEMPOOL_SIZE
    SlotCount,    \* TX_COUNT_SOFT_LIMIT: the slots allocated
    MaxIds,       \* the most hashes a peer asks for at once
    Repaired      \* the statements taken with their evident correction

\* revert_locks: data_blocks_revert does not take the mempool's mutex
\*   (data.c:173 to 177, 205 to 207);
\* add_data: data_mempool_add hashes tx.data, which it never filled
\*   (data.c:595 to 597);
\* slot_hash: data_mempool_del and build_mempool_list take the memory of the
\*   slot's struct for the hash it points to (data.c:618, build.c:48);
\* del_last: data_mempool_del fills the hole from the slot after the last
\*   (data.c:623 to 625);
\* getdata_bound: the handler of <getdata> compares the offset of a hash in
\*   the message with the number of hashes (network.c:163);
\* get_index: it takes that offset for the index of a slot (network.c:166).
Statements == {"revert_locks", "add_data", "slot_hash", "del_last",
               "getdata_bound", "get_index"}

Thread == Conn \cup {Reverter}
Slots  == 0..(SlotCount - 1)

ASSUME MempoolConstants ==
    /\ Reverter \notin Conn
    /\ Null \notin Thread
    /\ {Null, Junk} \cap Tx = {}
    /\ Null # Junk
    /\ MempoolCap \in Nat
    /\ SlotCount \in Nat
    /\ MaxIds \in Nat
    /\ Repaired \subseteq Statements

VARIABLES
    mutex,    \* its owner
    txs,      \* mempool->txs
    count,    \* mempool->count
    pc,       \* of each thread
    arg,      \* the transaction it adds or deletes
    size,     \* the count it has read
    spot,     \* the slot it has found or reads next
    list,     \* hashes build_mempool_list collects, or transactions sent
    ids       \* the hashes of a <getdata>

vars == <<mutex, txs, count, pc, arg, size, spot, list, ids>>

\* The transactions in the slots in use.
Pool == {txs[i] : i \in {i \in Slots : i < count}} \cap Tx

Init ==
    /\ mutex = Null
    /\ txs = [i \in Slots |-> Null]
    /\ count = 0
    /\ pc = [th \in Thread |-> "idle"]
    /\ arg = [th \in Thread |-> Null]
    /\ size = [th \in Thread |-> 0]
    /\ spot = [th \in Thread |-> 0]
    /\ list = [th \in Thread |-> {}]
    /\ ids = [th \in Thread |-> <<>>]

Goto(th, step) == pc' = [pc EXCEPT ![th] = step]

------------------------------------------------------------------------------
(* The callers.                                                            *)

Free == mutex = Null

\* Where the handler of a <tx> continues: past the cap it is ignored.
TxStep == IF count < MempoolCap THEN "add" ELSE "unlock"

\* A <tx> arrives.
ReceiveTx(c, t) ==
    /\ pc[c] = "idle"
    /\ Free
    /\ mutex' = c
    /\ arg' = [arg EXCEPT ![c] = t]
    /\ Goto(c, TxStep)
    /\ UNCHANGED <<txs, count, size, spot, list, ids>>

\* A <mempool> arrives: build_mempool_list reads the count once.
ReceiveMempool(c) ==
    /\ pc[c] = "idle"
    /\ Free
    /\ mutex' = c
    /\ size' = [size EXCEPT ![c] = count]
    /\ spot' = [spot EXCEPT ![c] = 0]
    /\ list' = [list EXCEPT ![c] = {}]
    /\ Goto(c, "list")
    /\ UNCHANGED <<txs, count, arg, ids>>

\* A <getdata> of transactions arrives.
ReceiveGetdata(c, hashes) ==
    /\ pc[c] = "idle"
    /\ Free
    /\ mutex' = c
    /\ ids' = [ids EXCEPT ![c] = hashes]
    /\ Goto(c, "getdata")
    /\ UNCHANGED <<txs, count, arg, size, spot, list>>

\* data_blocks_revert takes a transaction of an old block back or drops one
\* of a new block.
Revert(t, step) ==
    /\ pc[Reverter] = "idle"
    /\ IF "revert_locks" \in Repaired THEN Free /\ mutex' = Reverter
                                      ELSE UNCHANGED mutex
    /\ arg' = [arg EXCEPT ![Reverter] = t]
    /\ Goto(Reverter, step)
    /\ UNCHANGED <<txs, count, size, spot, list, ids>>

\* The caller is done.
Unlock(th) ==
    /\ pc[th] = "unlock"
    /\ mutex' = IF mutex = th THEN Null ELSE mutex
    /\ arg' = [arg EXCEPT ![th] = Null]
    /\ size' = [size EXCEPT ![th] = 0]
    /\ spot' = [spot EXCEPT ![th] = 0]
    /\ list' = [list EXCEPT ![th] = {}]
    /\ ids' = [ids EXCEPT ![th] = <<>>]
    /\ Goto(th, "idle")
    /\ UNCHANGED <<txs, count>>

------------------------------------------------------------------------------
(* data_mempool_add.                                                       *)

\* Fault: the last slot in use is never looked at.
FaultyInUse(i) == i + 1 < count

\* The slots the loops of data_mempool_exists and data_mempool_del visit.
InUse(i) == i < count

data_mempool_exists(t) == \E i \in Slots : InUse(i) /\ txs[i] = t

AddCheck(th) ==
    /\ pc[th] = "add"
    /\ Goto(th, IF data_mempool_exists(arg[th]) THEN "unlock" ELSE "write")
    /\ UNCHANGED <<mutex, txs, count, arg, size, spot, list, ids>>

\* The slot is written.
AddWrite(th) ==
    /\ pc[th] = "write"
    /\ count \in Slots
    /\ txs' = [txs EXCEPT ![count] =
                  IF "add_data" \in Repaired THEN arg[th] ELSE Junk]
    /\ size' = [size EXCEPT ![th] = count]
    /\ Goto(th, "count")
    /\ UNCHANGED <<mutex, count, arg, spot, list, ids>>

\* All slots are in use, and nobody has looked: data_blocks_revert has no
\* cap, and that of <tx> (build.c:66) is far above SlotCount.  Memory past the
\* array is written; what the program does then is undefined, not followed.
AddOverrun(th) ==
    /\ pc[th] = "write"
    /\ count \notin Slots
    /\ Goto(th, "overrun")
    /\ UNCHANGED <<mutex, txs, count, arg, size, spot, list, ids>>

\* Fault: the increment is forgotten.
FaultyKept(th) == {count}

\* count++: another thread may have changed count since th read it, and the
\* compiled code may or may not read it again.
Raised(th) == {size[th] + 1, count + 1}

AddCount(th) ==
    /\ pc[th] = "count"
    /\ count' \in Raised(th)
    /\ Goto(th, "unlock")
    /\ UNCHANGED <<mutex, txs, arg, size, spot, list, ids>>

------------------------------------------------------------------------------
(* data_mempool_del.                                                       *)

\* The hash data_mempool_del and build_mempool_list find in slot i.
SlotHash(i) == IF "slot_hash" \in Repaired THEN txs[i] ELSE Junk

\* The first slot that matches, if there is one.
DelFind(th) ==
    /\ pc[th] = "del"
    /\ size' = [size EXCEPT ![th] = count]
    /\ LET found == {i \in Slots : InUse(i) /\ SlotHash(i) = arg[th]}
       IN  IF found = {}
           THEN Goto(th, "unlock") /\ UNCHANGED spot
           ELSE /\ \E i \in found : /\ \A j \in found : i <= j
                                    /\ spot' = [spot EXCEPT ![th] = i]
                /\ Goto(th, "move")
    /\ UNCHANGED <<mutex, txs, count, arg, list, ids>>

\* Fault: the hole is filled from the slot after the last.
FaultyLastSlot(th) == size[th]

\* The slot that fills the hole.
LastSlot(th) == IF "del_last" \in Repaired THEN size[th] - 1 ELSE size[th]

\* count-- and the move.  Reading past the array finds no transaction.
DelMove(th) ==
    /\ pc[th] = "move"
    /\ count' \in {size[th] - 1, count - 1}
    /\ LET last  == LastSlot(th)
           moved == IF last \in Slots THEN txs[last] ELSE Null
       IN  txs' = [i \in Slots |-> IF i = last THEN Null
                                   ELSE IF i = spot[th] /\ count' > 0 THEN moved
                                   ELSE txs[i]]
    /\ Goto(th, "unlock")
    /\ UNCHANGED <<mutex, arg, size, spot, list, ids>>

------------------------------------------------------------------------------
(* build_mempool_list.                                                     *)

\* Fault: the last hash is left out.
FaultyListEnd(c) == spot[c] + 1 >= size[c]

ListEnd(c) == spot[c] >= size[c]

\* Fault: the index of the loop is not advanced.
FaultyListSlot(c) ==
    /\ pc[c] = "list"
    /\ ~ ListEnd(c)
    /\ list' = [list EXCEPT ![c] = @ \cup {SlotHash(spot[c])}]
    /\ UNCHANGED <<mutex, txs, count, pc, arg, size, spot, ids>>

ListSlot(c) ==
    /\ pc[c] = "list"
    /\ ~ ListEnd(c)
    /\ list' = [list EXCEPT ![c] = @ \cup {SlotHash(spot[c])}]
    /\ spot' = [spot EXCEPT ![c] = @ + 1]
    /\ UNCHANGED <<mutex, txs, count, pc, arg, size, ids>>

ListDone(c) ==
    /\ pc[c] = "list"
    /\ ListEnd(c)
    /\ Goto(c, "unlock")
    /\ UNCHANGED <<mutex, txs, count, arg, size, spot, list, ids>>

------------------------------------------------------------------------------
(* The answers to <getdata>.                                               *)

\* Where hash n of the message starts.
Offset(n) == 2 + 32 * n

\* Fault: the last hash is passed over.
FaultyMoreIds(c) == spot[c] + 1 < Len(ids[c])

MoreIds(c) == IF "getdata_bound" \in Repaired THEN spot[c] < Len(ids[c])
              ELSE Offset(spot[c]) < Len(ids[c])

data_mempool_get(index) == IF index \in Slots /\ index < count THEN txs[index]
                                                              ELSE Null

\* The index the handler passes for hash t.
GetIndex(c, t) == IF "get_index" \in Repaired
                  THEN CHOOSE i \in Slots : InUse(i) /\ txs[i] = t
                  ELSE Offset(spot[c])

\* The next hash is looked up and its transaction sent.
SendTx(c) ==
    /\ pc[c] = "getdata"
    /\ MoreIds(c)
    /\ LET t == ids[c][spot[c] + 1]
       IN  list' = [list EXCEPT ![c] =
                       IF data_mempool_exists(t)
                       THEN @ \cup {data_mempool_get(GetIndex(c, t))} ELSE @]
    /\ spot' = [spot EXCEPT ![c] = @ + 1]
    /\ UNCHANGED <<mutex, txs, count, pc, arg, size, ids>>

SendDone(c) ==
    /\ pc[c] = "getdata"
    /\ ~ MoreIds(c)
    /\ Goto(c, "unlock")
    /\ UNCHANGED <<mutex, txs, count, arg, size, spot, list, ids>>

------------------------------------------------------------------------------
(* The specification.                                                      *)

\* What a peer may ask for.
Requests == UNION {[1..n -> Tx] : n \in 1..MaxIds}

Step(th) ==
    \/ Unlock(th)
    \/ AddCheck(th)
    \/ AddWrite(th)
    \/ AddOverrun(th)
    \/ AddCount(th)
    \/ DelFind(th)
    \/ DelMove(th)
    \/ ListSlot(th)
    \/ ListDone(th)
    \/ SendTx(th)
    \/ SendDone(th)

Next ==
    \/ \E c \in Conn : \/ ReceiveMempool(c)
                       \/ \E t \in Tx : ReceiveTx(c, t)
                       \/ \E hashes \in Requests : ReceiveGetdata(c, hashes)
    \/ \E t \in Tx : Revert(t, "add") \/ Revert(t, "del")
    \/ \E th \in Thread : Step(th)

Spec == Init /\ [][Next]_vars

\* Every thread keeps running once it is past its lock.
FairSpec == Spec /\ \A th \in Thread : WF_vars(Step(th))

------------------------------------------------------------------------------
(* Properties.                                                             *)

TypeOK ==
    /\ mutex \in Thread \cup {Null}
    /\ txs \in [Slots -> Tx \cup {Null, Junk}]
    /\ count \in 0..SlotCount
    /\ pc \in [Thread -> {"idle", "add", "write", "count", "del", "move",
                          "list", "getdata", "unlock", "overrun"}]
    /\ arg \in [Thread -> Tx \cup {Null}]
    /\ size \in [Thread -> 0..SlotCount]
    /\ spot \in [Thread -> Nat]
    /\ list \in [Thread -> SUBSET (Tx \cup {Null, Junk})]
    /\ ids \in [Thread -> Requests \cup {<<>>}]

\* The slots in use hold transactions, each a different one: nothing is read
\* through a null pointer, sent twice or mined twice.  This is what the
\* mutex is for (data.c:569 to 573): a caller that did not take it could
\* add or delete between another's check and its write.  No slot is lost
\* either: memory past the array is written (data.c:599) only when the
\* mempool holds as many transactions as there are slots.
SlotsSound ==
    /\ TypeOK
    /\ \A i, j \in Slots :
           i < count /\ j < count =>
               txs[i] \in Tx /\ (txs[i] = txs[j] => i = j)
    /\ \A th \in Thread : pc[th] = "overrun" => Cardinality(Pool) = SlotCount

\* What a call was made for has happened when it returns, whatever the other
\* threads did meanwhile: a transaction that was added is found, its slot and
\* count not written over; one that was deleted is gone, though the hole was
\* filled from another slot (README.md:236); and none leaves but the one
\* data_blocks_revert deletes.
CallsTakeEffect ==
    [][/\ \A th \in Thread : pc[th] = "count" /\ pc'[th] = "unlock"
                                  => arg[th] \in Pool'
       /\ pc[Reverter] \in {"del", "move"} /\ pc'[Reverter] = "unlock"
              => arg[Reverter] \notin Pool'
       /\ \A t \in Pool \ Pool' :
              pc[Reverter] = "move" /\ arg[Reverter] = t]_vars

\* A peer is told what the mempool holds: the list in answer to <mempool> is
\* all of it, and a <getdata> brings each requested transaction that is there
\* and no other, whatever order deletions have left the slots in
\* (build.c:43 to 50, network.c:159 to 173).
AnswersSound ==
    \A c \in Conn :
        pc[c] = "unlock" /\ arg[c] = Null =>
            /\ size[c] > 0 => list[c] = Pool
            /\ ids[c] # <<>> =>
                   list[c] = {ids[c][n] : n \in 1..Len(ids[c])} \cap Pool

\* The slots behave as the set of transactions that Ledger uses.
PoolSet == INSTANCE MempoolSet WITH pool <- Pool
ImplementsSet == PoolSet!SetSpec

\* Every caller that has taken the mutex releases it, unless it has written
\* past the array.
CallersReturn ==
    \A th \in Thread : (pc[th] # "idle" \/ mutex = th) ~>
                           \/ pc[th] = "idle" /\ mutex # th
                           \/ pc[th] = "overrun"

==============================================================================
