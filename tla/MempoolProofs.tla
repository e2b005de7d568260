---------------------------- MODULE MempoolProofs ----------------------------
(***************************************************************************)
(* For any transactions, connections, slots and caps: with the mutex taken *)
(* by the revert, too, and the statements of data_mempool_add and _del     *)
(* corrected, the slots in use hold different transactions and the array   *)
(* is overrun only when all of it is in use; up to there it implements the *)
(* set Ledger takes the mempool for, every call has its effect, and the    *)
(* answers to <mempool> and <getdata> are right.                           *)
(***************************************************************************)
EXTENDS Mempool, FiniteSetTheorems, TLAPS

\* The slots in use hold transactions, each a different one.
Distinct ==
    \A i, j \in Slots :
        i < count /\ j < count => txs[i] \in Tx /\ (txs[i] = txs[j] => i = j)

\* No slot in use holds t.
Fresh(t) == \A i \in Slots : i < count => txs[i] # t

\* What a thread relies on at each step: it alone is past the lock, and what
\* it read of the mempool is still so.
Local(th) ==
    /\ pc[th] # "idle" => mutex = th
    /\ pc[th] \in {"add", "write", "count", "del", "move"} => arg[th] \in Tx
    /\ pc[th] \in {"write", "count"} => Fresh(arg[th])
    /\ pc[th] = "count" => /\ size[th] = count /\ count \in Slots
                           /\ txs[count] = arg[th]
    /\ pc[th] \in {"del", "move"} => th = Reverter
    /\ pc[th] = "move" => /\ size[th] = count /\ spot[th] \in Slots
                          /\ spot[th] < count /\ txs[spot[th]] = arg[th]
    /\ pc[th] = "list" => size[th] = count
    /\ pc[th] = "overrun" => count = SlotCount

Inv == TypeOK /\ Distinct /\ \A th \in Thread : Local(th)

Corrected == {"revert_locks", "add_data", "del_last"} \subseteq Repaired

\* Facts about the constants.
LEMMA Sizes ==
    /\ SlotCount \in Nat
    /\ Null \notin Thread /\ Null \notin Tx /\ Junk \notin Tx
    /\ Reverter \in Thread /\ Conn \subseteq Thread
  BY MempoolConstants DEF Thread

\* A full array holds as many transactions as it has slots.
LEMMA FullArray ==
    ASSUME TypeOK, Distinct, count = SlotCount
    PROVE  Cardinality(Pool) = SlotCount
<1>. DEFINE D == 0..(SlotCount - 1)
            f == [i \in D |-> txs[i]]
<1>1. \A i \in D : i < count /\ txs[i] \in Tx
  BY Sizes DEF Distinct, Slots
<1>2. f \in [D -> Pool] /\ \A t \in Pool : \E i \in D : f[i] = t
  BY <1>1 DEF Pool, Slots
<1>3. \A a, b \in D : f[a] = f[b] => a = b
  BY <1>1 DEF Distinct, Slots
<1>4. f \in Bijection(D, Pool)
  BY <1>2, <1>3 DEF Bijection, Injection, IsInjective, Surjection
<1>5. IsFiniteSet(D) /\ Cardinality(D) = SlotCount
  BY Sizes, FS_Interval
<1>6. ExistsBijection(D, Pool)
  BY <1>4 DEF ExistsBijection
<1>. HIDE DEF D
<1>. QED
  BY <1>5, <1>6, FS_Bijection

\* The mutex keeps everyone else idle.
LEMMA Alone ==
    ASSUME Inv, NEW th \in Thread, pc[th] # "idle"
    PROVE  /\ mutex = th
           /\ \A other \in Thread : other # th => pc[other] = "idle"
  BY DEF Inv, Local

LEMMA NobodyIn ==
    ASSUME Inv, Free
    PROVE  \A th \in Thread : pc[th] = "idle"
  BY Sizes DEF Inv, Local, Free

LEMMA InvInit == Init => Inv
<1>. SUFFICES ASSUME Init PROVE Inv
  OBVIOUS
<1>1. TypeOK
  BY Sizes DEF Init, TypeOK, Slots
<1>2. Distinct
  BY DEF Init, Distinct, Slots
<1>3. \A th \in Thread : Local(th)
  BY DEF Init, Local
<1>. QED
  BY <1>1, <1>2, <1>3 DEF Inv

\* A message arrives and its thread takes the mutex.
LEMMA Receiving ==
    ASSUME Inv, NEW c \in Conn,
           \/ ReceiveMempool(c)
           \/ \E t \in Tx : ReceiveTx(c, t)
           \/ \E hashes \in Requests : ReceiveGetdata(c, hashes)
    PROVE  Inv'
<1>. USE Sizes, NobodyIn DEF Inv, Goto
<1>1. CASE ReceiveMempool(c)
  <2>1. TypeOK'
    BY <1>1 DEF ReceiveMempool, TypeOK
  <2>2. Distinct' /\ \A th \in Thread : Local(th)'
    BY <1>1 DEF ReceiveMempool, TypeOK, Distinct, Local
  <2>. QED
    BY <2>1, <2>2
<1>2. ASSUME NEW t \in Tx, ReceiveTx(c, t) PROVE Inv'
  <2>1. TypeOK'
    BY <1>2 DEF ReceiveTx, TxStep, TypeOK
  <2>2. Distinct' /\ \A th \in Thread : Local(th)'
    BY <1>2 DEF ReceiveTx, TxStep, TypeOK, Distinct, Local
  <2>. QED
    BY <2>1, <2>2
<1>3. ASSUME NEW hashes \in Requests, ReceiveGetdata(c, hashes) PROVE Inv'
  <2>1. TypeOK'
    BY <1>3 DEF ReceiveGetdata, TypeOK
  <2>2. Distinct' /\ \A th \in Thread : Local(th)'
    BY <1>3 DEF ReceiveGetdata, TypeOK, Distinct, Local
  <2>. QED
    BY <2>1, <2>2
<1>. QED
  BY <1>1, <1>2, <1>3

\* The revert takes the mutex.
LEMMA Reverting ==
    ASSUME Corrected, Inv, NEW t \in Tx, Revert(t, "add") \/ Revert(t, "del")
    PROVE  Inv'
<1>. USE Sizes, NobodyIn DEF Inv, Goto, Corrected
<1>0. PICK step \in {"add", "del"} : Revert(t, step)
  OBVIOUS
<1>1. TypeOK'
  <2>1. /\ mutex' = Reverter
        /\ arg' = [arg EXCEPT ![Reverter] = t]
        /\ pc' = [pc EXCEPT ![Reverter] = step]
        /\ UNCHANGED <<txs, count, size, spot, list, ids>>
    BY <1>0 DEF Revert
  <2>. QED
    BY <2>1 DEF TypeOK
<1>2. Distinct'
  BY DEF Revert, Distinct
<1>3. /\ mutex' = Reverter /\ txs' = txs /\ count' = count /\ size' = size
      /\ pc'[Reverter] \in {"add", "del"} /\ arg'[Reverter] = t
      /\ \A o \in Thread : o # Reverter => pc'[o] = pc[o]
  BY DEF Revert, TypeOK
<1>4. \A o \in Thread : pc[o] = "idle"
  BY DEF Revert
<1>5. \A o \in Thread : Local(o)'
  <2>1. Local(Reverter)'
    BY <1>3 DEF Local
  <2>2. ASSUME NEW o \in Thread, o # Reverter PROVE Local(o)'
    BY <1>3, <1>4, <2>2 DEF Local
  <2>. QED
    BY <2>1, <2>2
<1>. QED
  BY <1>1, <1>2, <1>5

\* The steps of data_mempool_add.
LEMMA Adding ==
    ASSUME Corrected, Inv, NEW th \in Thread,
           AddCheck(th) \/ AddWrite(th) \/ AddOverrun(th) \/ AddCount(th)
    PROVE  Inv'
<1>. USE Sizes DEF Inv, Goto, Corrected
<1>1. CASE AddCheck(th)
  <2>1. TypeOK'
    BY <1>1 DEF AddCheck, TypeOK
  <2>2. pc'[th] = "write" => Fresh(arg[th])
    BY <1>1 DEF AddCheck, TypeOK, data_mempool_exists, InUse, Fresh
  <2>3. Distinct'
    BY <1>1 DEF AddCheck, Distinct
  <2>4. /\ mutex = th /\ arg[th] \in Tx
        /\ \A o \in Thread : o # th => pc[o] = "idle"
    BY <1>1, Alone DEF AddCheck, Local
  <2>5. /\ pc'[th] \in {"unlock", "write"}
        /\ \A o \in Thread : o # th => pc'[o] = "idle"
    BY <1>1, <2>4 DEF AddCheck, TypeOK
  <2>6. Local(th)'
    BY <1>1, <2>2, <2>4, <2>5 DEF AddCheck, Local, Fresh
  <2>7. ASSUME NEW o \in Thread, o # th PROVE Local(o)'
    BY <2>5, <2>7 DEF Local
  <2>. QED
    BY <2>1, <2>3, <2>6, <2>7
<1>2. CASE AddWrite(th)
  <2>0. count \in Slots
    BY <1>2 DEF AddWrite
  <2>1. /\ txs' = [txs EXCEPT ![count] = arg[th]]
        /\ arg[th] \in Tx /\ Fresh(arg[th])
    BY <1>2 DEF AddWrite, Local
  <2>2. TypeOK'
    BY <1>2, <2>1 DEF AddWrite, TypeOK
  <2>3. /\ txs'[count] = arg[th]
        /\ \A i \in Slots : i < count => txs'[i] = txs[i]
    BY <2>0, <2>1 DEF TypeOK, Slots
  <2>4. Distinct'
    BY <1>2, <2>3 DEF AddWrite, Distinct
  <2>5. \A o \in Thread : Local(o)'
    <3>1. /\ mutex = th
          /\ \A o \in Thread : o # th => pc[o] = "idle"
      BY <1>2, Alone DEF AddWrite
    <3>2. /\ pc'[th] = "count" /\ size'[th] = count
          /\ \A o \in Thread : o # th => pc'[o] = "idle"
      BY <1>2, <3>1 DEF AddWrite, TypeOK
    <3>3. Fresh(arg[th])'
      BY <1>2, <2>1, <2>3 DEF AddWrite, Fresh
    <3>4. Local(th)'
      BY <1>2, <2>0, <2>1, <2>3, <3>1, <3>2, <3>3 DEF AddWrite, Local
    <3>5. ASSUME NEW o \in Thread, o # th PROVE Local(o)'
      BY <3>2, <3>5 DEF Local
    <3>. QED
      BY <3>4, <3>5
  <2>. QED
    BY <2>2, <2>4, <2>5
<1>3. CASE AddCount(th)
  <2>1. /\ count' = count + 1 /\ txs' = txs /\ count \in Slots
        /\ txs[count] = arg[th] /\ arg[th] \in Tx /\ Fresh(arg[th])
    BY <1>3 DEF AddCount, Raised, Local
  <2>2. TypeOK'
    BY <1>3, <2>1 DEF AddCount, TypeOK, Slots
  <2>3. Distinct'
    <3>. SUFFICES ASSUME NEW i \in Slots, NEW j \in Slots, i < count + 1, j < count + 1
                  PROVE  txs[i] \in Tx /\ (txs[i] = txs[j] => i = j)
      BY <2>1 DEF Distinct
    <3>1. (i < count \/ i = count) /\ (j < count \/ j = count)
      BY <2>1 DEF Slots
    <3>. QED
      BY <2>1, <3>1 DEF Distinct, Fresh
  <2>4. \A o \in Thread : Local(o)'
    BY <1>3, Alone DEF AddCount, TypeOK, Local
  <2>. QED
    BY <2>2, <2>3, <2>4
<1>4. CASE AddOverrun(th)
  <2>1. TypeOK' /\ Distinct'
    BY <1>4 DEF AddOverrun, TypeOK, Distinct
  <2>2. count = SlotCount
    BY <1>4 DEF AddOverrun, TypeOK, Slots
  <2>3. \A o \in Thread : Local(o)'
    BY <1>4, <2>2, Alone DEF AddOverrun, TypeOK, Local
  <2>. QED
    BY <2>1, <2>3
<1>. QED
  BY <1>1, <1>2, <1>3, <1>4

\* What data_mempool_del does to the slots.
LEMMA MoveEffect ==
    ASSUME Corrected, Inv, NEW th \in Thread, DelMove(th)
    PROVE  /\ size[th] = count /\ spot[th] \in Slots /\ spot[th] < count
           /\ count \in 0..SlotCount
           /\ count' = count - 1 /\ count - 1 \in Slots
           /\ txs' = [i \in Slots |-> IF i = count - 1 THEN Null
                                      ELSE IF i = spot[th] /\ count' > 0
                                      THEN txs[count - 1] ELSE txs[i]]
           /\ \A i \in Slots : i < count' =>
                 txs'[i] = IF i = spot[th] THEN txs[count - 1] ELSE txs[i]
<1>. USE Sizes DEF Inv, Corrected
<1>1. /\ size[th] = count /\ spot[th] \in Slots /\ spot[th] < count
      /\ count \in 0..SlotCount
  BY DEF DelMove, Local, TypeOK
<1>2. count' = count - 1 /\ LastSlot(th) = count - 1 /\ count - 1 \in Slots
  BY <1>1 DEF DelMove, LastSlot, Slots
<1>3. txs' = [i \in Slots |-> IF i = count - 1 THEN Null
                              ELSE IF i = spot[th] /\ count' > 0
                              THEN txs[count - 1] ELSE txs[i]]
  BY <1>2 DEF DelMove
<1>4. \A i \in Slots : i < count' =>
          txs'[i] = IF i = spot[th] THEN txs[count - 1] ELSE txs[i]
  BY <1>1, <1>2, <1>3 DEF Slots
<1>. QED
  BY <1>1, <1>2, <1>3, <1>4

\* The steps of data_mempool_del.
LEMMA Deleting ==
    ASSUME Corrected, Inv, NEW th \in Thread, DelFind(th) \/ DelMove(th)
    PROVE  Inv'
<1>. USE Sizes DEF Inv, Goto, Corrected
<1>1. CASE DelFind(th)
  <2>1. /\ pc' = [pc EXCEPT ![th] = pc'[th]]
        /\ pc'[th] \in {"unlock", "move"}
        /\ spot' = [spot EXCEPT ![th] = spot'[th]]
        /\ spot'[th] \in Nat
        /\ pc'[th] = "move" => /\ spot'[th] \in Slots /\ spot'[th] < count
                               /\ SlotHash(spot'[th]) = arg[th]
    BY <1>1 DEF DelFind, TypeOK, InUse, Slots
  <2>2. size' = [size EXCEPT ![th] = count]
    BY <1>1 DEF DelFind
  <2>3. TypeOK'
    <3>1. UNCHANGED <<mutex, txs, count, arg, list, ids>>
      BY <1>1 DEF DelFind
    <3>. QED
      BY <2>1, <2>2, <3>1 DEF TypeOK
  <2>4. Distinct'
    BY <1>1 DEF DelFind, Distinct
  <2>5. /\ arg[th] \in Tx /\ th = Reverter /\ mutex = th
        /\ \A o \in Thread : o # th => pc[o] = "idle"
    BY <1>1, Alone DEF DelFind, Local
  <2>6. \A o \in Thread : Local(o)'
    <3>1. pc'[th] = "move" => txs[spot'[th]] = arg[th]
      BY <2>1, <2>5 DEF SlotHash
    <3>2. \A o \in Thread : o # th => pc'[o] = "idle"
      BY <2>1, <2>5 DEF TypeOK
    <3>3. /\ mutex' = mutex /\ txs' = txs /\ count' = count /\ arg' = arg
          /\ size'[th] = count
      BY <1>1, <2>2 DEF DelFind, TypeOK
    <3>4. Local(th)'
      BY <2>1, <2>5, <3>1, <3>3 DEF Local
    <3>5. ASSUME NEW o \in Thread, o # th PROVE Local(o)'
      BY <3>2, <3>5 DEF Local
    <3>. QED
      BY <3>4, <3>5
  <2>. QED
    BY <2>3, <2>4, <2>6
<1>2. CASE DelMove(th)
  <2>1. /\ size[th] = count /\ spot[th] \in Slots /\ spot[th] < count
        /\ count \in 0..SlotCount
        /\ count' = count - 1 /\ count - 1 \in Slots
        /\ txs' = [i \in Slots |-> IF i = count - 1 THEN Null
                                   ELSE IF i = spot[th] /\ count' > 0
                                   THEN txs[count - 1] ELSE txs[i]]
        /\ \A i \in Slots : i < count' =>
              txs'[i] = IF i = spot[th] THEN txs[count - 1] ELSE txs[i]
    BY <1>2, MoveEffect
  <2>2. TypeOK'
    <3>1. txs' \in [Slots -> Tx \cup {Null, Junk}]
      BY <2>1 DEF TypeOK
    <3>2. count' \in 0..SlotCount
      BY <2>1 DEF Slots
    <3>. QED
      BY <1>2, <3>1, <3>2 DEF DelMove, TypeOK
  <2>3. Distinct'
    <3>. SUFFICES ASSUME NEW i \in Slots, NEW j \in Slots, i < count - 1, j < count - 1
                  PROVE  txs'[i] \in Tx /\ (txs'[i] = txs'[j] => i = j)
      BY <2>1 DEF Distinct
    <3>1. i < count /\ j < count /\ i # count - 1 /\ j # count - 1 /\ count - 1 < count
      BY <2>1 DEF Slots
    <3>2. /\ txs'[i] = IF i = spot[th] THEN txs[count - 1] ELSE txs[i]
          /\ txs'[j] = IF j = spot[th] THEN txs[count - 1] ELSE txs[j]
      BY <2>1
    <3>. QED
      BY <2>1, <3>1, <3>2 DEF Distinct
  <2>4. \A o \in Thread : Local(o)'
    BY <1>2, Alone DEF DelMove, TypeOK, Local
  <2>. QED
    BY <2>2, <2>3, <2>4
<1>. QED
  BY <1>1, <1>2

\* The steps that answer a peer, and the end of every call.
LEMMA Answering ==
    ASSUME Inv, NEW th \in Thread,
           \/ Unlock(th) \/ ListSlot(th) \/ ListDone(th)
           \/ SendTx(th) \/ SendDone(th)
    PROVE  Inv'
<1>. USE Sizes DEF Inv, Goto
<1>1. CASE Unlock(th)
  <2>1. TypeOK'
    BY <1>1 DEF Unlock, TypeOK
  <2>2. Distinct' /\ \A o \in Thread : Local(o)'
    BY <1>1, Alone DEF Unlock, TypeOK, Distinct, Local
  <2>. QED
    BY <2>1, <2>2
<1>2. CASE ListSlot(th)
  <2>1. SlotHash(spot[th]) \in Tx \cup {Null, Junk}
    <3>1. spot[th] \in Slots
      BY <1>2 DEF ListSlot, ListEnd, TypeOK, Slots
    <3>. QED
      BY <3>1 DEF SlotHash, TypeOK
  <2>2. TypeOK'
    BY <1>2, <2>1 DEF ListSlot, TypeOK
  <2>3. Distinct' /\ \A o \in Thread : Local(o)'
    BY <1>2, Alone DEF ListSlot, TypeOK, Distinct, Local, Fresh
  <2>. QED
    BY <2>2, <2>3
<1>3. CASE ListDone(th) \/ SendDone(th)
  <2>1. TypeOK'
    BY <1>3 DEF ListDone, SendDone, TypeOK
  <2>2. Distinct' /\ \A o \in Thread : Local(o)'
    BY <1>3, Alone DEF ListDone, SendDone, TypeOK, Distinct, Local, Fresh
  <2>. QED
    BY <2>1, <2>2
<1>4. CASE SendTx(th)
  <2>1. \A index : data_mempool_get(index) \in Tx \cup {Null, Junk}
    BY DEF data_mempool_get, TypeOK
  <2>2. TypeOK'
    BY <1>4, <2>1 DEF SendTx, TypeOK
  <2>3. Distinct' /\ \A o \in Thread : Local(o)'
    BY <1>4, Alone DEF SendTx, TypeOK, Distinct, Local, Fresh
  <2>. QED
    BY <2>2, <2>3
<1>. QED
  BY <1>1, <1>2, <1>3, <1>4

LEMMA InvStep ==
    ASSUME Corrected
    PROVE  Inv /\ [Next]_vars => Inv'
<1>. SUFFICES ASSUME Inv, [Next]_vars PROVE Inv'
  OBVIOUS
<1>1. CASE UNCHANGED vars
  BY <1>1 DEF Inv, TypeOK, Distinct, Local, Fresh, vars
<1>2. CASE \E c \in Conn :
              \/ ReceiveMempool(c)
              \/ \E t \in Tx : ReceiveTx(c, t)
              \/ \E hashes \in Requests : ReceiveGetdata(c, hashes)
  BY <1>2, Receiving
<1>3. CASE \E t \in Tx : Revert(t, "add") \/ Revert(t, "del")
  BY <1>3, Reverting
<1>4. CASE \E th \in Thread : Step(th)
  BY <1>4, Adding, Deleting, Answering DEF Step
<1>. QED
  BY <1>1, <1>2, <1>3, <1>4 DEF Next

\* For any transactions, connections, slots and caps, the slots in use hold
\* different transactions and the array is overrun (data.c:599) only when the
\* mempool holds as many as it has slots, once the revert takes the mutex
\* (data.c:173 to 177) and data_mempool_add and _del write the slots they
\* mean (data.c:595 to 597, 623 to 625).
THEOREM MempoolSlotsSound ==
    ASSUME Corrected
    PROVE  Spec => []SlotsSound
<1>1. Inv => SlotsSound
  BY FullArray DEF Inv, Local, Distinct, SlotsSound
<1>2. Inv /\ [Next]_vars => Inv'
  BY InvStep
<1>. QED
  BY <1>1, <1>2, InvInit, PTL DEF Spec

------------------------------------------------------------------------------
(* What the calls do to the set of transactions.                           *)

LEMMA PoolAfterCount ==
    ASSUME Inv, NEW th \in Thread, AddCount(th)
    PROVE  /\ Pool' = Pool \cup {arg[th]} /\ arg[th] \in Tx
           /\ pc' = [pc EXCEPT ![th] = "unlock"]
<1>. USE Sizes DEF Inv
<1>1. /\ count' = count + 1 /\ txs' = txs /\ count \in Slots
      /\ txs[count] = arg[th] /\ arg[th] \in Tx
      /\ pc' = [pc EXCEPT ![th] = "unlock"]
  BY DEF AddCount, Raised, Local, Goto
<1>2. \A i \in Slots : i < count + 1 <=> i < count \/ i = count
  BY <1>1 DEF Slots
<1>. QED
  BY <1>1, <1>2 DEF Pool

LEMMA PoolAfterMove ==
    ASSUME Corrected, Inv, NEW th \in Thread, DelMove(th)
    PROVE  /\ Pool' = Pool \ {arg[th]} /\ arg[th] \in Tx /\ th = Reverter
           /\ pc[th] = "move" /\ pc' = [pc EXCEPT ![th] = "unlock"]
<1>. USE Sizes DEF Inv
<1>1. /\ txs[spot[th]] = arg[th] /\ arg[th] \in Tx /\ th = Reverter
      /\ pc[th] = "move" /\ pc' = [pc EXCEPT ![th] = "unlock"]
  BY DEF DelMove, Local, Goto
<1>2. /\ spot[th] \in Slots /\ spot[th] < count /\ count \in 0..SlotCount
      /\ count' = count - 1 /\ count - 1 \in Slots
      /\ \A i \in Slots : i < count - 1 =>
            txs'[i] = IF i = spot[th] THEN txs[count - 1] ELSE txs[i]
  BY MoveEffect
<1>3. \A i \in Slots : /\ i < count <=> i < count - 1 \/ i = count - 1
                       /\ i < count - 1 => i # count - 1
  BY <1>2 DEF Slots
<1>4. \A i, j \in Slots : i < count /\ j < count =>
          txs[i] \in Tx /\ (txs[i] = txs[j] => i = j)
  BY DEF Distinct
<1>5. ASSUME NEW t \in Pool' PROVE t \in Pool \ {arg[th]}
  <2>1. PICK i \in Slots : i < count - 1 /\ txs'[i] = t /\ t \in Tx
    BY <1>2, <1>5 DEF Pool
  <2>2. CASE i = spot[th]
    BY <1>1, <1>2, <1>3, <1>4, <2>1, <2>2 DEF Pool
  <2>3. CASE i # spot[th]
    BY <1>1, <1>2, <1>3, <1>4, <2>1, <2>3 DEF Pool
  <2>. QED
    BY <2>2, <2>3
<1>6. ASSUME NEW t \in Pool, t # arg[th] PROVE t \in Pool'
  <2>1. PICK i \in Slots : i < count /\ txs[i] = t /\ t \in Tx
    BY <1>6 DEF Pool
  <2>2. i # spot[th]
    BY <1>1, <1>6, <2>1
  <2>3. CASE i = count - 1
    <3>1. spot[th] < count - 1 /\ txs'[spot[th]] = t
      BY <1>2, <1>3, <2>1, <2>2, <2>3
    <3>. QED
      BY <1>2, <2>1, <3>1 DEF Pool
  <2>4. CASE i # count - 1
    <3>1. i < count - 1 /\ txs'[i] = t
      BY <1>2, <1>3, <2>1, <2>2, <2>4
    <3>. QED
      BY <1>2, <2>1, <3>1 DEF Pool
  <2>. QED
    BY <2>3, <2>4
<1>. QED
  BY <1>1, <1>5, <1>6

\* No other step changes it.
LEMMA PoolKept ==
    ASSUME Inv, [Next]_vars,
           \A th \in Thread : ~ AddCount(th) /\ ~ DelMove(th)
    PROVE  Pool' = Pool
<1>. USE Sizes DEF Inv
<1>1. CASE \E th \in Thread : AddWrite(th)
  <2>1. PICK th \in Thread : AddWrite(th)
    BY <1>1
  <2>2. count' = count /\ \A i \in Slots : i < count => txs'[i] = txs[i]
    BY <2>1 DEF AddWrite, TypeOK, Slots
  <2>. QED
    BY <2>2 DEF Pool
<1>2. CASE ~ \E th \in Thread : AddWrite(th)
  <2>1. UNCHANGED <<txs, count>>
    BY <1>2 DEF Next, Step, vars, ReceiveMempool, ReceiveTx, ReceiveGetdata,
                Revert, Unlock, AddCheck, AddOverrun, DelFind, ListSlot, ListDone,
                SendTx, SendDone
  <2>. QED
    BY <2>1 DEF Pool
<1>. QED
  BY <1>1, <1>2

\* The slots behave as a set of transactions: each step of the array inserts
\* one transaction, removes one or leaves the set alone, although the write,
\* the count and the move are steps of their own.
THEOREM MempoolImplementsSet ==
    ASSUME Corrected
    PROVE  Spec => ImplementsSet
<1>1. Init => PoolSet!SetInit
  BY DEF Init, PoolSet!SetInit, Pool, Slots
<1>2. Inv /\ [Next]_vars =>
          [\E t \in Tx : PoolSet!Insert(t) \/ PoolSet!Remove(t)]_Pool
  <2>. SUFFICES ASSUME Inv, [Next]_vars
                PROVE  Pool' = Pool \/ \E t \in Tx : Pool' = Pool \cup {t}
                                                  \/ Pool' = Pool \ {t}
    BY DEF PoolSet!Insert, PoolSet!Remove
  <2>. QED
    BY PoolAfterCount, PoolAfterMove, PoolKept
<1>. QED
  BY <1>1, <1>2, InvInit, InvStep, PTL DEF Spec, ImplementsSet, PoolSet!SetSpec

\* A call has done what it was made for when it returns: what was added is
\* found, what was to be deleted is gone and nothing else has left, whatever
\* the other threads do.
THEOREM MempoolCallsTakeEffect ==
    ASSUME Corrected, "slot_hash" \in Repaired
    PROVE  Spec => CallsTakeEffect
<1>. DEFINE Added == \A th \in Thread : pc[th] = "count" /\ pc'[th] = "unlock"
                                            => arg[th] \in Pool'
            Deleted == pc[Reverter] \in {"del", "move"} /\ pc'[Reverter] = "unlock"
                           => arg[Reverter] \notin Pool'
            Others == \A t \in Pool \ Pool' :
                          pc[Reverter] = "move" /\ arg[Reverter] = t
<1>1. Inv /\ [Next]_vars => [Added /\ Deleted /\ Others]_vars
  <2>. SUFFICES ASSUME Inv, Next PROVE Added /\ Deleted /\ Others
    OBVIOUS
  <2>. USE Sizes DEF Inv
  <2>1. ASSUME NEW th \in Thread, AddCount(th) PROVE Added /\ Deleted /\ Others
    <3>1. /\ Pool' = Pool \cup {arg[th]} /\ pc' = [pc EXCEPT ![th] = "unlock"]
          /\ pc[th] = "count"
      BY <2>1, PoolAfterCount DEF AddCount
    <3>2. \A o \in Thread : o # th => pc[o] = "idle"
      BY <3>1, Alone
    <3>. QED
      BY <3>1, <3>2 DEF TypeOK
  <2>2. ASSUME NEW th \in Thread, DelMove(th) PROVE Added /\ Deleted /\ Others
    <3>1. /\ Pool' = Pool \ {arg[th]} /\ th = Reverter
          /\ pc[th] = "move" /\ pc' = [pc EXCEPT ![th] = "unlock"]
      BY <2>2, PoolAfterMove
    <3>2. \A o \in Thread : o # th => pc[o] = "idle"
      BY <3>1, Alone
    <3>. QED
      BY <3>1, <3>2 DEF TypeOK
  <2>3. ASSUME \A th \in Thread : ~ AddCount(th) /\ ~ DelMove(th)
        PROVE  Added /\ Deleted /\ Others
    <3>1. Pool' = Pool
      BY <2>3, PoolKept
    <3>2. ASSUME NEW th \in Thread, pc[th] \in {"count", "move"}
          PROVE  pc'[th] = pc[th]
      BY <2>3, <3>2, Alone DEF Next, Step, ReceiveMempool, ReceiveTx, ReceiveGetdata,
              Revert, Unlock, AddCheck, AddWrite, AddOverrun, DelFind, ListSlot, ListDone,
              SendTx, SendDone, TypeOK, Goto
    <3>3. ASSUME pc[Reverter] = "del", pc'[Reverter] = "unlock"
          PROVE  arg[Reverter] \notin Pool
      <4>0. mutex = Reverter /\ \A o \in Thread : o # Reverter => pc[o] = "idle"
        BY <3>3, Alone
      <4>1. DelFind(Reverter)
        <5>1. PICK th \in Thread : Step(th)
          BY <3>3, <4>0 DEF Next, ReceiveMempool, ReceiveTx, ReceiveGetdata, Revert, Free
        <5>2. pc[th] # "idle"
          BY <5>1 DEF Step, Unlock, AddCheck, AddWrite, AddOverrun, AddCount, DelFind, DelMove,
                      ListSlot, ListDone, SendTx, SendDone
        <5>3. th = Reverter
          BY <4>0, <5>2
        <5>. QED
          BY <3>3, <5>1, <5>3 DEF Step, Unlock, AddCheck, AddWrite, AddOverrun, AddCount, DelMove,
                      ListSlot, ListDone, SendTx, SendDone
      <4>2. {i \in Slots : InUse(i) /\ SlotHash(i) = arg[Reverter]} = {}
        BY <3>3, <4>1 DEF DelFind, Goto, TypeOK
      <4>. QED
        BY <4>2 DEF InUse, SlotHash, Pool
    <3>. QED
      BY <3>1, <3>2, <3>3
  <2>. QED
    BY <2>1, <2>2, <2>3
<1>. QED
  BY <1>1, InvInit, InvStep, PTL DEF Spec, CallsTakeEffect

------------------------------------------------------------------------------
(* The answers to peers.                                                   *)

\* The slots a list has been through, and the hashes of a request.
Listed(c) == {txs[i] : i \in {i \in Slots : i < spot[c]}}
Asked(c)  == {ids[c][n] : n \in 1..Len(ids[c])}

\* What the thread of a connection has collected so far.
Reply(c) ==
    /\ pc[c] = "idle" => /\ arg[c] = Null /\ size[c] = 0 /\ spot[c] = 0
                         /\ list[c] = {} /\ ids[c] = <<>>
    /\ pc[c] = "list" => /\ arg[c] = Null /\ ids[c] = <<>> /\ spot[c] <= size[c]
                         /\ list[c] = Listed(c)
    /\ pc[c] = "getdata" =>
           /\ arg[c] = Null /\ size[c] = 0 /\ ids[c] \in Requests
           /\ spot[c] <= Len(ids[c])
           /\ list[c] = {ids[c][n] : n \in 1..spot[c]} \cap Pool
    /\ pc[c] = "unlock" /\ arg[c] = Null =>
           /\ size[c] > 0 => list[c] = Pool
           /\ ids[c] # <<>> => list[c] = Asked(c) \cap Pool

LEMMA RequestsTyped ==
    ASSUME NEW r \in Requests
    PROVE  /\ Len(r) \in Nat \ {0} /\ r # <<>>
           /\ \A n \in 1..Len(r) : r[n] \in Tx
<1>1. PICK n \in 1..MaxIds : r \in [1..n -> Tx]
  BY DEF Requests
<1>2. n \in Nat \ {0} /\ r \in Seq(Tx) /\ Len(r) = n
  BY <1>1, MempoolConstants
<1>. QED
  BY <1>1, <1>2

\* The slot that is looked up for a hash holds its transaction.
LEMMA Lookup ==
    ASSUME "get_index" \in Repaired, NEW c, NEW t, data_mempool_exists(t)
    PROVE  data_mempool_get(GetIndex(c, t)) = t
<1>. DEFINE P(i) == InUse(i) /\ txs[i] = t
<1>1. \E i \in Slots : P(i)
  BY DEF data_mempool_exists
<1>2. GetIndex(c, t) = CHOOSE i \in Slots : P(i)
  BY DEF GetIndex
<1>3. GetIndex(c, t) \in Slots /\ P(GetIndex(c, t))
  BY <1>1, <1>2
<1>. QED
  BY <1>3 DEF data_mempool_get, InUse

\* A thread that is not past its lock keeps what it has.
LEMMA ReplyIdle ==
    ASSUME NEW c \in Conn, Reply(c), pc[c] = "idle", pc'[c] = "idle",
           arg'[c] = arg[c], size'[c] = size[c], spot'[c] = spot[c],
           list'[c] = list[c], ids'[c] = ids[c]
    PROVE  Reply(c)'
  BY DEF Reply

LEMMA ReplyListing ==
    ASSUME Inv, "slot_hash" \in Repaired, NEW c \in Conn, Reply(c),
           ListSlot(c) \/ ListDone(c)
    PROVE  Reply(c)'
<1>. USE Sizes DEF Inv
<1>1. /\ pc[c] = "list" /\ arg[c] = Null /\ ids[c] = <<>> /\ size[c] = count
      /\ spot[c] \in Nat /\ count \in 0..SlotCount /\ spot[c] <= count
      /\ list[c] = Listed(c)
  BY DEF ListSlot, ListDone, Reply, Local, TypeOK
<1>2. CASE ListSlot(c)
  <2>1. /\ pc'[c] = "list" /\ arg'[c] = Null /\ ids'[c] = <<>> /\ size'[c] = count
        /\ spot'[c] = spot[c] + 1 /\ txs' = txs
        /\ list'[c] = list[c] \cup {txs[spot[c]]}
        /\ spot[c] < count /\ spot[c] \in Slots
    BY <1>1, <1>2 DEF ListSlot, ListEnd, SlotHash, TypeOK, Slots
  <2>2. \A i \in Slots : i < spot[c] + 1 <=> i < spot[c] \/ i = spot[c]
    BY <1>1 DEF Slots
  <2>3. Listed(c)' = Listed(c) \cup {txs[spot[c]]}
    BY <2>1, <2>2 DEF Listed
  <2>. QED
    BY <1>1, <2>1, <2>3 DEF Reply
<1>3. CASE ListDone(c)
  <2>1. /\ pc'[c] = "unlock" /\ ids'[c] = <<>> /\ list'[c] = list[c]
        /\ txs' = txs /\ count' = count /\ spot[c] = count
    BY <1>1, <1>3 DEF ListDone, ListEnd, Goto, TypeOK
  <2>2. list[c] = Pool
    BY <1>1, <2>1 DEF Distinct, Pool, Listed
  <2>3. Pool' = Pool
    BY <2>1 DEF Pool
  <2>. QED
    BY <2>1, <2>2, <2>3 DEF Reply
<1>. QED
  BY <1>2, <1>3

LEMMA ReplySending ==
    ASSUME Inv, {"get_index", "getdata_bound"} \subseteq Repaired,
           NEW c \in Conn, Reply(c), SendTx(c) \/ SendDone(c)
    PROVE  Reply(c)'
<1>. USE Sizes DEF Inv
<1>1. /\ pc[c] = "getdata" /\ arg[c] = Null /\ size[c] = 0 /\ ids[c] \in Requests
      /\ spot[c] \in Nat /\ spot[c] <= Len(ids[c]) /\ Len(ids[c]) \in Nat
      /\ list[c] = {ids[c][n] : n \in 1..spot[c]} \cap Pool
  BY RequestsTyped DEF SendTx, SendDone, Reply, TypeOK
<1>2. CASE SendTx(c)
  <2>. DEFINE t == ids[c][spot[c] + 1]
  <2>1. /\ pc'[c] = "getdata" /\ arg'[c] = Null /\ ids'[c] = ids[c] /\ size'[c] = 0
        /\ spot'[c] = spot[c] + 1 /\ txs' = txs /\ count' = count
        /\ spot[c] < Len(ids[c])
    BY <1>1, <1>2 DEF SendTx, MoreIds, TypeOK
  <2>2. t \in Tx
    BY <1>1, <2>1, RequestsTyped
  <2>3. list'[c] = IF t \in Pool THEN list[c] \cup {t} ELSE list[c]
    <3>1. data_mempool_exists(t) <=> t \in Pool
      BY <2>2 DEF data_mempool_exists, InUse, Pool
    <3>2. list'[c] = IF data_mempool_exists(t)
                     THEN list[c] \cup {data_mempool_get(GetIndex(c, t))} ELSE list[c]
      BY <1>2 DEF SendTx, TypeOK
    <3>3. data_mempool_exists(t) => data_mempool_get(GetIndex(c, t)) = t
      BY Lookup
    <3>. QED
      BY <3>1, <3>2, <3>3
  <2>4. \A n : n \in 1..(spot[c] + 1) <=> n \in 1..spot[c] \/ n = spot[c] + 1
    BY <1>1
  <2>5. list'[c] = {ids[c][n] : n \in 1..(spot[c] + 1)} \cap Pool
    BY <1>1, <2>3, <2>4
  <2>6. Pool' = Pool
    BY <2>1 DEF Pool
  <2>. QED
    BY <1>1, <2>1, <2>5, <2>6 DEF Reply
<1>3. CASE SendDone(c)
  <2>1. /\ pc'[c] = "unlock" /\ ids'[c] = ids[c] /\ list'[c] = list[c]
        /\ size'[c] = 0
        /\ txs' = txs /\ count' = count /\ spot[c] = Len(ids[c])
    BY <1>1, <1>3 DEF SendDone, MoreIds, Goto, TypeOK
  <2>2. list[c] = Asked(c) \cap Pool
    BY <1>1, <2>1 DEF Asked
  <2>3. Pool' = Pool /\ Asked(c)' = Asked(c)
    BY <2>1 DEF Pool, Asked
  <2>. QED
    BY <2>1, <2>2, <2>3 DEF Reply
<1>. QED
  BY <1>2, <1>3

LEMMA ReplyStep ==
    ASSUME Repaired = Statements, Inv, Next, NEW c \in Conn, Reply(c)
    PROVE  Reply(c)'
<1>. USE Sizes DEF Inv, Goto
<1>0. Corrected /\ {"slot_hash", "get_index", "getdata_bound"} \subseteq Repaired
      /\ Reverter \notin Conn /\ c \in Thread
  BY MempoolConstants DEF Corrected, Statements
<1>1. ASSUME NEW d \in Conn, ReceiveMempool(d) PROVE Reply(c)'
  <2>1. pc[c] = "idle"
    BY <1>1, NobodyIn DEF ReceiveMempool
  <2>2. CASE d = c
    <3>1. /\ pc'[c] = "list" /\ spot'[c] = 0 /\ size'[c] = count /\ list'[c] = {}
          /\ arg'[c] = Null /\ ids'[c] = <<>> /\ count \in Nat
      BY <1>1, <2>1, <2>2 DEF ReceiveMempool, Reply, TypeOK
    <3>2. Listed(c)' = {}
      BY <3>1 DEF Listed, Slots
    <3>. QED
      BY <3>1, <3>2 DEF Reply
  <2>3. CASE d # c
    BY <1>1, <2>1, <2>3, ReplyIdle DEF ReceiveMempool, TypeOK
  <2>. QED
    BY <2>2, <2>3
<1>2. ASSUME NEW d \in Conn, NEW t \in Tx, ReceiveTx(d, t) PROVE Reply(c)'
  <2>1. pc[c] = "idle"
    BY <1>2, NobodyIn DEF ReceiveTx
  <2>2. CASE d = c
    BY <1>2, <2>1, <2>2 DEF ReceiveTx, TxStep, Reply, TypeOK
  <2>3. CASE d # c
    BY <1>2, <2>1, <2>3, ReplyIdle DEF ReceiveTx, TypeOK
  <2>. QED
    BY <2>2, <2>3
<1>3. ASSUME NEW d \in Conn, NEW hashes \in Requests, ReceiveGetdata(d, hashes)
      PROVE  Reply(c)'
  <2>1. pc[c] = "idle"
    BY <1>3, NobodyIn DEF ReceiveGetdata
  <2>2. CASE d = c
    BY <1>3, <2>1, <2>2, RequestsTyped DEF ReceiveGetdata, Reply, TypeOK
  <2>3. CASE d # c
    BY <1>3, <2>1, <2>3, ReplyIdle DEF ReceiveGetdata, TypeOK
  <2>. QED
    BY <2>2, <2>3
<1>4. ASSUME NEW t \in Tx, NEW step, Revert(t, step) PROVE Reply(c)'
  <2>1. pc[c] = "idle"
    BY <1>0, <1>4, NobodyIn DEF Revert, Corrected
  <2>. QED
    BY <1>0, <1>4, <2>1, ReplyIdle DEF Revert, TypeOK
<1>5. ASSUME NEW th \in Thread, th # c, Step(th) PROVE Reply(c)'
  <2>1. pc[th] # "idle"
    BY <1>5 DEF Step, Unlock, AddCheck, AddWrite, AddOverrun, AddCount, DelFind, DelMove,
                ListSlot, ListDone, SendTx, SendDone
  <2>2. pc[c] = "idle"
    BY <1>0, <1>5, <2>1, Alone
  <2>3. /\ pc'[c] = pc[c] /\ arg'[c] = arg[c] /\ size'[c] = size[c]
        /\ spot'[c] = spot[c] /\ list'[c] = list[c] /\ ids'[c] = ids[c]
    BY <1>0, <1>5 DEF Step, Unlock, AddCheck, AddWrite, AddOverrun, AddCount, DelFind, DelMove,
                      ListSlot, ListDone, SendTx, SendDone, TypeOK
  <2>. QED
    BY <2>2, <2>3, ReplyIdle
<1>6. ASSUME Step(c) PROVE Reply(c)'
  <2>1. CASE Unlock(c)
    BY <1>0, <2>1 DEF Unlock, Reply, TypeOK
  <2>2. CASE AddCheck(c) \/ AddWrite(c) \/ AddOverrun(c) \/ AddCount(c)
    <3>1. arg[c] \in Tx /\ arg'[c] = arg[c] /\ pc'[c] \in {"write", "overrun", "count", "unlock"}
      BY <1>0, <2>2 DEF AddCheck, AddWrite, AddOverrun, AddCount, Local, TypeOK
    <3>. QED
      BY <3>1 DEF Reply
  <2>3. CASE DelFind(c) \/ DelMove(c)
    BY <1>0, <2>3 DEF DelFind, DelMove, Local
  <2>4. CASE ListSlot(c) \/ ListDone(c)
    BY <1>0, <2>4, ReplyListing
  <2>5. CASE SendTx(c) \/ SendDone(c)
    BY <1>0, <2>5, ReplySending
  <2>. QED
    BY <1>6, <2>1, <2>2, <2>3, <2>4, <2>5 DEF Step
<1>. QED
  BY <1>1, <1>2, <1>3, <1>4, <1>5, <1>6 DEF Next

\* A peer is told what the mempool holds: a <mempool> is answered with all of
\* it, a <getdata> with each requested transaction that is there and no
\* other, whatever deletions have done to the order of the slots.
THEOREM MempoolAnswersSound ==
    ASSUME Repaired = Statements
    PROVE  Spec => []AnswersSound
<1>. DEFINE Replies == \A c \in Conn : Reply(c)
<1>1. Init => Replies
  BY Sizes DEF Init, Reply
<1>2. Inv /\ Replies /\ [Next]_vars => Replies'
  <2>. SUFFICES ASSUME Inv, Replies, [Next]_vars, NEW c \in Conn PROVE Reply(c)'
    OBVIOUS
  <2>1. CASE UNCHANGED vars
    BY <2>1 DEF vars, Reply, Pool, Asked, Listed
  <2>. QED
    BY <2>1, ReplyStep
<1>3. Replies => AnswersSound
  BY DEF Reply, AnswersSound, Asked
<1>4. Corrected
  BY DEF Corrected, Statements
<1>. QED
  BY <1>1, <1>2, <1>3, <1>4, InvInit, InvStep, PTL DEF Spec

==============================================================================
