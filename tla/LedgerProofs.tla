---------------------------- MODULE LedgerProofs ----------------------------
(***************************************************************************)
(* What the ledger keeps for every set of blocks, every bound and, unless  *)
(* a theorem says otherwise, every choice of Repaired; and what a revert   *)
(* of the chain amounts to with the statements of the ledger corrected: it *)
(* is one change to a higher chain, it loses no transaction, and the       *)
(* blocks it displaces are listed in limbo; and a finished scan leaves no  *)
(* branch in limbo that it should have taken or asked for.                 *)
(***************************************************************************)
EXTENDS Ledger, WellFoundedInduction, FiniteSetTheorems, TLAPS

\* A nonempty set of numbers has a least element.
LEMMA LeastNumber ==
    ASSUME NEW T, T \subseteq Nat, T # {}
    PROVE  \E x \in T : \A y \in T : x <= y
<1>1. PICK x \in T : \A y \in T : ~ (<<y, x>> \in OpToRel(<, Nat))
  BY NatLessThanWellFounded, WFMin
<1>2. \A y \in T : ~ (y < x)
  BY <1>1 DEF OpToRel
<1>. QED  BY <1>2

\* A nonempty set of heights has a greatest element, which Max returns.
LEMMA MaxHeightOf ==
    ASSUME NEW S \in SUBSET Heights, S # {}
    PROVE  /\ Max(S) \in S
           /\ \A h \in S : h <= Max(S)
<1>. DEFINE T == {MaxHeight - h : h \in S}
<1>1. T \subseteq Nat /\ T # {}
  <2>1. \A h \in S : MaxHeight - h \in Nat
    BY LedgerConstants DEF Heights
  <2>. QED  BY <2>1
<1>2. PICK n \in T : \A m \in T : n <= m
  <2>. HIDE DEF T
  <2>. QED  BY <1>1, LeastNumber
<1>3. PICK x \in S : n = MaxHeight - x
  BY <1>2
<1>4. ASSUME NEW y \in S  PROVE x >= y
  <2>1. MaxHeight - y \in T
    OBVIOUS
  <2>2. MaxHeight - x <= MaxHeight - y
    BY <1>2, <1>3, <2>1
  <2>. QED  BY <2>2, LedgerConstants DEF Heights
<1>. QED  BY <1>4 DEF Max, Heights

\* The smaller of two numbers.
LEMMA MinOfTwo ==
    ASSUME NEW m \in Int, NEW n \in Int
    PROVE  /\ Min({m, n}) \in {m, n}
           /\ Min({m, n}) <= m
           /\ Min({m, n}) <= n
<1>1. \E x \in {m, n} : \A y \in {m, n} : x <= y
  OBVIOUS
<1>. QED  BY <1>1 DEF Min

\* data_chain_get_height is a height; read from the keys of the records, no
\* recorded height is above it.
LEMMA ChainGetHeight ==
    ASSUME TypeOK, NEW curr \in data_chain_get_height
    PROVE  /\ curr \in Heights
           /\ "height_record" \in Repaired =>
                  /\ \A h \in ChainHeights : h <= curr
                  /\ curr \in Uninitialised \cup ChainHeights
<1>1. CASE "height_record" \in Repaired
  <2>1. PICK start \in Uninitialised : curr = Max({start} \cup ChainHeights)
    BY <1>1 DEF data_chain_get_height
  <2>2. start \in Heights
    BY LedgerConstants DEF Uninitialised, Heights
  <2>. QED  BY <2>1, <2>2, MaxHeightOf DEF ChainHeights
<1>2. CASE "height_record" \notin Repaired
  BY <1>2 DEF data_chain_get_height
<1>. QED  BY <1>1, <1>2

\* Corrected, it is the height of the chain.
LEMMA ChainHeightIs ==
    ASSUME TypeOK, Repaired = Statements, 0 \in ChainHeights
    PROVE  \E curr \in ChainHeights : /\ data_chain_get_height = {curr}
                                      /\ \A h \in ChainHeights : h <= curr
<1>1. data_chain_get_height = {Max({0} \cup ChainHeights)}
  BY DEF data_chain_get_height, Uninitialised, Statements
<1>2. /\ Max({0} \cup ChainHeights) \in {0} \cup ChainHeights
      /\ \A h \in ChainHeights : h <= Max({0} \cup ChainHeights)
  BY <1>1, ChainGetHeight DEF Uninitialised, Statements
<1>. QED  BY <1>1, <1>2

------------------------------------------------------------------------------
(* Types, stored chain entries and stored locals, for every Repaired.      *)

Safety == TypeOK /\ ChainStored /\ LocalsStored

LEMMA SafetyInit == Init => Safety
<1>. SUFFICES ASSUME Init PROVE Safety
  OBVIOUS
<1>1. TypeOK
  BY LedgerConstants DEF Init, TypeOK, Heights, MaybeBlock, Steps, Places
<1>2. ChainStored
  BY LedgerConstants DEF Init, ChainStored, ChainHeights, Heights
<1>3. LocalsStored
  BY DEF Init, LocalsStored, OldLoop, NewLoop
<1>. QED  BY <1>1, <1>2, <1>3 DEF Safety

\* What data_chain_safe_set leaves in the chain is stored at its own height.
LEMMA SafeSetStored ==
    ASSUME TypeOK, ChainStored, NEW b \in Block
    PROVE  /\ data_chain_safe_set(b) \in [Heights -> MaybeBlock]
           /\ \A h \in Heights :
                data_chain_safe_set(b)[h] # Absent =>
                    /\ data_chain_safe_set(b)[h] \in blocks
                    /\ Height[data_chain_safe_set(b)[h]] = h
<1>1. Height[b] \in Heights
  BY LedgerConstants
<1>. QED
  BY <1>1 DEF TypeOK, ChainStored, ChainHeights, data_chain_safe_set, MaybeBlock

\* Adding to and deleting from a level keeps limbo a table of levels.
LEMMA LimboTyped ==
    ASSUME TypeOK, NEW b \in Block
    PROVE  /\ data_limbo_safe_add(b) \in [Heights -> SUBSET Block]
           /\ data_limbo_del(b) \in [Heights -> SUBSET Block]
           /\ Txs[b] \subseteq Tx
           /\ Height[b] \in Heights
  BY LedgerConstants DEF TypeOK, data_limbo_safe_add, data_limbo_del

\* A step that takes nothing out of "blocks" and leaves "chain" alone keeps
\* ChainStored.
LEMMA ChainStoredKept ==
    ASSUME ChainStored, blocks \subseteq blocks', UNCHANGED chain
    PROVE  ChainStored'
  BY DEF ChainStored, ChainHeights

\* The arrival of a block.
LEMMA ArrivalSafe ==
    ASSUME Safety,
           \/ \E b \in Block : ReceiveBlock(b)
           \/ \E t \in Tx : IndexTx(t)
           \/ StoreBlock
           \/ PlaceBlock
    PROVE  Safety'
<1>. USE DEF Safety, dbVars, msgVars, blockVars, scanVars, traceVars, revertVars
<1>1. CASE \E b \in Block : ReceiveBlock(b)
  <2>1. PICK b \in Block : ReceiveBlock(b)
    BY <1>1
  <2>2. place' \in Places
    BY <2>1 DEF ReceiveBlock, Placement, Places
  <2>3. pc' \in {"index", "place"} /\ body' \subseteq Tx
    BY <2>1, LimboTyped DEF ReceiveBlock
  <2>4. TypeOK'
    BY <2>1, <2>2, <2>3 DEF ReceiveBlock, TypeOK, Steps, MaybeBlock
  <2>5. LocalsStored'
    BY <2>1, <2>3 DEF ReceiveBlock, LocalsStored, OldLoop, NewLoop
  <2>. QED  BY <2>1, <2>4, <2>5, ChainStoredKept DEF ReceiveBlock
<1>2. CASE \E t \in Tx : IndexTx(t)
  BY <1>2, ChainStoredKept DEF IndexTx, TypeOK, LocalsStored, OldLoop, NewLoop
<1>3. CASE StoreBlock
  <2>1. blocks' \subseteq Block /\ blocks \subseteq blocks'
    BY <1>3 DEF StoreBlock, TypeOK, LocalsStored
  <2>. QED
    BY <1>3, <2>1, ChainStoredKept
    DEF StoreBlock, TypeOK, LocalsStored, Steps, OldLoop, NewLoop
<1>4. CASE PlaceBlock
  <2>1. arrived \in Block
    BY <1>4 DEF PlaceBlock, LocalsStored
  <2>2. chain' \in [Heights -> MaybeBlock] /\ ChainStored'
    BY <1>4, <2>1, SafeSetStored DEF PlaceBlock, ChainStored, ChainHeights, TypeOK
  <2>3. /\ limbo' \in [Heights -> SUBSET Block] /\ levels' \subseteq Heights
        /\ asked' \subseteq MaybeBlock
    BY <1>4, <2>1, LimboTyped DEF PlaceBlock, TypeOK, MaybeBlock
  <2>4. TypeOK'
    BY <1>4, <2>2, <2>3 DEF PlaceBlock, TypeOK, Steps, Places, MaybeBlock
  <2>. QED  BY <1>4, <2>2, <2>4 DEF PlaceBlock, LocalsStored, OldLoop, NewLoop
<1>. QED  BY <1>1, <1>2, <1>3, <1>4

\* The steps of data_limbo_scan, <tx> messages and crashes.
LEMMA ScanSafe ==
    ASSUME Safety,
           \/ \E t \in Tx : ReceiveTx(t)
           \/ BeginScan
           \/ \E h \in Heights : ReadLevel(h)
           \/ EndScan
           \/ \E b \in Block : PickHash(b)
           \/ LevelDone
           \/ TraceStep
           \/ Chase
           \/ GiveUp
           \/ Crash
    PROVE  Safety'
<1>. USE DEF Safety, OldLoop, NewLoop
<1>1. UNCHANGED dbVars
  BY DEF ReceiveTx, BeginScan, ReadLevel, EndScan, PickHash, LevelDone,
         TraceStep, Chase, GiveUp, Crash
<1>2. ChainStored'
  BY <1>1, ChainStoredKept DEF dbVars
<1>. USE DEF dbVars, msgVars, blockVars, scanVars, traceVars, revertVars
<1>3. CASE \E t \in Tx : ReceiveTx(t)
  BY <1>1, <1>2, <1>3 DEF ReceiveTx, TypeOK, LocalsStored, NewCurrent, data_blocks_get
<1>4. CASE BeginScan
  <2>1. scanHeight' \in Heights
    BY <1>4, ChainGetHeight DEF BeginScan
  <2>. QED  BY <1>1, <1>2, <1>4, <2>1 DEF BeginScan, TypeOK, LocalsStored, Steps
<1>5. CASE \E h \in Heights : ReadLevel(h)
  BY <1>1, <1>2, <1>5 DEF ReadLevel, TypeOK, LocalsStored, Steps
<1>6. CASE EndScan
  BY <1>1, <1>2, <1>6, LedgerConstants
  DEF EndScan, TypeOK, LocalsStored, Steps, Heights
<1>7. CASE \E b \in Block : PickHash(b)
  BY <1>1, <1>2, <1>7 DEF PickHash, TypeOK, LocalsStored, Steps, MaybeBlock
<1>8. CASE LevelDone
  BY <1>1, <1>2, <1>8 DEF LevelDone, TypeOK, LocalsStored, Steps
<1>9. CASE TraceStep
  <2>1. Prev[walk] \in MaybeBlock
    BY <1>9, LedgerConstants DEF TraceStep, TypeOK, MaybeBlock
  <2>. QED  BY <1>1, <1>2, <1>9, <2>1 DEF TraceStep, TypeOK, LocalsStored
<1>10. CASE Chase \/ GiveUp
  <2>1. asked' \subseteq MaybeBlock /\ pc' = "pick" /\ ForgetTrial
    BY <1>10 DEF Chase, GiveUp, TypeOK
  <2>. QED
    BY <1>1, <1>2, <1>10, <2>1
    DEF Chase, GiveUp, ForgetTrial, TypeOK, LocalsStored, Steps, MaybeBlock
<1>11. CASE Crash
  BY <1>1, <1>2, <1>11, LedgerConstants
  DEF Crash, TypeOK, LocalsStored, Steps, Places, MaybeBlock, Heights
<1>. QED  BY <1>3, <1>4, <1>5, <1>6, <1>7, <1>8, <1>9, <1>10, <1>11

\* The steps of the first loop of data_blocks_revert.
LEMMA OldLoopSafe ==
    ASSUME Safety,
           \/ BeginRevert
           \/ OldBlock
           \/ \E t \in Tx : OldTx(t)
           \/ OldListed
           \/ OldDone
    PROVE  Safety'
<1>. USE DEF Safety, dbVars, msgVars, blockVars, scanVars, traceVars, revertVars,
             OldLoop, NewLoop
<1>1. UNCHANGED <<blocks, chain>>
  BY DEF BeginRevert, OldBlock, OldTx, OldListed, OldDone
<1>2. ChainStored'
  BY <1>1, ChainStoredKept
<1>3. CASE BeginRevert
  <2>1. index' \in Heights
    BY <1>3, ChainGetHeight, LedgerConstants DEF BeginRevert, Heights
  <2>2. walk \in blocks /\ trial \in blocks /\ pc = "trace" /\ trial \in Block
    BY <1>3 DEF BeginRevert, Traced, TypeOK, LocalsStored
  <2>3. pc' \in {"old", "announce"}
    BY <1>3 DEF BeginRevert
  <2>4. TypeOK'
    BY <1>1, <1>3, <2>1, <2>2, <2>3 DEF BeginRevert, TypeOK, Steps, MaybeBlock
  <2>5. LocalsStored'
    BY <1>1, <1>3, <2>2, <2>3 DEF BeginRevert, LocalsStored
  <2>. QED  BY <1>2, <2>4, <2>5
<1>4. CASE OldBlock
  <2>1. /\ pc = "old" /\ common \in Block /\ index > Height[common]
        /\ hash' \in MaybeBlock
    BY <1>4 DEF OldBlock, OldLeft, TypeOK, LocalsStored, MaybeBlock
  <2>2. CASE hash' \in blocks
    <3>1. Txs[hash'] \subseteq Tx
      BY <2>2, LimboTyped DEF TypeOK
    <3>. QED
      BY <1>2, <1>4, <2>1, <2>2, <3>1
      DEF OldBlock, TypeOK, LocalsStored, Steps, MaybeBlock
  <2>3. CASE hash' \notin blocks
    BY <1>2, <1>4, <2>1, <2>3 DEF OldBlock, TypeOK, LocalsStored, Steps
  <2>. QED  BY <2>2, <2>3
<1>5. CASE \E t \in Tx : OldTx(t)
  BY <1>2, <1>5 DEF OldTx, ReturnTx, TypeOK, LocalsStored, MaybeBlock
<1>6. CASE OldListed
  <2>1. pc = "oldtx" /\ buf \in Block /\ common \in Block /\ index > Height[common]
    BY <1>6 DEF OldListed, TypeOK, LocalsStored
  <2>2. index - 1 \in Heights
    BY <2>1, LedgerConstants DEF TypeOK, Heights
  <2>3. TypeOK'
    BY <1>6, <2>1, <2>2, LimboTyped DEF OldListed, TypeOK, Steps
  <2>. QED  BY <1>2, <1>6, <2>1, <2>3 DEF OldListed, LocalsStored
<1>7. CASE OldDone
  BY <1>2, <1>7, LedgerConstants
  DEF OldDone, TypeOK, LocalsStored, NewCurrent, data_blocks_get, Steps, Heights,
      MaybeBlock
<1>. QED  BY <1>3, <1>4, <1>5, <1>6, <1>7

\* The steps of its second loop and the announcement after it.
LEMMA NewLoopSafe ==
    ASSUME Safety,
           \/ NewBlock
           \/ \E t \in Tx : NewTx(t)
           \/ NewUnlisted
           \/ NewRecord
           \/ NewDone
           \/ Announce
    PROVE  Safety'
<1>. USE DEF Safety, dbVars, msgVars, blockVars, scanVars, traceVars, revertVars,
             OldLoop, NewLoop
<1>1. CASE NewBlock
  <2>1. pc = "new" /\ NewCurrent \in blocks /\ NewCurrent \in Block
    BY <1>1 DEF NewBlock, LocalsStored, TypeOK
  <2>2. Txs[NewCurrent] \subseteq Tx
    BY <2>1, LimboTyped
  <2>3. TypeOK'
    BY <1>1, <2>1, <2>2 DEF NewBlock, TypeOK, Steps, MaybeBlock
  <2>4. LocalsStored'
    BY <1>1, <2>1 DEF NewBlock, LocalsStored
  <2>. QED  BY <1>1, <2>3, <2>4, ChainStoredKept DEF NewBlock
<1>2. CASE \E t \in Tx : NewTx(t)
  <2>1. buf \in Block
    BY <1>2 DEF NewTx, LocalsStored, TypeOK
  <2>2. txs' \in [Tx -> MaybeBlock]
    BY <1>2, <2>1 DEF NewTx, IndexedUnder, TypeOK, MaybeBlock
  <2>. QED
    BY <1>2, <2>2, ChainStoredKept DEF NewTx, TypeOK, LocalsStored
<1>3. CASE NewUnlisted
  <2>1. buf \in Block
    BY <1>3 DEF NewUnlisted, LocalsStored, TypeOK
  <2>2. TypeOK'
    BY <1>3, <2>1, LimboTyped DEF NewUnlisted, TypeOK, Steps
  <2>. QED  BY <1>3, <2>2, ChainStoredKept DEF NewUnlisted, LocalsStored
<1>4. CASE NewRecord
  <2>1. pc = "record" /\ buf \in blocks /\ buf \in Block /\ Prev[buf] \in MaybeBlock
    BY <1>4, LedgerConstants DEF NewRecord, LocalsStored, TypeOK, MaybeBlock
  <2>2. ChainStored' /\ chain' \in [Heights -> MaybeBlock]
    BY <1>4, <2>1, SafeSetStored DEF NewRecord, ChainStored, ChainHeights
  <2>3. TypeOK'
    BY <1>4, <2>1, <2>2 DEF NewRecord, TypeOK, Steps
  <2>4. LocalsStored'
    BY <1>4, <2>1 DEF NewRecord, LocalsStored, NewCurrent, data_blocks_get
  <2>. QED  BY <2>2, <2>3, <2>4
<1>5. CASE NewDone
  BY <1>5, ChainStoredKept DEF NewDone, TypeOK, LocalsStored, Steps
<1>6. CASE Announce
  <2>1. announced' \subseteq MaybeBlock
    <3>1. trial \in Block /\ Height[trial] \in Heights /\ scanHeight \in Heights
      BY <1>6, LedgerConstants DEF Announce, LocalsStored, TypeOK
    <3>2. PICK curr \in data_chain_get_height :
            announced' = build_block_list(Height[trial], Height[trial] - scanHeight, curr)
      BY <1>6 DEF Announce
    <3>3. curr \in Heights
      BY ChainGetHeight
    <3>. DEFINE n == Height[trial] + (Height[trial] - scanHeight)
                last == Min({n, curr})
    <3>4. last \in Int /\ last <= curr
      <4>1. n \in Int /\ curr \in Int
        BY <3>1, <3>3 DEF Heights
      <4>. HIDE DEF n
      <4>. QED  BY <4>1, MinOfTwo
    <3>5. (Height[trial] + 1)..last \subseteq Heights
      BY <3>1, <3>3, <3>4, LedgerConstants DEF Heights
    <3>. QED  BY <3>2, <3>5 DEF build_block_list, TypeOK
  <2>. QED
    BY <1>6, <2>1, ChainStoredKept, LedgerConstants
    DEF Announce, ForgetTrial, TypeOK, LocalsStored, Steps, MaybeBlock, Heights
<1>. QED  BY <1>1, <1>2, <1>3, <1>4, <1>5, <1>6

LEMMA SafetyStep == Safety /\ [Next \/ Crash]_vars => Safety'
<1>. SUFFICES ASSUME Safety, [Next \/ Crash]_vars PROVE Safety'
  OBVIOUS
<1>1. CASE \E b \in Block : ReceiveBlock(b)
  BY <1>1, ArrivalSafe
<1>2. CASE (\E t \in Tx : ReceiveTx(t)) \/ HandlerStep \/ Crash
  BY <1>2, ArrivalSafe, ScanSafe, OldLoopSafe, NewLoopSafe DEF HandlerStep
<1>3. CASE UNCHANGED vars
  BY <1>3, ChainStoredKept
  DEF Safety, TypeOK, LocalsStored, NewCurrent, data_blocks_get, vars, dbVars,
      msgVars, blockVars, scanVars, traceVars, revertVars
<1>. QED  BY <1>1, <1>2, <1>3 DEF Next

\* Every behaviour of the ledger is well typed: the loop index of the revert
\* stays a height, and no step reads a field of a block that is not there.
THEOREM LedgerTyped == Spec => []TypeOK
<1>1. Safety /\ [Next]_vars => Safety'
  BY SafetyStep
<1>2. Safety => TypeOK
  BY DEF Safety
<1>. QED  BY SafetyInit, <1>1, <1>2, PTL DEF Spec

\* Every entry of "chain" is a stored block that lists the height it is
\* recorded at, whatever valid_block answers, in every state of a revert and
\* also when the process dies at any moment and starts again.
THEOREM LedgerChainStored ==
    /\ Spec => []ChainStored
    /\ CrashSpec => []ChainStored
<1>1. Safety /\ [Next]_vars => Safety'
  BY SafetyStep
<1>2. Safety => ChainStored
  BY DEF Safety
<1>3. Spec => []ChainStored
  BY SafetyInit, <1>1, <1>2, PTL DEF Spec
<1>4. CrashSpec => []ChainStored
  BY SafetyInit, SafetyStep, <1>2, PTL DEF CrashSpec
<1>. QED  BY <1>3, <1>4

------------------------------------------------------------------------------
(* The links of the chain, for the corrected statements.                   *)

LinkInv == Safety /\ RevertSound /\ ChainLinked

LEMMA LinkInit == Init => LinkInv
<1>. SUFFICES ASSUME Init PROVE LinkInv
  OBVIOUS
<1>1. RevertSound
  BY DEF Init, RevertSound, Heights, OldLoop, NewLoop
<1>2. ChainLinked
  BY LedgerConstants DEF Init, ChainLinked, ChainHeights, Heights
<1>. QED  BY <1>1, <1>2, SafetyInit DEF LinkInv

\* A level only lists blocks of its own height.
LEMMA LimboHeightsKept ==
    ASSUME TypeOK, NEW b \in Block,
           \A h \in Heights : \A y \in limbo[h] : Height[y] = h
    PROVE  /\ \A h \in Heights : \A y \in data_limbo_safe_add(b)[h] : Height[y] = h
           /\ \A h \in Heights : \A y \in data_limbo_del(b)[h] : Height[y] = h
  BY LedgerConstants DEF TypeOK, data_limbo_safe_add, data_limbo_del

\* A step that leaves "chain" alone keeps what is said about its links.
LEMMA LinksKept ==
    ASSUME UNCHANGED chain
    PROVE  /\ ChainHeights' = ChainHeights
           /\ \A b : data_chain_exists(b)' = data_chain_exists(b)
           /\ \A top : LinkedTo(top)' = LinkedTo(top)
           /\ \A b : LinkedFrom(b)' = LinkedFrom(b)
  BY DEF ChainHeights, data_chain_exists, LinkedTo, LinkedFrom

\* So does one that touches only transactions.
LEMMA TxStepLinked ==
    ASSUME LinkInv,
           UNCHANGED <<blocks, chain, limbo, pc, arrived, place, scanVars, traceVars,
                       revertVars>>
    PROVE  RevertSound' /\ ChainLinked'
<1>. USE DEF LinkInv, scanVars, traceVars, revertVars
<1>1. ChainLinked'
  BY LinksKept DEF ChainLinked
<1>2. RevertSound'
  BY LinksKept DEF RevertSound, BranchTraced, LinkedTo, LinkedFrom, data_chain_exists
<1>. QED  BY <1>1, <1>2

\* A block that is appended goes on top of the chain.
LEMMA ArrivalLinked ==
    ASSUME LinkInv, Repaired = Statements,
           \/ \E b \in Block : ReceiveBlock(b)
           \/ \E t \in Tx : IndexTx(t)
           \/ StoreBlock
    PROVE  RevertSound' /\ ChainLinked'
<1>. USE DEF LinkInv, Safety, dbVars, blockVars, scanVars, traceVars, revertVars,
             OldLoop, NewLoop
<1>1. CASE \E b \in Block : ReceiveBlock(b)
  <2>1. PICK b \in Block : ReceiveBlock(b)
    BY <1>1
  <2>2. PICK curr \in data_chain_get_height : place' = Placement(b, curr)
    BY <2>1 DEF ReceiveBlock
  <2>3. curr \in Heights /\ \A h \in ChainHeights : h <= curr /\ h \in Heights
    BY ChainGetHeight DEF Statements, ChainHeights
  <2>4. ASSUME place' = "append"
        PROVE  /\ \A h \in ChainHeights : h < Height[b]
               /\ Height[b] - 1 \in ChainHeights
               /\ Prev[b] = chain[Height[b] - 1]
    <3>1. Height[b] - 1 = curr /\ chain[curr] # Absent /\ Prev[b] = chain[curr]
      BY <2>2, <2>4 DEF Placement
    <3>2. Height[b] \in Heights
      BY LedgerConstants
    <3>. QED  BY <2>3, <3>1, <3>2 DEF ChainHeights, Heights
  <2>5. /\ pc = "idle" /\ pc' \in {"index", "place"} /\ arrived' = b
        /\ UNCHANGED <<blocks, chain, limbo, todo, scanHeight>>
    BY <2>1 DEF ReceiveBlock
  <2>6. ChainHeights' = ChainHeights
    BY <2>5 DEF ChainHeights
  <2>7. RevertSound'
    BY <2>4, <2>5, <2>6 DEF RevertSound
  <2>8. ChainLinked'
    BY <2>5, <2>6 DEF ChainLinked
  <2>. QED  BY <2>7, <2>8
<1>2. CASE \E t \in Tx : IndexTx(t)
  BY <1>2, TxStepLinked DEF IndexTx
<1>3. CASE StoreBlock
  <2>1. /\ pc = "index" /\ pc' = "place"
        /\ UNCHANGED <<chain, limbo, todo, scanHeight, arrived, place>>
    BY <1>3 DEF StoreBlock
  <2>2. ChainHeights' = ChainHeights
    BY <2>1 DEF ChainHeights
  <2>3. RevertSound'
    BY <2>1, <2>2 DEF RevertSound
  <2>4. ChainLinked'
    BY <2>1, <2>2 DEF ChainLinked
  <2>. QED  BY <2>3, <2>4
<1>. QED  BY <1>1, <1>2, <1>3

\* Appending on top of the chain keeps it linked and takes no other block's
\* place.
LEMMA PlaceBlockLinked ==
    ASSUME LinkInv, PlaceBlock
    PROVE  /\ RevertSound' /\ ChainLinked'
           /\ \A h \in ChainHeights : chain'[h] = chain[h]
           /\ chain' # chain =>
                  /\ chain'[Height[arrived]] = arrived
                  /\ Height[arrived] \in Heights
                  /\ \A h \in ChainHeights : h < Height[arrived]
<1>. USE DEF LinkInv, Safety
<1>1. pc = "place" /\ arrived \in Block /\ Height[arrived] \in Heights
  BY LedgerConstants DEF PlaceBlock, LocalsStored
<1>2. RevertSound'
  <2>1. \A h \in Heights : \A y \in limbo'[h] : Height[y] = h
    BY <1>1, LimboHeightsKept DEF PlaceBlock, RevertSound
  <2>. QED
    BY <1>1, <2>1 DEF PlaceBlock, RevertSound, scanVars, OldLoop, NewLoop
<1>3. CASE chain' = chain
  <2>1. ChainLinked'
    BY <1>1, <1>3 DEF PlaceBlock, ChainLinked, ChainHeights, NewLoop
  <2>. QED  BY <1>2, <1>3, <2>1
<1>4. CASE chain' # chain
  <2>. DEFINE top == Height[arrived]
  <2>1. place = "append" /\ chain' = [chain EXCEPT ![top] = arrived]
    BY <1>4 DEF PlaceBlock, data_chain_safe_set
  <2>2. /\ \A h \in ChainHeights : h < top /\ h \in Heights
        /\ top - 1 \in ChainHeights /\ Prev[arrived] = chain[top - 1]
    BY <1>1, <2>1 DEF RevertSound, ChainHeights
  <2>3. /\ chain'[top] = arrived /\ arrived # Absent
        /\ \A h \in Heights : h # top => chain'[h] = chain[h]
    BY <1>1, <2>1, LedgerConstants DEF TypeOK
  <2>4. top \in Heights /\ top - 1 \in Heights
    BY <1>1, <2>2
  <2>. HIDE DEF top
  <2>5. \A h \in ChainHeights : chain'[h] = chain[h] /\ h # top
    BY <2>2, <2>3, <2>4 DEF Heights
  <2>6. ChainHeights' = ChainHeights \cup {top}
    BY <2>3, <2>4 DEF ChainHeights
  <2>7. chain[0] = Genesis /\ 0 \in ChainHeights
    BY <1>1, LedgerConstants DEF ChainLinked, NewLoop, ChainHeights, Heights
  <2>8. ASSUME NEW h \in ChainHeights' \ {0}
        PROVE  chain'[h - 1] # Absent /\ Prev[chain'[h]] = chain'[h - 1]
    <3>1. CASE h = top
      BY <2>2, <2>3, <2>5, <3>1 DEF ChainHeights
    <3>2. CASE h \in ChainHeights
      <4>1. chain[h - 1] # Absent /\ Prev[chain[h]] = chain[h - 1]
        BY <1>1, <2>8, <3>2 DEF ChainLinked, NewLoop
      <4>2. h - 1 \in ChainHeights
        BY <2>2, <2>8, <3>2, <4>1, LedgerConstants DEF ChainHeights, Heights
      <4>. QED  BY <2>5, <3>2, <4>1, <4>2
    <3>. QED  BY <2>6, <2>8, <3>1, <3>2
  <2>9. ChainLinked'
    BY <2>5, <2>7, <2>8 DEF ChainLinked
  <2>. QED  BY <1>2, <2>2, <2>3, <2>4, <2>5, <2>9 DEF top
<1>. QED  BY <1>3, <1>4

\* The steps of data_limbo_scan and <tx> messages.
LEMMA ScanLinked ==
    ASSUME LinkInv, Repaired = Statements,
           \/ \E t \in Tx : ReceiveTx(t)
           \/ BeginScan
           \/ \E h \in Heights : ReadLevel(h)
           \/ EndScan
           \/ \E b \in Block : PickHash(b)
           \/ LevelDone
           \/ TraceStep
           \/ Chase
           \/ GiveUp
    PROVE  RevertSound' /\ ChainLinked'
<1>. USE DEF LinkInv, Safety, dbVars, msgVars, blockVars, scanVars, traceVars,
             revertVars, OldLoop, NewLoop
<1>1. UNCHANGED dbVars
  BY DEF ReceiveTx, BeginScan, ReadLevel, EndScan, PickHash, LevelDone,
         TraceStep, Chase, GiveUp
<1>2. ChainLinked'
  <2>1. (pc \in NewLoop) = (pc' \in NewLoop)
    BY DEF ReceiveTx, BeginScan, ReadLevel, EndScan, PickHash, LevelDone,
           TraceStep, Chase, GiveUp, Traced, NotTraced
  <2>. QED  BY <1>1, <2>1 DEF ChainLinked, ChainHeights
<1>3. CASE \E t \in Tx : ReceiveTx(t)
  BY <1>3, TxStepLinked DEF ReceiveTx
<1>4. CASE BeginScan
  <2>1. \A h \in ChainHeights : h <= scanHeight'
    BY <1>4, ChainGetHeight DEF BeginScan, Statements
  <2>. QED  BY <1>1, <1>2, <1>4, <2>1, LinksKept DEF BeginScan, RevertSound
<1>5. CASE \E h \in Heights : ReadLevel(h)
  BY <1>1, <1>2, <1>5, LinksKept DEF ReadLevel, WouldRaise, RevertSound
<1>6. CASE EndScan
  BY <1>1, <1>2, <1>6 DEF EndScan, RevertSound
<1>7. CASE \E b \in Block : PickHash(b)
  BY <1>1, <1>2, <1>7, LinksKept DEF PickHash, RevertSound, BranchTraced
<1>8. CASE LevelDone
  BY <1>1, <1>2, <1>8, LinksKept DEF LevelDone, RevertSound
<1>9. CASE TraceStep
  <2>1. BranchTraced /\ walk \in blocks /\ walk \in Block
    BY <1>9 DEF TraceStep, RevertSound, TypeOK
  <2>2. ASSUME branch' \subseteq Valid, walk' \in Block, NEW b \in branch'
        PROVE  Height[b] > Height[walk']
    <3>1. Height[walk] = Height[walk'] + 1
      BY <1>9, <2>1, <2>2, ValidHeights DEF TraceStep
    <3>2. b = walk \/ (b \in branch /\ Height[b] > Height[walk])
      BY <1>9, <2>1, <2>2 DEF TraceStep, BranchTraced
    <3>3. Height[walk] \in Nat /\ Height[walk'] \in Nat /\ Height[b] \in Nat
      BY <1>9, <2>1, <2>2, LedgerConstants DEF TraceStep, TypeOK, Heights
    <3>. QED  BY <3>1, <3>2, <3>3
  <2>3. BranchTraced'
    BY <1>1, <1>9, <2>1, <2>2 DEF TraceStep, BranchTraced
  <2>. QED  BY <1>1, <1>2, <1>9, <2>3, LinksKept DEF TraceStep, RevertSound
<1>10. CASE Chase \/ GiveUp
  <2>1. pc = "trace" /\ pc' = "pick" /\ UNCHANGED <<limbo, todo, scanHeight, swapped>>
    BY <1>1, <1>10 DEF Chase, GiveUp, Traced, NotTraced
  <2>. QED  BY <1>1, <1>2, <2>1, LinksKept DEF RevertSound
<1>. QED  BY <1>2, <1>3, <1>4, <1>5, <1>6, <1>7, <1>8, <1>9, <1>10

\* What is known in the second loop of the block in hand: it is the next one
\* of the branch.
LEMMA InHandKnown ==
    ASSUME LinkInv, pc \in {"newtx", "record"}
    PROVE  /\ BranchTraced /\ common = walk /\ latest = trial
           /\ branch \subseteq Valid
           /\ data_chain_exists(common)
           /\ LinkedTo(Height[common])
           /\ LinkedFrom(hash)
           /\ hash \in blocks /\ hash \in Block /\ buf = hash
           /\ common \in blocks /\ common \in Block
           /\ hash \in branch /\ Height[hash] > Height[common]
           /\ Prev[hash] \in branch \cup {common}
           /\ Prev[hash] \in Block
           /\ Height[hash] = Height[Prev[hash]] + 1
           /\ Height[hash] \in Heights /\ Height[Prev[hash]] \in Heights
           /\ Height[common] \in Heights
<1>. USE DEF LinkInv, Safety, OldLoop, NewLoop
<1>1. /\ BranchTraced /\ common = walk /\ latest = trial
      /\ branch \subseteq Valid
      /\ data_chain_exists(common)
      /\ LinkedTo(Height[common])
      /\ hash \in branch \cup {common} /\ hash # common /\ buf = hash
      /\ LinkedFrom(hash)
  BY DEF RevertSound
<1>2. hash \in blocks /\ hash \in Block /\ common \in blocks /\ common \in Block
  BY <1>1 DEF BranchTraced, LocalsStored, TypeOK
<1>3. hash \in branch /\ Height[hash] > Height[common]
  BY <1>1, <1>2 DEF BranchTraced
<1>4. Prev[hash] \in branch \cup {common} /\ Prev[hash] \in Block
  BY <1>1, <1>2, <1>3 DEF BranchTraced, TypeOK
<1>5. Height[hash] = Height[Prev[hash]] + 1
  BY <1>1, <1>3, <1>4, ValidHeights
<1>6. /\ Height[hash] \in Heights /\ Height[Prev[hash]] \in Heights
      /\ Height[common] \in Heights
  BY <1>2, <1>4, LedgerConstants
<1>. QED  BY <1>1, <1>2, <1>3, <1>4, <1>5, <1>6

\* Only the entry at its height changes when it is recorded.
LEMMA NewRecordEffect ==
    ASSUME LinkInv, Repaired = Statements, NewRecord
    PROVE  /\ pc = "record" /\ pc' = "new"
           /\ hash' = Prev[hash]
           /\ chain' = [chain EXCEPT ![Height[hash]] = hash]
           /\ chain \in [Heights -> MaybeBlock]
           /\ UNCHANGED <<blocks, limbo, mempool, scanVars, traceVars, common, latest,
                          index, asked, levels>>
<1>1. pc = "record" /\ pc' = "new"
  BY DEF NewRecord
<1>2. buf = hash /\ hash \in blocks
  BY <1>1, InHandKnown
<1>. QED
  BY <1>1, <1>2
  DEF NewRecord, data_chain_safe_set, Statements, msgVars, LinkInv, Safety, TypeOK

LEMMA NewRecordLinked ==
    ASSUME LinkInv, Repaired = Statements, NewRecord
    PROVE  RevertSound' /\ ChainLinked'
<1>. USE DEF LinkInv, Safety
<1>1. /\ pc = "record" /\ pc' = "new" /\ hash' = Prev[hash]
      /\ chain' = [chain EXCEPT ![Height[hash]] = hash]
      /\ UNCHANGED <<blocks, limbo, scanVars, traceVars, common, latest>>
  BY NewRecordEffect
<1>2. /\ BranchTraced /\ common = walk /\ latest = trial
      /\ branch \subseteq Valid
      /\ data_chain_exists(common)
      /\ LinkedTo(Height[common])
      /\ LinkedFrom(hash)
  BY <1>1, InHandKnown
<1>3. hash \in blocks /\ hash \in Block /\ common \in blocks /\ common \in Block
  BY <1>1, InHandKnown
<1>4. hash \in branch /\ Height[hash] > Height[common]
  BY <1>1, InHandKnown
<1>5. hash' \in branch \cup {common} /\ hash' \in Block
  BY <1>1, InHandKnown
<1>6. Height[hash] = Height[hash'] + 1
  BY <1>1, InHandKnown
<1>7. Height[hash] \in Heights /\ Height[hash'] \in Heights /\ Height[common] \in Heights
  BY <1>1, InHandKnown
<1>8. chain' = [chain EXCEPT ![Height[hash]] = hash]
  BY <1>1
<1>9. \A h \in ChainHeights' : h \in Heights /\ (h = Height[hash] \/ h \in ChainHeights)
  BY <1>7, <1>8 DEF ChainHeights, TypeOK
<1>10. data_chain_exists(common)'
  BY <1>1, <1>2, <1>4, <1>7, <1>8 DEF data_chain_exists, TypeOK, Heights
<1>11. LinkedTo(Height[common])'
  <2>1. \A h \in Heights : h <= Height[common] => chain'[h] = chain[h]
    BY <1>4, <1>7, <1>8 DEF TypeOK, Heights
  <2>2. common' = common /\ 0 \in Heights /\ 0 <= Height[common]
    BY <1>1, <1>7, LedgerConstants DEF Heights
  <2>3. ASSUME NEW h \in ChainHeights' \ {0}, h <= Height[common]
        PROVE  chain'[h - 1] # Absent /\ Prev[chain'[h]] = chain'[h - 1]
    <3>1. h \in ChainHeights /\ h - 1 \in Heights /\ h - 1 <= Height[common]
      BY <1>4, <1>7, <1>9, <2>3, LedgerConstants DEF Heights
    <3>. QED  BY <1>2, <1>9, <2>1, <2>3, <3>1 DEF LinkedTo
  <2>. QED  BY <1>2, <2>1, <2>2, <2>3 DEF LinkedTo
<1>12. LinkedFrom(hash)'
  <2>1. ASSUME NEW h \in ChainHeights', h = Height[hash'] + 1
        PROVE  Prev[chain'[h]] = hash'
    BY <1>1, <1>5, <1>6, <1>7, <1>8, <2>1 DEF TypeOK
  <2>2. ASSUME NEW h \in ChainHeights', h > Height[hash'] + 1
        PROVE  chain'[h - 1] # Absent /\ Prev[chain'[h]] = chain'[h - 1]
    <3>1. /\ h \in ChainHeights /\ h \in Heights /\ h - 1 \in Heights
          /\ h > Height[hash] /\ chain'[h] = chain[h]
      BY <1>6, <1>7, <1>8, <1>9, <2>2, LedgerConstants DEF TypeOK, Heights
    <3>2. CASE h = Height[hash] + 1
      <4>1. Prev[chain[h]] = hash
        BY <1>2, <3>1, <3>2 DEF LinkedFrom
      <4>2. chain'[h - 1] = hash
        BY <1>7, <1>8, <3>2 DEF TypeOK, Heights
      <4>. QED  BY <1>3, <3>1, <4>1, <4>2, LedgerConstants
    <3>3. CASE h > Height[hash] + 1
      <4>1. chain[h - 1] # Absent /\ Prev[chain[h]] = chain[h - 1]
        BY <1>2, <3>1, <3>3 DEF LinkedFrom
      <4>2. chain'[h - 1] = chain[h - 1]
        BY <1>7, <1>8, <3>1, <3>3 DEF TypeOK, Heights
      <4>. QED  BY <3>1, <4>1, <4>2
    <3>. QED  BY <1>7, <3>1, <3>2, <3>3 DEF Heights
  <2>. QED  BY <2>1, <2>2 DEF LinkedFrom
<1>13. BranchTraced'
  BY <1>1, <1>2 DEF BranchTraced, traceVars
<1>. QED
  BY <1>1, <1>2, <1>5, <1>10, <1>11, <1>12, <1>13
  DEF RevertSound, ChainLinked, scanVars, traceVars, OldLoop, NewLoop

\* The rest of data_blocks_revert.
LEMMA RevertLinked ==
    ASSUME LinkInv, Repaired = Statements,
           \/ BeginRevert
           \/ OldBlock
           \/ OldListed
           \/ OldDone
           \/ NewBlock
           \/ NewUnlisted
           \/ NewDone
           \/ Announce
    PROVE  RevertSound' /\ ChainLinked'
<1>. USE DEF LinkInv, Safety, dbVars, msgVars, blockVars, scanVars, traceVars,
             revertVars, OldLoop, NewLoop
<1>1. UNCHANGED <<blocks, chain>>
  BY DEF BeginRevert, OldBlock, OldListed, OldDone, NewBlock, NewUnlisted, NewDone,
         Announce
<1>2. CASE BeginRevert
  <2>1. /\ pc = "trace" /\ pc' \in {"old", "announce"} /\ ~ swapped /\ swapped'
        /\ common' = walk /\ latest' = trial
        /\ branch \subseteq Valid /\ data_chain_exists(walk)
        /\ UNCHANGED <<limbo, todo, scanHeight, trial, walk, branch>>
    BY <1>2, LedgerConstants DEF BeginRevert, Traced, is_valid_chain, Statements
  <2>2. ChainLinked /\ BranchTraced
    BY <2>1 DEF RevertSound
  <2>3. LinkedTo(Height[walk])
    BY <2>1, <2>2 DEF ChainLinked, LinkedTo
  <2>4. \A h \in ChainHeights : h < Height[trial]
    <3>1. trial \in Block /\ Height[trial] > scanHeight /\ scanHeight \in Heights
      BY <2>1 DEF RevertSound, LocalsStored, TypeOK
    <3>2. \A h \in ChainHeights : h <= scanHeight /\ h \in Heights
      BY <2>1 DEF RevertSound, ChainHeights
    <3>. QED  BY <3>1, <3>2, LedgerConstants DEF Heights
  <2>5. ChainLinked'
    BY <1>1, <2>1, <2>2 DEF ChainLinked, ChainHeights
  <2>6. BranchTraced'
    BY <1>1, <2>1, <2>2 DEF BranchTraced
  <2>7. /\ ChainHeights' = ChainHeights
        /\ data_chain_exists(walk)' /\ LinkedTo(Height[walk])'
    BY <1>1, <2>1, <2>3 DEF ChainHeights, data_chain_exists, LinkedTo
  <2>. QED
    BY <2>1, <2>4, <2>5, <2>6, <2>7
    DEF RevertSound, data_chain_exists, LinkedTo
<1>3. CASE OldBlock \/ OldListed
  <2>1. /\ pc \in OldLoop /\ pc' \in {"old", "oldtx", "announce"}
        /\ UNCHANGED <<todo, scanHeight, swapped, trial, walk, branch, common, latest>>
    BY <1>3 DEF OldBlock, OldListed
  <2>2. \A h \in Heights : \A y \in limbo'[h] : Height[y] = h
    <3>1. pc = "oldtx" => buf \in Block
      BY DEF LocalsStored, TypeOK
    <3>. QED  BY <1>3, <3>1, LimboHeightsKept DEF OldBlock, OldListed, RevertSound
  <2>3. ChainLinked'
    BY <1>1, <2>1 DEF ChainLinked, ChainHeights
  <2>4. BranchTraced'
    BY <1>1, <2>1 DEF RevertSound, BranchTraced
  <2>. QED  BY <1>1, <2>1, <2>2, <2>3, <2>4, LinksKept
            DEF RevertSound, data_chain_exists, LinkedTo
<1>4. CASE OldDone
  <2>1. /\ pc = "old" /\ pc' = "new" /\ hash' = trial
        /\ UNCHANGED <<limbo, todo, scanHeight, swapped, trial, walk, branch,
                       common, latest>>
    BY <1>4 DEF OldDone, RevertSound
  <2>2. LinkedFrom(trial)'
    <3>1. trial \in Block /\ Height[trial] \in Heights
      BY <2>1, LedgerConstants DEF LocalsStored
    <3>2. \A h \in ChainHeights : h \in Heights /\ h < Height[trial]
      BY <2>1 DEF RevertSound, ChainHeights
    <3>3. LinkedFrom(trial)
      BY <3>1, <3>2, LedgerConstants DEF LinkedFrom, Heights
    <3>. QED  BY <1>1, <2>1, <3>3 DEF LinkedFrom, ChainHeights
  <2>3. BranchTraced'
    BY <1>1, <2>1 DEF RevertSound, BranchTraced
  <2>4. ChainLinked'
    BY <2>1 DEF ChainLinked
  <2>5. hash' \in branch' \cup {common'} /\ LinkedFrom(hash)'
    BY <2>1, <2>2 DEF RevertSound, BranchTraced, LinkedFrom
  <2>. QED  BY <1>1, <2>1, <2>3, <2>4, <2>5, LinksKept
            DEF RevertSound, data_chain_exists, LinkedTo
<1>5. CASE NewBlock \/ NewUnlisted
  <2>1. /\ pc \in NewLoop /\ pc' \in {"newtx", "record"}
        /\ UNCHANGED <<todo, scanHeight, swapped, trial, walk, branch, common, latest,
                       hash>>
    BY <1>5 DEF NewBlock, NewUnlisted
  <2>2. \A h \in Heights : \A y \in limbo'[h] : Height[y] = h
    <3>1. pc = "newtx" => buf \in Block
      BY DEF LocalsStored, TypeOK
    <3>. QED  BY <1>5, <3>1, LimboHeightsKept DEF NewBlock, NewUnlisted, RevertSound
  <2>3. buf' = hash /\ hash # common
    <3>1. CASE NewUnlisted
      BY <3>1 DEF NewUnlisted, RevertSound
    <3>2. CASE NewBlock
      <4>1. pc = "new" /\ hash \in branch \cup {common} /\ BranchTraced
        BY <3>2 DEF NewBlock, RevertSound
      <4>2. hash \in blocks
        BY <4>1 DEF BranchTraced, LocalsStored
      <4>. QED  BY <3>2, <4>2 DEF NewBlock, NewCurrent, AtCommon, data_blocks_get
    <3>. QED  BY <1>5, <3>1, <3>2
  <2>4. BranchTraced'
    BY <1>1, <2>1 DEF RevertSound, BranchTraced
  <2>5. ChainLinked'
    BY <2>1 DEF ChainLinked
  <2>. QED  BY <1>1, <2>1, <2>2, <2>3, <2>4, <2>5, LinksKept
            DEF RevertSound, data_chain_exists, LinkedTo, LinkedFrom
<1>6. CASE NewDone
  <2>1. /\ pc = "new" /\ pc' = "announce"
        /\ BranchTraced /\ common = walk /\ branch \subseteq Valid
        /\ data_chain_exists(common) /\ LinkedTo(Height[common])
        /\ hash \in branch \cup {common} /\ LinkedFrom(hash)
        /\ UNCHANGED <<limbo, todo, scanHeight, swapped>>
    BY <1>6 DEF NewDone, RevertSound
  <2>2. hash \in blocks /\ common \in Block /\ Height[common] \in Heights
    BY <2>1, LedgerConstants DEF BranchTraced, LocalsStored, TypeOK
  <2>3. hash = common
    BY <1>6, <2>1, <2>2, LedgerConstants
    DEF NewDone, AtCommon, NewCurrent, data_blocks_get, BranchTraced, TypeOK, Heights
  <2>4. ASSUME NEW h \in ChainHeights \ {0}
        PROVE  chain[h - 1] # Absent /\ Prev[chain[h]] = chain[h - 1]
    <3>1. h \in Int /\ Height[common] \in Int
      BY <2>2, <2>4 DEF ChainHeights, Heights
    <3>2. CASE h <= Height[common]
      BY <2>1, <2>4, <3>2 DEF LinkedTo
    <3>3. CASE h = Height[common] + 1
      <4>1. Prev[chain[h]] = common
        BY <2>1, <2>3, <2>4, <3>3 DEF LinkedFrom
      <4>2. chain[h - 1] = common
        BY <2>1, <2>2, <3>1, <3>3 DEF data_chain_exists
      <4>. QED  BY <2>2, <4>1, <4>2, LedgerConstants
    <3>4. CASE h > Height[common] + 1
      BY <2>1, <2>3, <2>4, <3>4 DEF LinkedFrom
    <3>. QED  BY <3>1, <3>2, <3>3, <3>4
  <2>5. ChainLinked'
    BY <1>1, <2>1, <2>4 DEF LinkedTo, ChainLinked, ChainHeights
  <2>. QED  BY <2>1, <2>5 DEF RevertSound
<1>7. CASE Announce
  <2>1. ChainLinked'
    BY <1>1, <1>7 DEF Announce, ChainLinked, ChainHeights
  <2>2. /\ pc = "announce" /\ pc' = "pick" /\ swapped' = swapped
        /\ UNCHANGED <<limbo, todo, scanHeight>>
    BY <1>7 DEF Announce
  <2>3. swapped
    BY <2>2 DEF RevertSound
  <2>. QED  BY <2>1, <2>2, <2>3 DEF RevertSound
<1>. QED  BY <1>2, <1>3, <1>4, <1>5, <1>6, <1>7

LEMMA LinkStep ==
    ASSUME Repaired = Statements
    PROVE  LinkInv /\ [Next]_vars => LinkInv'
<1>. SUFFICES ASSUME LinkInv, [Next]_vars PROVE LinkInv'
  OBVIOUS
<1>1. Safety'
  BY SafetyStep DEF LinkInv
<1>2. RevertSound' /\ ChainLinked'
  <2>1. CASE \E b \in Block : ReceiveBlock(b)
    BY <2>1, ArrivalLinked
  <2>2. CASE (\E t \in Tx : OldTx(t)) \/ (\E t \in Tx : NewTx(t)) \/ UNCHANGED vars
    BY <2>2, TxStepLinked DEF OldTx, NewTx, vars, dbVars, blockVars
  <2>3. CASE (\E t \in Tx : ReceiveTx(t)) \/ HandlerStep
    BY <2>2, <2>3, ArrivalLinked, PlaceBlockLinked, ScanLinked, NewRecordLinked,
       RevertLinked
    DEF HandlerStep
  <2>. QED  BY <2>1, <2>2, <2>3 DEF Next
<1>. QED  BY <1>1, <1>2 DEF LinkInv

\* With the statements corrected, the chain has no gaps and every block on it
\* names the one below as its predecessor, except while the second loop of
\* data_blocks_revert overwrites it, and again when that loop ends: for any
\* set of blocks arriving in any order, any number of times, whatever
\* valid_block answers.
THEOREM LedgerChainLinked ==
    ASSUME Repaired = Statements
    PROVE  Spec => []ChainLinked
<1>1. LinkInv => ChainLinked
  BY DEF LinkInv
<1>2. LinkInv /\ [Next]_vars => LinkInv'
  BY LinkStep
<1>. QED  BY LinkInit, <1>1, <1>2, PTL DEF Spec

------------------------------------------------------------------------------
(* A revert is one step of BestChain.                                      *)

\* Heights tell the blocks of a valid branch apart, and the one being tried
\* is the highest.
BranchLine ==
    /\ \A a, b \in branch : Height[a] = Height[b] => a = b
    /\ \A b \in branch : Height[b] <= Height[trial]

\* Above the block the second loop is about to record, the chain is exactly
\* the branch.
Replaced ==
    /\ \A b \in branch : Height[b] > Height[hash] => chain[Height[b]] = b
    /\ \A h \in ChainHeights : h > Height[hash] => chain[h] \in branch

LineSound ==
    /\ /\ pc \in {"trace"} \cup OldLoop \cup NewLoop
       /\ branch \subseteq Valid /\ walk \in Block
       => BranchLine
    /\ pc \in NewLoop => Replaced

LineInv == LinkInv /\ LineSound

LEMMA LineInit == Init => LineInv
  BY LinkInit DEF Init, LineInv, LineSound, OldLoop, NewLoop

\* Going one block back keeps the heights of a valid branch apart.
LEMMA TraceStepLine ==
    ASSUME LineInv, TraceStep, (branch \subseteq Valid /\ walk \in Block)'
    PROVE  BranchLine'
<1>. USE DEF LineInv, LinkInv, Safety
<1>1. /\ pc = "trace" /\ walk \in blocks /\ walk \in Block
      /\ branch' = branch \cup {walk} /\ trial' = trial
      /\ branch \subseteq Valid
  BY DEF TraceStep, TypeOK
<1>2. BranchLine /\ BranchTraced
  BY <1>1 DEF LineSound, RevertSound
<1>3. trial \in Block /\ branch \subseteq Block
  BY <1>1 DEF LocalsStored, TypeOK
<1>4. \A b \in Block : Height[b] \in Int
  BY LedgerConstants DEF Heights
<1>5. \A b \in branch : Height[b] > Height[walk]
  BY <1>1, <1>2 DEF BranchTraced
<1>6. trial = walk \/ trial \in branch
  BY <1>2 DEF BranchTraced
<1>7. Height[walk] <= Height[trial]
  BY <1>1, <1>3, <1>4, <1>5, <1>6
<1>8. \A a, b \in branch' : Height[a] = Height[b] => a = b
  BY <1>1, <1>2, <1>3, <1>4, <1>5 DEF BranchLine
<1>9. \A b \in branch' : Height[b] <= Height[trial']
  BY <1>1, <1>2, <1>7 DEF BranchLine
<1>. QED  BY <1>8, <1>9 DEF BranchLine

\* The loop records the next block of the branch.
LEMMA NewRecordLine ==
    ASSUME LineInv, Repaired = Statements, NewRecord
    PROVE  Replaced'
<1>1. /\ pc = "record" /\ branch' = branch /\ branch \subseteq Block
      /\ branch \subseteq Valid /\ hash \in branch
      /\ Height[hash] \in Heights /\ Height[hash'] \in Heights
      /\ Height[hash] = Height[hash'] + 1
      /\ chain' = [chain EXCEPT ![Height[hash]] = hash]
      /\ chain \in [Heights -> MaybeBlock]
      /\ walk \in Block
  BY NewRecordEffect, InHandKnown DEF LineInv, LinkInv, Safety, TypeOK, traceVars
<1>2. BranchLine /\ Replaced
  BY <1>1 DEF LineInv, LineSound, NewLoop
<1>3. \A b \in branch : Height[b] \in Heights
  BY <1>1, LedgerConstants
<1>4. ASSUME NEW b \in branch, Height[b] > Height[hash']
      PROVE  chain'[Height[b]] = b
  <2>1. CASE Height[b] = Height[hash]
    BY <1>1, <1>2, <2>1 DEF BranchLine
  <2>2. CASE Height[b] # Height[hash]
    <3>1. Height[b] > Height[hash]
      BY <1>1, <1>3, <1>4, <2>2 DEF Heights
    <3>. QED  BY <1>1, <1>2, <1>3, <2>2, <3>1 DEF Replaced
  <2>. QED  BY <2>1, <2>2
<1>5. ASSUME NEW h \in ChainHeights', h > Height[hash']
      PROVE  chain'[h] \in branch
  <2>1. h \in Heights
    BY <1>5 DEF ChainHeights
  <2>2. CASE h = Height[hash]
    BY <1>1, <2>2
  <2>3. CASE h # Height[hash]
    <3>1. h > Height[hash] /\ chain'[h] = chain[h] /\ h \in ChainHeights
      BY <1>1, <1>5, <2>1, <2>3 DEF Heights, ChainHeights
    <3>. QED  BY <1>2, <3>1 DEF Replaced
  <2>. QED  BY <2>2, <2>3
<1>. QED  BY <1>1, <1>4, <1>5 DEF Replaced

LEMMA LineStep ==
    ASSUME Repaired = Statements
    PROVE  LineInv /\ [Next]_vars => LineInv'
<1>. SUFFICES ASSUME LineInv, [Next]_vars PROVE LineInv'
  OBVIOUS
<1>1. LinkInv'
  BY LinkStep DEF LineInv
<1>. USE DEF dbVars, msgVars, blockVars, scanVars, traceVars, revertVars, OldLoop,
             NewLoop
<1>2. CASE TraceStep
  BY <1>1, <1>2, TraceStepLine DEF TraceStep, LineInv, LineSound
<1>3. CASE NewRecord
  <2>1. Replaced' /\ UNCHANGED traceVars /\ pc = "record"
    BY <1>3, NewRecordLine DEF NewRecord
  <2>. QED  BY <1>1, <2>1 DEF LineInv, LineSound, BranchLine
<1>4. CASE OldDone
  <2>1. /\ pc = "old" /\ hash' = trial /\ UNCHANGED <<chain, traceVars>>
        /\ trial \in Block
    BY <1>4 DEF OldDone, LineInv, LinkInv, RevertSound, Safety, LocalsStored
  <2>2. \A h \in ChainHeights : h < Height[trial] /\ h \in Heights
    BY <2>1 DEF LineInv, LinkInv, RevertSound, ChainHeights
  <2>3. walk \in Block /\ branch \subseteq Valid /\ branch \subseteq Block
    BY <2>1 DEF LineInv, LinkInv, RevertSound, Safety, LocalsStored, TypeOK
  <2>4. BranchLine
    BY <2>1, <2>3 DEF LineInv, LineSound
  <2>5. Replaced'
    <3>1. \A b \in branch : ~ Height[b] > Height[trial]
      BY <2>1, <2>3, <2>4, LedgerConstants DEF BranchLine, Heights
    <3>2. \A h \in ChainHeights : ~ h > Height[trial]
      BY <2>1, <2>2, LedgerConstants DEF Heights
    <3>. QED  BY <2>1, <3>1, <3>2 DEF Replaced, ChainHeights
  <2>. QED  BY <1>1, <2>1, <2>4, <2>5 DEF LineInv, LineSound, BranchLine
<1>5. CASE \E b \in Block : PickHash(b)
  BY <1>1, <1>5 DEF PickHash, LineInv, LineSound, BranchLine
<1>6. CASE BeginRevert \/ OldBlock \/ OldListed
  <2>1. UNCHANGED traceVars /\ pc \in {"trace", "old", "oldtx"} /\ pc' \notin NewLoop
    BY <1>6 DEF BeginRevert, OldBlock, OldListed, Traced
  <2>. QED  BY <1>1, <2>1 DEF LineInv, LineSound, BranchLine
<1>7. CASE NewBlock \/ NewUnlisted
  <2>1. UNCHANGED <<chain, traceVars, hash>> /\ pc \in NewLoop /\ pc' \in NewLoop
    BY <1>7 DEF NewBlock, NewUnlisted
  <2>. QED
    BY <1>1, <2>1 DEF LineInv, LineSound, BranchLine, Replaced, ChainHeights
<1>8. CASE \/ \E b \in Block : ReceiveBlock(b)
           \/ \E t \in Tx : IndexTx(t)
           \/ StoreBlock
           \/ PlaceBlock
           \/ BeginScan
           \/ \E h \in Heights : ReadLevel(h)
           \/ EndScan
           \/ LevelDone
           \/ Chase
           \/ GiveUp
           \/ NewDone
           \/ Announce
  <2>1. pc' \notin {"trace"} \cup OldLoop \cup NewLoop
    BY <1>8 DEF ReceiveBlock, IndexTx, StoreBlock, PlaceBlock, BeginScan, ReadLevel,
                EndScan, LevelDone, Chase, GiveUp, NewDone, Announce
  <2>. QED  BY <1>1, <2>1 DEF LineInv, LineSound
<1>9. CASE \/ \E t \in Tx : ReceiveTx(t) \/ OldTx(t) \/ NewTx(t)
           \/ UNCHANGED vars
  <2>1. UNCHANGED <<chain, pc, traceVars, hash>>
    BY <1>9 DEF ReceiveTx, OldTx, NewTx, vars
  <2>. QED
    BY <1>1, <2>1 DEF LineInv, LineSound, BranchLine, Replaced, ChainHeights
<1>. QED
  BY <1>2, <1>3, <1>4, <1>5, <1>6, <1>7, <1>8, <1>9 DEF Next, HandlerStep

\* The chain with the branch in the place of what is above the common block.
Spliced ==
    [h \in Heights |->
        IF h <= Height[common] THEN chain[h]
        ELSE IF \E b \in branch : Height[b] = h
        THEN CHOOSE b \in branch : Height[b] = h
        ELSE Absent]

LEMMA SettledIs ==
    ASSUME Repaired = Statements
    PROVE  SettledChain = IF pc \in NewLoop THEN Spliced ELSE chain
  BY DEF SettledChain, Spliced, Statements

\* What is known of a revert in both of its loops.
LEMMA InRevert ==
    ASSUME LineInv, pc \in OldLoop \cup NewLoop
    PROVE  /\ common = walk /\ common \in blocks /\ common \in Block
           /\ Height[common] \in Heights
           /\ chain \in [Heights -> MaybeBlock]
           /\ chain[Height[common]] = common /\ LinkedTo(Height[common])
           /\ branch \subseteq blocks /\ branch \subseteq Block
           /\ branch \subseteq Valid
           /\ \A b \in branch : /\ Height[b] \in Heights
                                /\ Height[b] > Height[common]
                                /\ Prev[b] \in branch \cup {common}
                                /\ Height[b] = Height[Prev[b]] + 1
           /\ BranchLine
<1>. USE DEF LineInv, LinkInv, Safety
<1>1. /\ common = walk /\ common \in blocks /\ common \in Block
      /\ branch \subseteq Valid /\ BranchTraced
      /\ data_chain_exists(common) /\ LinkedTo(Height[common])
  BY DEF RevertSound, LocalsStored, TypeOK
<1>2. Height[common] \in Heights /\ chain[Height[common]] = common
  BY <1>1, LedgerConstants DEF data_chain_exists
<1>3. branch \subseteq blocks /\ branch \subseteq Block
  BY <1>1 DEF BranchTraced, TypeOK
<1>4. ASSUME NEW b \in branch
      PROVE  /\ Height[b] \in Heights
             /\ Height[b] > Height[common]
             /\ Prev[b] \in branch \cup {common}
             /\ Height[b] = Height[Prev[b]] + 1
  <2>1. Height[b] \in Heights
    BY <1>3, LedgerConstants
  <2>2. Height[b] > Height[common] /\ Prev[b] \in branch \cup {common}
    BY <1>1 DEF BranchTraced
  <2>3. Prev[b] \in Block /\ b \in Valid
    BY <1>1, <1>3, <2>2
  <2>. QED  BY <2>1, <2>2, <2>3, ValidHeights
<1>5. BranchLine
  BY <1>1 DEF LineSound
<1>. QED  BY <1>1, <1>2, <1>3, <1>4, <1>5 DEF TypeOK

LEMMA SplicedIs ==
    ASSUME LineInv, pc \in OldLoop \cup NewLoop
    PROVE  /\ Spliced \in [Heights -> MaybeBlock]
           /\ \A h \in Heights : h <= Height[common] => Spliced[h] = chain[h]
           /\ \A b \in branch : Spliced[Height[b]] = b
           /\ \A h \in Heights : Spliced[h] # Absent /\ h > Height[common] =>
                  Spliced[h] \in branch /\ Height[Spliced[h]] = h
<1>1. ASSUME NEW h \in Heights, NEW b \in branch, Height[b] = h
      PROVE  Spliced[h] = b /\ h > Height[common]
  <2>1. h > Height[common] /\ ~ h <= Height[common]
    BY <1>1, InRevert DEF Heights
  <2>2. (CHOOSE y \in branch : Height[y] = h) = b
    BY <1>1, InRevert DEF BranchLine
  <2>. QED  BY <1>1, <2>1, <2>2 DEF Spliced
<1>2. ASSUME NEW h \in Heights, ~ \E b \in branch : Height[b] = h
      PROVE  Spliced[h] = IF h <= Height[common] THEN chain[h] ELSE Absent
  BY <1>2 DEF Spliced
<1>3. \A h \in Heights : h <= Height[common] => Spliced[h] = chain[h]
  BY DEF Spliced
<1>4. \A h \in Heights : h > Height[common] => ~ h <= Height[common]
  BY InRevert DEF Heights
<1>5. ASSUME NEW h \in Heights
      PROVE  /\ Spliced[h] \in MaybeBlock
             /\ Spliced[h] # Absent /\ h > Height[common] =>
                    Spliced[h] \in branch /\ Height[Spliced[h]] = h
  <2>1. CASE \E b \in branch : Height[b] = h
    BY <1>1, <2>1, InRevert DEF MaybeBlock
  <2>2. CASE ~ \E b \in branch : Height[b] = h
    BY <1>2, <1>4, <2>2, InRevert DEF MaybeBlock
  <2>. QED  BY <2>1, <2>2
<1>6. Spliced \in [Heights -> MaybeBlock]
  <2>1. Spliced = [h \in Heights |-> Spliced[h]]
    BY DEF Spliced
  <2>. QED  BY <1>5, <2>1
<1>. QED  BY <1>1, <1>3, <1>5, <1>6, InRevert

\* The spliced chain is a line of stored blocks.
LEMMA SplicedLinked ==
    ASSUME LineInv, pc \in OldLoop \cup NewLoop
    PROVE  Best!Linked(Spliced) /\ \A h \in Heights : Spliced[h] # Absent => Spliced[h] \in blocks
<1>1. 0 \in Heights /\ 0 <= Height[common]
  BY InRevert, LedgerConstants DEF Heights
<1>2. Spliced[0] = Genesis
  BY <1>1, SplicedIs, InRevert DEF LinkedTo
<1>3. ASSUME NEW h \in Heights \ {0}, Spliced[h] # Absent
      PROVE  Spliced[h - 1] # Absent /\ Prev[Spliced[h]] = Spliced[h - 1]
  <2>1. h - 1 \in Heights
    BY <1>3, LedgerConstants DEF Heights
  <2>2. CASE h <= Height[common]
    <3>1. h - 1 <= Height[common] /\ h \in ChainHeights
      BY <1>3, <2>1, <2>2, SplicedIs, InRevert DEF ChainHeights, Heights
    <3>. QED  BY <1>3, <2>1, <2>2, <3>1, SplicedIs, InRevert DEF LinkedTo
  <2>3. CASE h > Height[common]
    <3>1. PICK b \in branch : b = Spliced[h] /\ Height[b] = h
      BY <1>3, <2>3, SplicedIs
    <3>2. Prev[b] \in branch \cup {common} /\ Prev[b] \in Block
          /\ Height[Prev[b]] = h - 1
      <4>1. Prev[b] \in branch \cup {common} /\ Height[b] = Height[Prev[b]] + 1
        BY <3>1, InRevert
      <4>2. Prev[b] \in Block /\ Height[Prev[b]] \in Heights
        BY <4>1, InRevert, LedgerConstants
      <4>3. h \in Int /\ Height[Prev[b]] \in Int
        BY <4>2 DEF Heights
      <4>4. h = Height[Prev[b]] + 1
        BY <3>1, <4>1
      <4>5. Height[Prev[b]] = h - 1
        BY <4>3, <4>4
      <4>. QED  BY <4>1, <4>2, <4>5
    <3>3. Spliced[h - 1] = Prev[b]
      <4>1. CASE Prev[b] \in branch
        BY <3>2, <4>1, SplicedIs
      <4>2. CASE Prev[b] = common
        <5>1. Spliced[h - 1] = chain[Height[common]]
          BY <2>1, <3>2, <4>2, SplicedIs, InRevert DEF Heights
        <5>. QED  BY <4>2, <5>1, InRevert
      <4>. QED  BY <3>2, <4>1, <4>2
    <3>. QED  BY <3>1, <3>2, <3>3, LedgerConstants
  <2>. QED  BY <1>3, <2>2, <2>3, InRevert DEF Heights
<1>4. ASSUME NEW h \in Heights, Spliced[h] # Absent
      PROVE  Spliced[h] \in blocks
  <2>1. CASE h <= Height[common]
    BY <1>4, <2>1, SplicedIs DEF LineInv, LinkInv, Safety, ChainStored, ChainHeights
  <2>2. CASE h > Height[common]
    BY <1>4, <2>2, SplicedIs, InRevert
  <2>. QED  BY <2>1, <2>2, InRevert DEF Heights
<1>. QED
  BY <1>2, <1>3, <1>4 DEF Best!Linked, Best!Recorded, Best!BestHeights, Heights

\* When the second loop has come down to the common block the chain is the
\* spliced one.
LEMMA SplicedAtEnd ==
    ASSUME LineInv, pc = "new", hash = common
    PROVE  Spliced = chain
<1>1. Replaced /\ pc \in OldLoop \cup NewLoop
  BY DEF LineInv, LineSound, NewLoop
<1>2. ASSUME NEW h \in Heights
      PROVE  Spliced[h] = chain[h]
  <2>1. CASE h <= Height[common]
    BY <1>1, <2>1, SplicedIs
  <2>2. CASE h > Height[common] /\ Spliced[h] # Absent
    BY <1>1, <2>2, SplicedIs, InRevert DEF Replaced
  <2>3. CASE h > Height[common] /\ chain[h] # Absent
    <3>1. chain[h] \in branch
      BY <1>1, <2>3 DEF Replaced, ChainHeights
    <3>2. Height[chain[h]] = h
      BY <2>3 DEF LineInv, LinkInv, Safety, ChainStored, ChainHeights
    <3>. QED  BY <1>1, <3>1, <3>2, SplicedIs
  <2>. QED  BY <1>1, <2>1, <2>2, <2>3, InRevert DEF Heights
<1>3. Spliced = [h \in Heights |-> Spliced[h]] /\ chain = [h \in Heights |-> chain[h]]
  BY <1>1, InRevert DEF Spliced
<1>. QED  BY <1>2, <1>3

\* Appending to the chain makes it higher.
LEMMA PlaceBlockBest ==
    ASSUME LineInv, LineInv', Repaired = Statements, PlaceBlock
    PROVE  Best!BestNext \/ UNCHANGED Best!bestVars
<1>. USE DEF LineInv, LinkInv, Safety
<1>1. pc = "place" /\ pc' = "begin" /\ UNCHANGED blocks
  BY DEF PlaceBlock
<1>2. SettledChain = chain /\ SettledChain' = chain'
  BY <1>1 DEF SettledChain, NewLoop
<1>3. CASE chain' = chain
  BY <1>1, <1>2, <1>3 DEF Best!bestVars
<1>4. CASE chain' # chain
  <2>1. /\ chain'[Height[arrived]] = arrived /\ Height[arrived] \in Heights
        /\ \A h \in ChainHeights : h < Height[arrived]
    BY <1>4, PlaceBlockLinked
  <2>2. arrived # Absent
    BY <1>1, LedgerConstants DEF LocalsStored
  <2>3. Best!Higher(chain, chain')
    BY <2>1, <2>2
    DEF Best!Higher, Best!Recorded, Best!BestHeights, Heights, ChainHeights
  <2>4. Best!Linked(chain')
    BY <1>1
    DEF ChainLinked, NewLoop, ChainHeights, Heights, Best!Linked, Best!Recorded,
        Best!BestHeights
  <2>5. \A h \in Best!Recorded(chain') : chain'[h] \in blocks'
    BY DEF ChainStored, ChainHeights, Heights, Best!Recorded, Best!BestHeights
  <2>6. chain' \in [Best!BestHeights -> Block \cup {Absent}]
    BY DEF TypeOK, Best!BestHeights, Heights, MaybeBlock
  <2>7. blocks' \subseteq Block /\ blocks \subseteq blocks'
    BY <1>1 DEF TypeOK
  <2>. QED
    BY <1>2, <2>3, <2>4, <2>5, <2>6, <2>7 DEF Best!BestNext, Best!Adopt
<1>. QED  BY <1>3, <1>4

\* The end of the first loop is the moment the chain changes for a reader
\* that waits for the end of a revert.
LEMMA OldDoneBest ==
    ASSUME LineInv, LineInv', Repaired = Statements, OldDone
    PROVE  Best!BestNext
<1>1. /\ pc = "old" /\ pc' = "new"
      /\ UNCHANGED <<blocks, chain, common, trial, walk, branch>>
  BY DEF OldDone, dbVars, traceVars
<1>. USE DEF OldLoop, NewLoop
<1>2. SettledChain = chain /\ SettledChain' = Spliced'
  BY <1>1, SettledIs DEF SettledChain, Spliced, Statements
<1>3. Spliced' = Spliced
  BY <1>1 DEF Spliced
<1>4. trial \in branch /\ \A h \in ChainHeights : h < Height[trial]
  <2>1. /\ trial \in branch \cup {walk}
        /\ \A h \in ChainHeights : h < Height[trial]
    BY <1>1 DEF LineInv, LinkInv, RevertSound, BranchTraced
  <2>2. Height[common] \in ChainHeights /\ Height[common] \in Int
    BY <1>1, InRevert, LedgerConstants DEF ChainHeights, Heights
  <2>3. trial # walk
    BY <1>1, <2>1, <2>2, InRevert
  <2>. QED  BY <2>1, <2>3
<1>5. Height[trial] \in Heights /\ Spliced[Height[trial]] # Absent
  BY <1>1, <1>4, SplicedIs, InRevert, LedgerConstants
<1>6. Best!Higher(chain, Spliced)
  BY <1>4, <1>5
  DEF Best!Higher, Best!Recorded, Best!BestHeights, Heights, ChainHeights
<1>7. /\ Best!Linked(Spliced)
      /\ \A h \in Best!Recorded(Spliced) : Spliced[h] \in blocks
      /\ Spliced \in [Best!BestHeights -> Block \cup {Absent}]
  BY <1>1, SplicedLinked, SplicedIs
  DEF Best!Recorded, Best!BestHeights, Heights, MaybeBlock
<1>8. blocks \subseteq Block
  BY DEF LineInv, LinkInv, Safety, TypeOK
<1>. QED
  BY <1>1, <1>2, <1>3, <1>6, <1>7, <1>8 DEF Best!BestNext, Best!Adopt

\* The steps a reader of the settled chain does not see.
LEMMA SettledKept ==
    ASSUME LineInv, Repaired = Statements,
           \/ NewRecord
           \/ NewDone
           \/ /\ (pc \in NewLoop) = (pc' \in NewLoop)
              /\ UNCHANGED <<chain, common, branch>>
           \/ pc \notin NewLoop /\ pc' \notin NewLoop /\ UNCHANGED chain
    PROVE  SettledChain' = SettledChain
<1>1. CASE NewRecord
  <2>1. /\ pc \in NewLoop /\ pc' \in NewLoop /\ UNCHANGED <<common, branch>>
        /\ Height[hash] > Height[common] /\ Height[common] \in Heights
        /\ Height[hash] \in Heights
        /\ chain' = [chain EXCEPT ![Height[hash]] = hash]
        /\ chain \in [Heights -> MaybeBlock]
    BY <1>1, NewRecordEffect, InHandKnown DEF LineInv, traceVars, NewLoop
  <2>2. \A h \in Heights : h <= Height[common] => chain'[h] = chain[h]
    BY <2>1 DEF Heights
  <2>3. Spliced' = Spliced
    BY <2>1, <2>2 DEF Spliced
  <2>4. SettledChain = Spliced /\ SettledChain' = Spliced'
    BY <2>1 DEF SettledChain, Spliced, Statements
  <2>. QED  BY <2>3, <2>4
<1>2. CASE NewDone
  <2>1. pc = "new" /\ pc' = "announce" /\ UNCHANGED chain
    BY <1>2 DEF NewDone, dbVars
  <2>2. pc \in NewLoop /\ pc' \notin NewLoop
    BY <2>1 DEF NewLoop
  <2>3. hash \in branch \cup {common} /\ hash \in blocks
    BY <2>2, InRevert DEF LineInv, LinkInv, RevertSound
  <2>4. Height[hash] = Height[common]
    BY <1>2, <2>3 DEF NewDone, AtCommon, NewCurrent, data_blocks_get
  <2>5. hash = common
    BY <2>2, <2>3, <2>4, InRevert DEF Heights
  <2>. QED  BY <2>1, <2>2, <2>5, SplicedAtEnd DEF SettledChain, Spliced
<1>3. CASE (pc \in NewLoop) = (pc' \in NewLoop) /\ UNCHANGED <<chain, common, branch>>
  BY <1>3 DEF SettledChain
<1>4. CASE pc \notin NewLoop /\ pc' \notin NewLoop /\ UNCHANGED chain
  BY <1>4 DEF SettledChain
<1>. QED  BY <1>1, <1>2, <1>3, <1>4

\* With the statements corrected, the handlers keep the promise of BestChain
\* for any set of blocks arriving in any order, whatever valid_block answers: a
\* chain that waits for the end of data_blocks_revert is replaced only by a
\* strictly higher line of stored, linked blocks, in one step.
THEOREM LedgerBestChain ==
    ASSUME Repaired = Statements
    PROVE  Spec => ImplementsBestChain
<1>1. Init => Best!BestInit
  BY SettledIs DEF Init, Best!BestInit, Best!BestHeights, Heights, SettledChain, NewLoop
<1>2. LineInv /\ LineInv' /\ [Next]_vars => [Best!BestNext]_Best!bestVars
  <2>. SUFFICES ASSUME LineInv, LineInv', [Next]_vars
                PROVE  Best!BestNext \/ UNCHANGED Best!bestVars
    OBVIOUS
  <2>1. CASE StoreBlock
    <3>1. /\ pc \notin NewLoop /\ pc' \notin NewLoop /\ UNCHANGED chain
          /\ blocks \subseteq blocks'
      BY <2>1 DEF StoreBlock, NewLoop
    <3>2. blocks' \subseteq Block
      BY DEF LineInv, LinkInv, Safety, TypeOK
    <3>. QED  BY <3>1, <3>2, SettledKept DEF Best!BestNext, Best!Store
  <2>2. CASE PlaceBlock
    BY <2>2, PlaceBlockBest
  <2>3. CASE OldDone
    BY <2>3, OldDoneBest
  <2>4. CASE NewRecord \/ NewDone
    BY <2>4, SettledKept DEF NewRecord, NewDone, dbVars, Best!bestVars
  <2>5. CASE \/ \E b \in Block : ReceiveBlock(b)
             \/ BeginScan
             \/ \E h \in Heights : ReadLevel(h)
             \/ EndScan
             \/ \E b \in Block : PickHash(b)
             \/ LevelDone
             \/ TraceStep
             \/ Chase
             \/ GiveUp
             \/ BeginRevert
             \/ Announce
    <3>1. pc \notin NewLoop /\ pc' \notin NewLoop /\ UNCHANGED <<blocks, chain>>
      BY <2>5 DEF ReceiveBlock, BeginScan, ReadLevel, EndScan, PickHash, LevelDone,
                  TraceStep, Chase, GiveUp, Traced, NotTraced, BeginRevert, Announce,
                  dbVars, NewLoop
    <3>. QED  BY <3>1, SettledKept DEF Best!bestVars
  <2>6. CASE \/ \E t \in Tx : ReceiveTx(t) \/ IndexTx(t) \/ OldTx(t) \/ NewTx(t)
             \/ OldBlock \/ OldListed \/ NewBlock \/ NewUnlisted
             \/ UNCHANGED vars
    <3>1. /\ UNCHANGED <<blocks, chain, common, branch>>
          /\ (pc \in NewLoop) = (pc' \in NewLoop)
      BY <2>6 DEF ReceiveTx, IndexTx, OldTx, NewTx, OldBlock, OldListed, NewBlock,
                  NewUnlisted, vars, dbVars, traceVars, revertVars, NewLoop
    <3>. QED  BY <3>1, SettledKept DEF Best!bestVars
  <2>. QED  BY <2>1, <2>2, <2>3, <2>4, <2>5, <2>6 DEF Next, HandlerStep
<1>3. LineInv /\ [Next]_vars => LineInv'
  BY LineStep
<1>. QED
  BY LineInit, <1>1, <1>2, <1>3, PTL DEF Spec, ImplementsBestChain, Best!BestSpec

------------------------------------------------------------------------------
(* What a revert does with the blocks it displaces.                        *)

TxsAbove(h) == UNION {Txs[chain[k]] : k \in {k \in ChainHeights : k > h}}

\* The block that is about to take the place of the one at height h.
Replacing(h) == pc = "record" /\ h = Height[buf]

\* The block recorded at height h is listed in limbo, as far as its level
\* has room; the block that replaces it has just left that level.
ListedAt(h) ==
    \/ chain[h] \in limbo[h]
    \/ Cardinality(limbo[h]) >= LevelCap
    \/ /\ Replacing(h)
       /\ chain[h] = buf \/ Cardinality(limbo[h] \cup {buf}) >= LevelCap

\* The old block at height h is listed, and its transactions are in the
\* mempool, in the block in hand or in a new block, recorded above `top`.
Returned(h, top) ==
    /\ ListedAt(h)
    /\ Txs[chain[h]] \subseteq mempool \cup InHand \cup TxsAbove(top)

ReturnSound ==
    /\ \A h \in Heights : IsFiniteSet(limbo[h])
    /\ pc \in OldLoop =>
           /\ chain[index] # Absent
           /\ \A h \in ChainHeights : h > index => Returned(h, MaxHeight)
    /\ pc = "oldtx" => buf = chain[index] /\ Txs[buf] \subseteq mempool \cup body
    /\ pc \in NewLoop =>
           \A h \in ChainHeights :
               Height[common] < h /\ h <= Height[hash] => Returned(h, Height[hash])
    /\ pc = "newtx" => body \subseteq Txs[buf]

ReturnInv == LineInv /\ ReturnSound

LEMMA ReturnInit == Init => ReturnInv
  BY LineInit, FS_EmptySet DEF Init, ReturnInv, ReturnSound, OldLoop, NewLoop

\* Levels stay finite; a block that was added is listed unless there was no
\* room, and adding does not take another one off its level.
LEMMA LimboListed ==
    ASSUME TypeOK, \A h \in Heights : IsFiniteSet(limbo[h]), NEW b \in Block
    PROVE  /\ \A h \in Heights : IsFiniteSet(data_limbo_safe_add(b)[h])
           /\ \A h \in Heights : IsFiniteSet(data_limbo_del(b)[h])
           /\ \/ b \in data_limbo_safe_add(b)[Height[b]]
              \/ Cardinality(data_limbo_safe_add(b)[Height[b]]) >= LevelCap
           /\ data_limbo_del(b)[Height[b]] = limbo[Height[b]] \ {b}
           /\ \A h \in Heights : h # Height[b] =>
                  data_limbo_safe_add(b)[h] = limbo[h] /\ data_limbo_del(b)[h] = limbo[h]
<1>1. Height[b] \in Heights /\ limbo \in [Heights -> SUBSET Block]
  BY LedgerConstants DEF TypeOK
<1>. DEFINE l == limbo[Height[b]]
<1>2. IsFiniteSet(l \cup {b}) /\ IsFiniteSet(l \ {b})
  BY <1>1, FS_AddElement, FS_RemoveElement
<1>3. Cardinality(l) \in Nat /\ LevelCap \in Nat
  BY <1>1, FS_CardinalityType, LedgerConstants
<1>4. /\ data_limbo_safe_add(b) =
            [limbo EXCEPT ![Height[b]] =
                IF Cardinality(l) < LevelCap THEN l \cup {b} ELSE l]
      /\ data_limbo_del(b) = [limbo EXCEPT ![Height[b]] = l \ {b}]
  BY DEF data_limbo_safe_add, data_limbo_del
<1>. HIDE DEF l
<1>5. /\ data_limbo_safe_add(b)[Height[b]] =
            (IF Cardinality(l) < LevelCap THEN l \cup {b} ELSE l)
      /\ data_limbo_del(b)[Height[b]] = l \ {b}
      /\ \A h \in Heights : h # Height[b] =>
             data_limbo_safe_add(b)[h] = limbo[h] /\ data_limbo_del(b)[h] = limbo[h]
  BY <1>1, <1>4
<1>6. IsFiniteSet(l) /\ l = limbo[Height[b]]
  BY <1>1 DEF l
<1>. QED  BY <1>2, <1>3, <1>5, <1>6

\* A full level is still full with one more block.
LEMMA StillFull ==
    ASSUME NEW S, IsFiniteSet(S), NEW b, Cardinality(S) >= LevelCap
    PROVE  Cardinality(S \cup {b}) >= LevelCap
<1>1. IsFiniteSet(S \cup {b})
  BY FS_AddElement
<1>2. Cardinality(S) <= Cardinality(S \cup {b})
  BY <1>1, FS_Subset
<1>3. Cardinality(S) \in Nat /\ Cardinality(S \cup {b}) \in Nat /\ LevelCap \in Nat
  BY <1>1, FS_CardinalityType, LedgerConstants
<1>. QED  BY <1>2, <1>3

\* The first loop, one block: the one recorded at the loop's index.
LEMMA OldBlockEffect ==
    ASSUME ReturnInv, OldBlock
    PROVE  /\ pc = "old" /\ pc' = "oldtx" /\ chain[index] # Absent
           /\ buf' = chain[index] /\ body' = Txs[chain[index]]
           /\ UNCHANGED <<blocks, chain, limbo, mempool, index>>
<1>. USE DEF ReturnInv, LineInv, LinkInv, Safety, dbVars
<1>1. /\ pc = "old" /\ chain[index] # Absent /\ index \in Heights
      /\ hash' = chain[index]
      /\ UNCHANGED <<blocks, chain, limbo, mempool, index>>
  BY DEF OldBlock, ReturnSound, TypeOK, OldLoop
<1>2. index \in ChainHeights
  BY <1>1 DEF ChainHeights
<1>3. hash' \in blocks
  BY <1>1, <1>2 DEF ChainStored
<1>. QED  BY <1>1, <1>3 DEF OldBlock

LEMMA OldBlockReturned ==
    ASSUME ReturnInv, OldBlock
    PROVE  ReturnSound'
<1>1. /\ pc = "old" /\ pc' = "oldtx" /\ chain[index] # Absent
      /\ buf' = chain[index] /\ body' = Txs[chain[index]]
      /\ UNCHANGED <<blocks, chain, limbo, mempool, index>>
  BY OldBlockEffect
<1>2. ChainHeights' = ChainHeights
  BY <1>1 DEF ChainHeights
<1>3. \A h : Returned(h, MaxHeight) => Returned(h, MaxHeight)'
  BY <1>1, <1>2 DEF Returned, ListedAt, Replacing, InHand, TxsAbove
<1>. QED  BY <1>1, <1>2, <1>3 DEF ReturnInv, ReturnSound, OldLoop, NewLoop

\* Its transactions are all in the mempool when it is listed.
LEMMA OldListedReturned ==
    ASSUME ReturnInv, OldListed
    PROVE  ReturnSound'
<1>. USE DEF ReturnInv, LineInv, LinkInv, Safety, OldLoop, NewLoop
<1>1. /\ pc = "oldtx" /\ pc' = "old" /\ body = {} /\ buf = chain[index]
      /\ index > Height[common] /\ chain[index] # Absent
      /\ index \in Heights /\ index' = index - 1 /\ buf \in Block
      /\ limbo' = data_limbo_safe_add(buf)
      /\ Txs[buf] \subseteq mempool
      /\ UNCHANGED <<chain, mempool>>
  BY DEF OldListed, ReturnSound, LocalsStored, TypeOK
<1>2. index \in ChainHeights /\ Height[buf] = index /\ ChainHeights' = ChainHeights
  BY <1>1 DEF ChainHeights, ChainStored
<1>3. index # 0 /\ index' \in Heights
  BY <1>1, InRevert, LedgerConstants DEF Heights
<1>4. chain[index'] # Absent
  BY <1>1, <1>2, <1>3 DEF ChainLinked
<1>5. TypeOK /\ \A h \in Heights : IsFiniteSet(limbo[h])
  BY DEF ReturnSound
<1>6. InHand = {} /\ InHand' = {} /\ TxsAbove(MaxHeight)' = TxsAbove(MaxHeight)
  BY <1>1, <1>2 DEF InHand, TxsAbove
<1>7. ASSUME NEW h \in ChainHeights, h > index'
      PROVE  Returned(h, MaxHeight)'
  <2>1. h \in Heights /\ (h = index \/ h > index)
    BY <1>1, <1>7 DEF ChainHeights, Heights
  <2>2. CASE h = index
    <3>1. ListedAt(h)'
      BY <1>1, <1>2, <1>5, <2>2, LimboListed DEF ListedAt
    <3>. QED  BY <1>1, <2>2, <3>1 DEF Returned
  <2>3. CASE h > index
    <3>1. Returned(h, MaxHeight) /\ h # index
      BY <1>1, <2>1, <2>3 DEF ReturnSound, Heights
    <3>2. limbo'[h] = limbo[h]
      BY <1>1, <1>2, <1>5, <2>1, <3>1, LimboListed
    <3>3. ListedAt(h)'
      BY <1>1, <3>1, <3>2 DEF ListedAt, Returned, Replacing
    <3>. QED  BY <1>1, <1>6, <3>1, <3>3 DEF Returned
  <2>. QED  BY <2>1, <2>2, <2>3
<1>8. \A h \in Heights : IsFiniteSet(limbo'[h])
  BY <1>1, <1>5, LimboListed
<1>. QED  BY <1>1, <1>2, <1>4, <1>7, <1>8 DEF ReturnSound

\* The second loop: a transaction that leaves the mempool is in the block in
\* hand.
LEMMA NewTxReturned ==
    ASSUME ReturnInv, NEW t \in Tx, NewTx(t)
    PROVE  ReturnSound'
<1>1. /\ pc = "newtx" /\ t \in body /\ body \subseteq Txs[buf]
      /\ mempool' = mempool \ {t} /\ body' = body \ {t}
      /\ UNCHANGED <<chain, limbo, pc, common, hash, buf, index>>
  BY DEF NewTx, ReturnInv, ReturnSound, revertVars
<1>2. ChainHeights' = ChainHeights /\ InHand' = InHand /\ InHand = Txs[buf]
  BY <1>1 DEF ChainHeights, InHand
<1>3. \A h, top : Returned(h, top) => Returned(h, top)'
  BY <1>1, <1>2 DEF Returned, ListedAt, Replacing, TxsAbove
<1>. QED
  BY <1>1, <1>2, <1>3 DEF ReturnInv, ReturnSound, OldLoop, NewLoop

\* The block that leaves limbo makes room, which it had taken itself.
LEMMA NewUnlistedReturned ==
    ASSUME ReturnInv, NewUnlisted
    PROVE  ReturnSound'
<1>. USE DEF ReturnInv, LineInv, LinkInv, Safety, OldLoop, NewLoop
<1>1. /\ pc = "newtx" /\ pc' = "record" /\ buf \in Block /\ Height[buf] \in Heights
      /\ limbo' = data_limbo_del(buf)
      /\ UNCHANGED <<chain, mempool, common, hash, buf>>
  BY LedgerConstants DEF NewUnlisted, LocalsStored, TypeOK, traceVars, revertVars
<1>2. TypeOK /\ \A h \in Heights : IsFiniteSet(limbo[h])
  BY DEF ReturnSound
<1>3. /\ \A h \in Heights : IsFiniteSet(limbo'[h])
      /\ limbo'[Height[buf]] = limbo[Height[buf]] \ {buf}
      /\ \A h \in Heights : h # Height[buf] => limbo'[h] = limbo[h]
  BY <1>1, <1>2, LimboListed
<1>4. ASSUME NEW h \in ChainHeights, ListedAt(h)
      PROVE  ListedAt(h)'
  <2>1. h \in Heights /\ ~ Replacing(h)
    BY <1>1 DEF ChainHeights, Replacing
  <2>2. CASE h # Height[buf]
    BY <1>1, <1>3, <1>4, <2>1, <2>2 DEF ListedAt
  <2>3. CASE h = Height[buf] /\ chain[h] \in limbo[h]
    BY <1>1, <1>3, <2>3 DEF ListedAt, Replacing
  <2>4. CASE h = Height[buf] /\ Cardinality(limbo[h]) >= LevelCap
    <3>1. Cardinality(limbo[h] \cup {buf}) >= LevelCap
      BY <1>2, <2>1, <2>4, StillFull
    <3>2. limbo'[h] \cup {buf'} = limbo[h] \cup {buf}
      BY <1>1, <1>3, <2>4
    <3>. QED  BY <1>1, <2>4, <3>1, <3>2 DEF ListedAt, Replacing
  <2>. QED  BY <1>4, <2>1, <2>2, <2>3, <2>4 DEF ListedAt
<1>5. ChainHeights' = ChainHeights /\ InHand' = InHand
  BY <1>1 DEF ChainHeights, InHand
<1>6. \A h \in ChainHeights : \A top : Returned(h, top) => Returned(h, top)'
  BY <1>1, <1>4, <1>5 DEF Returned, TxsAbove
<1>. QED  BY <1>1, <1>3, <1>5, <1>6 DEF ReturnSound

\* What was in hand is recorded above the blocks still to be replaced.
LEMMA NewRecordReturned ==
    ASSUME ReturnInv, Repaired = Statements, NewRecord
    PROVE  ReturnSound'
<1>. USE DEF ReturnInv, LineInv, LinkInv, Safety, OldLoop, NewLoop
<1>1. /\ pc = "record" /\ pc' = "new" /\ common' = common /\ buf = hash
      /\ hash \in Block /\ Height[hash] \in Heights /\ Height[hash'] \in Heights
      /\ Height[hash] = Height[hash'] + 1
      /\ chain' = [chain EXCEPT ![Height[hash]] = hash]
      /\ chain \in [Heights -> MaybeBlock]
      /\ UNCHANGED <<limbo, mempool>>
  BY NewRecordEffect, InHandKnown
<1>2. InHand = Txs[hash]
  BY <1>1 DEF InHand
<1>3. ASSUME NEW h \in ChainHeights', Height[common] < h, h <= Height[hash']
      PROVE  Returned(h, Height[hash])'
  <2>1. /\ h \in Heights /\ h < Height[hash] /\ h # Height[hash]
        /\ h <= Height[hash]
    BY <1>1, <1>3 DEF Heights, ChainHeights
  <2>2. h \in ChainHeights /\ chain'[h] = chain[h]
    BY <1>1, <1>3, <2>1 DEF ChainHeights
  <2>3. Returned(h, Height[hash])
    BY <1>1, <1>3, <2>1, <2>2 DEF ReturnSound
  <2>4. ListedAt(h)'
    BY <1>1, <2>1, <2>2, <2>3 DEF Returned, ListedAt, Replacing
  <2>5. ASSUME NEW t \in Txs[chain[h]]
        PROVE  t \in mempool' \/ t \in TxsAbove(Height[hash])'
    <3>1. CASE t \in Txs[hash]
      <4>1. Height[hash] \in ChainHeights' /\ Height[hash] > Height[hash']
            /\ chain'[Height[hash]] = hash
        BY <1>1, LedgerConstants DEF ChainHeights, Heights
      <4>. QED  BY <3>1, <4>1 DEF TxsAbove
    <3>2. CASE t \in mempool
      BY <1>1, <3>2
    <3>3. CASE t \in TxsAbove(Height[hash])
      <4>1. PICK k \in ChainHeights : k > Height[hash] /\ t \in Txs[chain[k]]
        BY <3>3 DEF TxsAbove
      <4>2. k \in Heights /\ k > Height[hash'] /\ k # Height[hash]
        BY <1>1, <4>1 DEF Heights, ChainHeights
      <4>3. k \in ChainHeights' /\ chain'[k] = chain[k]
        BY <1>1, <4>1, <4>2 DEF ChainHeights
      <4>. QED  BY <4>1, <4>2, <4>3 DEF TxsAbove
    <3>. QED  BY <1>2, <2>3, <3>1, <3>2, <3>3 DEF Returned
  <2>. QED  BY <2>2, <2>4, <2>5 DEF Returned
<1>4. \A h \in Heights : IsFiniteSet(limbo'[h])
  BY <1>1 DEF ReturnSound
<1>. QED  BY <1>1, <1>3, <1>4 DEF ReturnSound

LEMMA ReturnStep ==
    ASSUME Repaired = Statements
    PROVE  ReturnInv /\ [Next]_vars => ReturnInv'
<1>. SUFFICES ASSUME ReturnInv, [Next]_vars PROVE ReturnInv'
  OBVIOUS
<1>1. LineInv'
  BY LineStep DEF ReturnInv
<1>. USE DEF dbVars, msgVars, blockVars, scanVars, traceVars, revertVars, OldLoop,
             NewLoop
<1>2. TypeOK /\ \A h \in Heights : IsFiniteSet(limbo[h])
  BY DEF ReturnInv, ReturnSound, LineInv, LinkInv, Safety
<1>3. CASE \/ OldBlock \/ OldListed \/ NewUnlisted \/ NewRecord
           \/ \E t \in Tx : NewTx(t)
  BY <1>1, <1>3, OldBlockReturned, OldListedReturned, NewTxReturned,
     NewUnlistedReturned, NewRecordReturned
  DEF ReturnInv
<1>4. CASE PlaceBlock
  <2>1. arrived \in Block
    BY <1>4 DEF PlaceBlock, ReturnInv, LineInv, LinkInv, Safety, LocalsStored
  <2>2. pc' = "begin" /\ \A h \in Heights : IsFiniteSet(limbo'[h])
    BY <1>2, <1>4, <2>1, LimboListed DEF PlaceBlock
  <2>. QED  BY <1>1, <2>2 DEF ReturnInv, ReturnSound
<1>5. CASE BeginRevert
  <2>1. UNCHANGED dbVars /\ pc' \in {"old", "announce"} /\ pc \notin NewLoop
    BY <1>5 DEF BeginRevert, Traced
  <2>2. pc' = "old" => /\ chain[index'] # Absent
                       /\ \A h \in ChainHeights : ~ h > index'
    <3>1. 0 \in ChainHeights
      BY <2>1, LedgerConstants
      DEF ReturnInv, LineInv, LinkInv, ChainLinked, ChainHeights, Heights
    <3>2. pc' = "old" => index' \in data_chain_get_height
      BY <1>5 DEF BeginRevert
    <3>3. PICK curr \in ChainHeights : /\ data_chain_get_height = {curr}
                                       /\ \A h \in ChainHeights : h <= curr
      BY <1>2, <3>1, ChainHeightIs
    <3>4. chain[curr] # Absent /\ \A h \in ChainHeights : ~ h > curr
      BY <3>3 DEF ChainHeights, Heights
    <3>. QED  BY <3>2, <3>3, <3>4
  <2>3. ChainHeights' = ChainHeights
    BY <2>1 DEF ChainHeights
  <2>. QED  BY <1>1, <1>2, <2>1, <2>2, <2>3 DEF ReturnInv, ReturnSound
<1>6. CASE OldDone
  <2>1. /\ pc = "old" /\ pc' = "new" /\ ~ index > Height[common]
        /\ index \in Heights /\ Height[common] \in Heights
        /\ UNCHANGED <<chain, limbo, mempool, common>>
        /\ hash' = trial /\ trial \in Block
    BY <1>6, InRevert
    DEF OldDone, OldLeft, ReturnInv, LineInv, LinkInv, RevertSound, Safety, TypeOK,
        LocalsStored
  <2>2. ChainHeights' = ChainHeights /\ InHand = {}
    BY <2>1 DEF ChainHeights, InHand
  <2>3. ASSUME NEW h \in ChainHeights, Height[common] < h
        PROVE  Returned(h, Height[hash])'
    <3>1. h > index
      BY <2>1, <2>3 DEF ChainHeights, Heights
    <3>2. Returned(h, MaxHeight)
      BY <2>1, <2>3, <3>1 DEF ReturnInv, ReturnSound
    <3>3. TxsAbove(MaxHeight) = {}
      BY LedgerConstants DEF TxsAbove, ChainHeights, Heights
    <3>. QED  BY <2>1, <2>2, <3>2, <3>3 DEF Returned, ListedAt, Replacing
  <2>. QED  BY <1>1, <1>2, <2>1, <2>2, <2>3 DEF ReturnInv, ReturnSound
<1>7. CASE (\E t \in Tx : ReceiveTx(t) \/ OldTx(t)) \/ UNCHANGED vars
  <2>1. /\ UNCHANGED <<chain, limbo, pc, index, common, hash, buf>>
        /\ mempool \subseteq mempool'
        /\ \/ body' = body
           \/ pc = "oldtx" /\ mempool \cup body \subseteq mempool' \cup body'
    BY <1>7 DEF ReceiveTx, OldTx, ReturnTx, vars
  <2>2. ChainHeights' = ChainHeights /\ InHand' = InHand
    BY <2>1 DEF ChainHeights, InHand
  <2>3. \A h, top : Returned(h, top) => Returned(h, top)'
    BY <2>1, <2>2 DEF Returned, ListedAt, Replacing, TxsAbove
  <2>4. pc = "oldtx" => /\ buf' = chain'[index']
                        /\ Txs[buf] \subseteq mempool' \cup body'
    BY <2>1 DEF ReturnInv, ReturnSound
  <2>5. pc = "newtx" => body' \subseteq Txs[buf']
    BY <2>1 DEF ReturnInv, ReturnSound
  <2>. QED  BY <1>1, <1>2, <2>1, <2>2, <2>3, <2>4, <2>5 DEF ReturnInv, ReturnSound
<1>8. CASE NewBlock
  <2>1. /\ pc = "new" /\ pc' = "newtx" /\ body' = Txs[buf']
        /\ UNCHANGED <<chain, limbo, mempool, common, hash>>
    BY <1>8 DEF NewBlock
  <2>2. ChainHeights' = ChainHeights /\ InHand = {}
    BY <2>1 DEF ChainHeights, InHand
  <2>3. \A h, top : Returned(h, top) => Returned(h, top)'
    BY <2>1, <2>2 DEF Returned, ListedAt, Replacing, TxsAbove
  <2>. QED  BY <1>1, <1>2, <2>1, <2>2, <2>3 DEF ReturnInv, ReturnSound
<1>9. CASE \/ \E b \in Block : ReceiveBlock(b)
           \/ \E t \in Tx : IndexTx(t)
           \/ StoreBlock
           \/ BeginScan
           \/ \E h \in Heights : ReadLevel(h)
           \/ EndScan
           \/ \E b \in Block : PickHash(b)
           \/ LevelDone
           \/ TraceStep
           \/ Chase
           \/ GiveUp
           \/ NewDone
           \/ Announce
  <2>1. pc' \notin OldLoop \cup NewLoop /\ UNCHANGED limbo
    BY <1>9 DEF ReceiveBlock, IndexTx, StoreBlock, BeginScan, ReadLevel, EndScan,
                PickHash, LevelDone, TraceStep, Chase, GiveUp, NewDone, Announce
  <2>. QED  BY <1>1, <1>2, <2>1 DEF ReturnInv, ReturnSound
<1>. QED
  BY <1>3, <1>4, <1>5, <1>6, <1>7, <1>8, <1>9 DEF Next, HandlerStep

\* Only the append and the second loop of a revert touch the chain.
LEMMA ChainUntouched ==
    ASSUME [Next]_vars, ~ NewRecord, ~ PlaceBlock
    PROVE  UNCHANGED chain
  BY DEF Next, HandlerStep, ReceiveBlock, ReceiveTx, IndexTx, StoreBlock, BeginScan,
         ReadLevel, EndScan, PickHash, LevelDone, TraceStep, Chase, GiveUp,
         BeginRevert, OldBlock, OldTx, OldListed, OldDone, NewBlock, NewTx,
         NewUnlisted, NewDone, Announce, vars, dbVars

\* With the statements corrected, a block that data_blocks_revert takes off the
\* chain was listed in limbo by its first loop and still is, or the block that
\* takes its place and others had filled its level: for any block tree, any
\* capacity of a level and any interleaving with <tx> messages.
THEOREM LedgerDisplacedListed ==
    ASSUME Repaired = Statements
    PROVE  Spec => DisplacedListed
<1>1. ASSUME ReturnInv, [Next]_vars
      PROVE  \A h \in ChainHeights :
                 chain'[h] # chain[h] =>
                     \/ chain[h] \in limbo[h]
                     \/ Cardinality(limbo[h] \cup {chain'[h]}) >= LevelCap
  <2>1. CASE PlaceBlock
    BY <1>1, <2>1, PlaceBlockLinked DEF ReturnInv, LineInv
  <2>2. CASE NewRecord
    <3>1. /\ pc = "record" /\ chain' = [chain EXCEPT ![Height[hash]] = hash]
          /\ chain \in [Heights -> MaybeBlock] /\ buf = hash
          /\ Height[hash] \in Heights /\ Height[common] < Height[hash]
          /\ Height[common] \in Heights
      BY <1>1, <2>2, NewRecordEffect, InHandKnown DEF ReturnInv, LineInv, Heights
    <3>2. \A h \in ChainHeights : chain'[h] # chain[h] => h = Height[hash]
      BY <3>1 DEF ChainHeights
    <3>3. chain'[Height[hash]] = hash /\ Height[hash] <= Height[hash]
      BY <3>1 DEF Heights
    <3>4. Height[hash] \in ChainHeights => ListedAt(Height[hash])
      BY <1>1, <3>1, <3>3 DEF ReturnInv, ReturnSound, Returned, NewLoop
    <3>5. IsFiniteSet(limbo[Height[hash]])
      BY <1>1, <3>1 DEF ReturnInv, ReturnSound
    <3>6. Cardinality(limbo[Height[hash]]) >= LevelCap =>
              Cardinality(limbo[Height[hash]] \cup {hash}) >= LevelCap
      BY <3>5, StillFull
    <3>. QED  BY <3>1, <3>2, <3>3, <3>4, <3>6 DEF ListedAt
  <2>3. CASE ~ NewRecord /\ ~ PlaceBlock
    BY <1>1, <2>3, ChainUntouched
  <2>. QED  BY <2>1, <2>2, <2>3
<1>2. ReturnInv /\ [Next]_vars =>
          [\A h \in ChainHeights :
             chain'[h] # chain[h] =>
                 \/ chain[h] \in limbo[h]
                 \/ Cardinality(limbo[h] \cup {chain'[h]}) >= LevelCap]_vars
  BY <1>1
<1>3. ReturnInv /\ [Next]_vars => ReturnInv'
  BY ReturnStep
<1>. QED  BY ReturnInit, <1>2, <1>3, PTL DEF Spec, DisplacedListed

\* With the statements corrected, no step loses a transaction: what the chain
\* or the mempool holds, one of them or the block that data_blocks_revert is
\* recording holds afterwards, and what that block holds is then on the chain,
\* between any two steps of both loops and with <tx> messages in between.
THEOREM LedgerTxConserved ==
    ASSUME Repaired = Statements
    PROVE  Spec => TxConserved
<1>1. ASSUME ReturnInv, [Next]_vars, NEW t \in Held
      PROVE  t \in Held'
  <2>1. ASSUME NEW h \in ChainHeights, chain'[h] = chain[h], t \in Txs[chain[h]]
        PROVE  t \in Held'
    <3>1. h \in ChainHeights'
      BY <2>1 DEF ChainHeights
    <3>. QED  BY <2>1, <3>1 DEF Held, ChainTxs, ChainBlocks
  <2>2. \/ t \in mempool
        \/ t \in InHand
        \/ \E h \in ChainHeights : t \in Txs[chain[h]]
    BY <1>1 DEF Held, ChainTxs, ChainBlocks
  <2>3. CASE PlaceBlock
    <3>1. /\ mempool' = mempool /\ InHand = {}
          /\ \A h \in ChainHeights : chain'[h] = chain[h]
      BY <1>1, <2>3, PlaceBlockLinked DEF PlaceBlock, ReturnInv, LineInv, InHand
    <3>. QED  BY <2>1, <2>2, <3>1 DEF Held
  <2>4. CASE NewRecord
    <3>1. /\ pc = "record" /\ chain' = [chain EXCEPT ![Height[hash]] = hash]
          /\ chain \in [Heights -> MaybeBlock] /\ hash \in Block /\ buf = hash
          /\ Height[hash] \in Heights /\ Height[common] < Height[hash]
          /\ Height[hash] <= Height[hash]
          /\ mempool' = mempool
      BY <1>1, <2>4, NewRecordEffect, InHandKnown DEF ReturnInv, LineInv, Heights
    <3>2. Height[hash] \in ChainHeights' /\ chain'[Height[hash]] = hash
      BY <3>1, LedgerConstants DEF ChainHeights
    <3>3. Txs[hash] \subseteq Held' /\ InHand = Txs[hash]
      BY <3>1, <3>2 DEF Held, ChainTxs, ChainBlocks, InHand
    <3>4. \A h \in ChainHeights : h # Height[hash] => chain'[h] = chain[h]
      BY <3>1 DEF ChainHeights
    <3>5. CASE t \in mempool \/ t \in InHand
      BY <3>1, <3>3, <3>5 DEF Held
    <3>6. CASE \E h \in ChainHeights : h # Height[hash] /\ t \in Txs[chain[h]]
      BY <2>1, <3>4, <3>6
    <3>7. CASE /\ Height[hash] \in ChainHeights
               /\ t \in Txs[chain[Height[hash]]] /\ t \notin mempool /\ t \notin InHand
      <4>1. Returned(Height[hash], Height[hash])
        BY <1>1, <3>1, <3>7 DEF ReturnInv, ReturnSound, NewLoop
      <4>2. PICK k \in ChainHeights : k > Height[hash] /\ t \in Txs[chain[k]]
        BY <3>7, <4>1 DEF Returned, TxsAbove
      <4>3. k # Height[hash]
        BY <3>1, <4>2 DEF Heights, ChainHeights
      <4>. QED  BY <2>1, <3>4, <4>2, <4>3
    <3>. QED  BY <2>2, <3>5, <3>6, <3>7
  <2>5. CASE \E u \in Tx : NewTx(u)
    <3>1. PICK u \in Tx : NewTx(u)
      BY <2>5
    <3>2. /\ UNCHANGED chain /\ InHand' = InHand
          /\ mempool' = mempool \ {u} /\ u \in InHand
      BY <1>1, <3>1 DEF NewTx, ReturnInv, ReturnSound, InHand, revertVars
    <3>. QED  BY <2>1, <2>2, <3>2 DEF Held
  <2>6. CASE ~ NewRecord /\ ~ PlaceBlock /\ ~ \E u \in Tx : NewTx(u)
    <3>1. chain' = chain
      BY <1>1, <2>6, ChainUntouched
    <3>2. mempool \subseteq mempool'
      BY <1>1, <2>6
      DEF Next, HandlerStep, ReceiveBlock, ReceiveTx, IndexTx, StoreBlock, BeginScan,
          ReadLevel, EndScan, PickHash, LevelDone, TraceStep, Chase, GiveUp,
          BeginRevert, OldBlock, OldTx, ReturnTx, OldListed, OldDone, NewBlock,
          NewUnlisted, NewDone, Announce, vars
    <3>3. \/ pc \notin {"newtx", "record"}
          \/ pc' \in {"newtx", "record"} /\ UNCHANGED buf
      BY <1>1, <2>6
      DEF Next, HandlerStep, ReceiveBlock, ReceiveTx, IndexTx, StoreBlock, BeginScan,
          ReadLevel, EndScan, PickHash, LevelDone, TraceStep, Chase, GiveUp, Traced,
          NotTraced, BeginRevert, OldBlock, OldTx, OldListed, OldDone, NewBlock,
          NewUnlisted, NewDone, Announce, vars, revertVars
    <3>4. InHand \subseteq InHand'
      BY <3>3 DEF InHand
    <3>. QED  BY <2>1, <2>2, <3>1, <3>2, <3>4 DEF Held
  <2>. QED  BY <2>3, <2>4, <2>5, <2>6
<1>2. ReturnInv /\ [Next]_vars => [Held \subseteq Held']_vars
  BY <1>1
<1>3. ReturnInv /\ [Next]_vars => ReturnInv'
  BY ReturnStep
<1>. QED  BY ReturnInit, <1>2, <1>3, PTL DEF Spec, TxConserved

------------------------------------------------------------------------------
(* What a scan of limbo leaves behind, with the statements corrected: no   *)
(* valid branch that would make the chain higher, and no branch above the  *)
(* chain whose missing block was not requested.                            *)
(*                                                                         *)
(* The properties speak of the path a trace would take, which they compute *)
(* by recursion.  The invariant speaks of sets of blocks that are closed   *)
(* under going one block back, which a trace cannot leave.                 *)

------------------------------------------------------------------------------
(* The invariant of the scan.                                              *)

\* Block b is on the chain c.
On(c, b) == b \in Block /\ c[Height[b]] = b

\* The confirmations of the chain c do not put block y out of reach.
Fresh(c, y) ==
    \A h \in Heights : c[h] # Absent => Height[y] + REASONABLE_CONFIRMATIONS > h

\* S is a set of valid stored blocks that leads down to c, all within reach.
Roots(S, c) ==
    /\ S \subseteq Valid \cap blocks
    /\ \A x \in S : Fresh(c, x)
    /\ \A x \in S : Prev[x] \in S \/ (On(c, Prev[x]) /\ Fresh(c, Prev[x]))
Rooted(b, c) == \E S \in SUBSET Block : b \in S /\ Roots(S, c)

\* S is a set of stored blocks off c, within reach, that leads down to y, which
\* is missing.
Strays(S, y, c) ==
    /\ S \subseteq blocks /\ y \notin blocks
    /\ \A x \in S : ~ On(c, x) /\ Fresh(c, x) /\ Prev[x] \in S \cup {y}
Stray(b, y, c) == \E S \in SUBSET Block : b \in S \cup {y} /\ Strays(S, y, c)

\* Nothing is left to be done about b: it is no candidate for the chain, and
\* the block its branch lacks has been requested.
Judged(b) ==
    /\ ~ Rooted(b, SettledChain)
    /\ \A y \in MaybeBlock : Stray(b, y, SettledChain) => y \in asked

\* The blocks of the cursor's level that have still to be judged.
Trying  == pc \in {"trace", "announce"} \cup OldLoop \cup NewLoop
Pending == todo \cup IF Trying THEN {trial} ELSE {}

\* b is listed above the chain, and the scan is past it.
Passed(b) ==
    /\ b \in limbo[Height[b]]
    /\ \A h \in Heights : SettledChain[h] # Absent => h < Height[b]
    /\ Height[b] \notin ahead /\ b \notin Pending

\* The steps before the scan starts.
Arrival == {"index", "place", "begin"}

\* The scan comes down level by level, from above the chain it started with;
\* once a branch is swapped in the rest of it is not above the chain.
ScanOrder ==
    /\ \A h \in Heights : limbo[h] # {} => h \in levels
    /\ pc = "idle" => ahead = {}
    /\ \A a, b \in Pending : Height[a] = Height[b]
    /\ \A b \in Pending : \A k \in ahead : k < Height[b]
    /\ pc \notin {"idle"} \cup Arrival =>
           \E h \in Heights : SettledChain[h] # Absent /\ scanHeight <= h
    /\ swapped /\ pc \notin {"idle"} \cup Arrival \cup OldLoop =>
           \E h \in Heights : /\ SettledChain[h] # Absent
                              /\ \A b \in Pending : Height[b] <= h
                              /\ \A k \in ahead : k <= h

\* A trace stays in every set that leads down from the block being tried, and
\* the revert starts from a block within reach.
TraceSound ==
    /\ pc = "trace" =>
        /\ \A S \in SUBSET Block :
               trial \in S /\ Roots(S, chain) =>
                   /\ branch \subseteq S
                   /\ walk \in S \/ (On(chain, walk) /\ Fresh(chain, walk))
        /\ \A S \in SUBSET Block, y \in MaybeBlock :
               trial \in S \cup {y} /\ Strays(S, y, chain) => walk \in S \cup {y}
    /\ pc \in OldLoop => Fresh(chain, common)

ScanSound == pc \notin Arrival => \A b \in Block : Passed(b) => Judged(b)

ScanInv == ReturnInv /\ ScanOrder /\ TraceSound /\ ScanSound

LEMMA KeyOrder ==
    ASSUME Repaired = Statements
    PROVE  \A h : LimboKey(h) = h
  BY DEF LimboKey, Statements

LEMMA HeightTyped ==
    ASSUME NEW b \in Block
    PROVE  Height[b] \in Heights /\ Height[b] \in Int
  BY LedgerConstants DEF Heights

\* What a trace asks of a block's age is asked of the whole chain.
LEMMA RecentIs ==
    ASSUME LinkInv, Repaired = Statements, pc = "trace", NEW y \in Block
    PROVE  /\ (\E curr \in data_chain_get_height : Recent(y, curr)) <=> Fresh(chain, y)
           /\ (\E curr \in data_chain_get_height : ~ Recent(y, curr)) <=> ~ Fresh(chain, y)
<1>1. 0 \in ChainHeights
  BY LedgerConstants DEF LinkInv, ChainLinked, NewLoop, ChainHeights, Heights
<1>2. PICK curr \in ChainHeights : /\ data_chain_get_height = {curr}
                                   /\ \A h \in ChainHeights : h <= curr
  BY <1>1, ChainHeightIs DEF LinkInv, Safety
<1>3. Height[y] \in Int /\ REASONABLE_CONFIRMATIONS \in Int /\ curr \in Int
      /\ \A h \in Heights : h \in Int
  BY LedgerConstants, HeightTyped DEF ChainHeights, Heights
<1>4. Recent(y, curr) <=> Height[y] + REASONABLE_CONFIRMATIONS > curr
  BY DEF Recent, Statements
<1>5. Height[y] + REASONABLE_CONFIRMATIONS > curr <=> Fresh(chain, y)
  BY <1>2, <1>3 DEF Fresh, ChainHeights
<1>. QED  BY <1>2, <1>4, <1>5

\* A block on the chain is stored.
LEMMA OnStored ==
    ASSUME Safety, NEW y, On(chain, y)
    PROVE  y \in blocks
  BY HeightTyped, LedgerConstants DEF Safety, ChainStored, ChainHeights, On

LEMMA JudgedKept ==
    ASSUME NEW b, Judged(b), UNCHANGED blocks, SettledChain' = SettledChain,
           asked \subseteq asked'
    PROVE  Judged(b)'
<1>1. /\ \A S : Roots(S, SettledChain)' <=> Roots(S, SettledChain)
      /\ \A S, y : Strays(S, y, SettledChain)' <=> Strays(S, y, SettledChain)
  BY DEF Roots, Strays, On, Fresh
<1>. QED  BY <1>1 DEF Judged, Rooted, Stray

\* What is to be shown of a step during a scan.
LEMMA ScanSoundKept ==
    ASSUME ScanSound, pc \notin Arrival, UNCHANGED blocks,
           SettledChain' = SettledChain, asked \subseteq asked',
           \A b \in Block : Passed(b)' => Passed(b) \/ Judged(b)'
    PROVE  ScanSound'
  BY JudgedKept DEF ScanSound

LEMMA ScanInit == Init => ScanInv
<1>. SUFFICES ASSUME Init PROVE ScanInv
  OBVIOUS
<1>1. ReturnInv
  BY ReturnInit
<1>2. Pending = {} /\ ahead = {} /\ pc = "idle" /\ \A h \in Heights : limbo[h] = {}
  BY DEF Init, Pending, Trying, OldLoop, NewLoop
<1>3. ScanOrder
  BY <1>2 DEF ScanOrder
<1>4. \A b \in Block : limbo[Height[b]] = {}
  BY <1>2, HeightTyped
<1>. QED  BY <1>1, <1>2, <1>3, <1>4 DEF ScanInv, TraceSound, ScanSound, Passed, OldLoop

------------------------------------------------------------------------------
(* The arrival of a block and the levels of limbo.                         *)

LEMMA ArrivalScan ==
    ASSUME ScanInv,
           \/ \E b \in Block : ReceiveBlock(b)
           \/ \E t \in Tx : IndexTx(t)
           \/ StoreBlock
           \/ PlaceBlock
    PROVE  (ScanOrder /\ TraceSound /\ ScanSound)'
<1>. USE DEF ScanInv, ReturnInv, LineInv, LinkInv, Safety
<1>1. /\ pc' \in Arrival /\ UNCHANGED <<todo, ahead>>
      /\ pc \in {"idle", "index", "place"}
  BY DEF ReceiveBlock, IndexTx, StoreBlock, PlaceBlock, scanVars, Arrival
<1>2. Pending' = {}
  BY <1>1 DEF Pending, Trying, RevertSound, Arrival, OldLoop, NewLoop
<1>3. \/ limbo' = limbo /\ levels' = levels
      \/ /\ arrived \in Block
         /\ limbo' = data_limbo_safe_add(arrived)
         /\ levels' = levels \cup {Height[arrived]}
  BY <1>1 DEF ReceiveBlock, IndexTx, StoreBlock, PlaceBlock, dbVars, LocalsStored
<1>4. TypeOK /\ \A h \in Heights : IsFiniteSet(limbo[h])
  BY DEF ReturnSound
<1>5. arrived \in Block =>
          \A h \in Heights : h # Height[arrived] => data_limbo_safe_add(arrived)[h] = limbo[h]
  BY <1>4, LimboListed
<1>6. \A h \in Heights : limbo'[h] # {} => h \in levels'
  BY <1>3, <1>5 DEF ScanOrder
<1>. QED  BY <1>1, <1>2, <1>6 DEF ScanOrder, TraceSound, ScanSound, Arrival, OldLoop

LEMMA BeginScanScan ==
    ASSUME ScanInv, Repaired = Statements, BeginScan
    PROVE  (ScanOrder /\ TraceSound /\ ScanSound)'
<1>. USE DEF ScanInv, ReturnInv, LineInv, LinkInv, Safety, OldLoop, NewLoop
<1>1. /\ pc = "begin" /\ pc' = "level" /\ UNCHANGED <<limbo, levels, chain, todo>>
      /\ todo = {} /\ ahead' = Heights /\ swapped' = FALSE
      /\ scanHeight' \in data_chain_get_height
  BY DEF BeginScan, RevertSound, dbVars
<1>2. Pending' = {}
  BY <1>1 DEF Pending, Trying
<1>3. 0 \in ChainHeights
  BY <1>1, LedgerConstants DEF ChainLinked, ChainHeights, Heights
<1>4. scanHeight' \in ChainHeights
  BY <1>1, <1>3, ChainHeightIs
<1>5. SettledChain' = chain /\ scanHeight' \in Heights /\ scanHeight' \in Int
  BY <1>1, <1>4 DEF SettledChain, ChainHeights, Heights
<1>6. \E h \in Heights : SettledChain'[h] # Absent /\ scanHeight' <= h
  BY <1>4, <1>5 DEF ChainHeights
<1>7. ScanOrder'
  BY <1>1, <1>2, <1>6 DEF ScanOrder
<1>8. \A b \in Block : Height[b] \in ahead'
  BY <1>1, HeightTyped
<1>. QED  BY <1>1, <1>7, <1>8 DEF TraceSound, ScanSound, Passed

LEMMA ReadLevelScan ==
    ASSUME ScanInv, Repaired = Statements, NEW h \in Heights, ReadLevel(h)
    PROVE  (ScanOrder /\ TraceSound /\ ScanSound)'
<1>. USE DEF ScanInv, ReturnInv, LineInv, LinkInv, Safety, Arrival, OldLoop, NewLoop
<1>1. /\ pc = "level" /\ pc' = "pick" /\ CursorAt(h)
      /\ UNCHANGED <<blocks, limbo, levels, chain, asked, scanHeight, swapped>>
      /\ todo = {} /\ todo' = limbo[h]
      /\ ahead' = {k \in ahead : LimboKey(k) < LimboKey(h)}
  BY DEF ReadLevel, RevertSound, dbVars, msgVars
<1>2. Pending = {} /\ Pending' = limbo[h]
  BY <1>1 DEF Pending, Trying
<1>3. SettledChain' = SettledChain
  BY <1>1 DEF SettledChain
<1>4. ahead \subseteq Heights /\ h \in ahead /\ h \in Int /\ levels \subseteq Heights
  BY <1>1 DEF CursorAt, TypeOK, Heights
<1>5. ahead' = {k \in ahead : k < h}
  BY <1>1, <1>4, KeyOrder
<1>6. \A k \in levels \cap ahead : k <= h
  BY <1>1, <1>4, KeyOrder DEF CursorAt
<1>7. \A b \in limbo[h] : Height[b] = h
  BY DEF RevertSound
<1>8. ScanOrder'
  BY <1>1, <1>2, <1>3, <1>4, <1>5, <1>7 DEF ScanOrder
<1>9. ASSUME NEW b \in Block, Passed(b)'
      PROVE  Passed(b)
  <2>1. /\ b \in limbo[Height[b]] /\ Height[b] \notin ahead' /\ b \notin limbo[h]
        /\ \A k \in Heights : SettledChain[k] # Absent => k < Height[b]
    BY <1>1, <1>2, <1>3, <1>9 DEF Passed
  <2>2. Height[b] \in levels /\ Height[b] # h /\ Height[b] \in Int
    BY <2>1, HeightTyped DEF ScanOrder
  <2>3. Height[b] \notin ahead
    BY <1>4, <1>5, <1>6, <2>1, <2>2
  <2>. QED  BY <1>2, <2>1, <2>3 DEF Passed
<1>10. ScanSound'
  BY <1>1, <1>3, <1>9, ScanSoundKept
<1>. QED  BY <1>1, <1>8, <1>10 DEF TraceSound

LEMMA EndScanScan ==
    ASSUME ScanInv, Repaired = Statements, EndScan
    PROVE  (ScanOrder /\ TraceSound /\ ScanSound)'
<1>. USE DEF ScanInv, ReturnInv, LineInv, LinkInv, Safety, Arrival, OldLoop, NewLoop
<1>1. /\ pc = "level" /\ pc' = "idle" /\ ahead' = {} /\ todo = {} /\ todo' = todo
      /\ UNCHANGED <<blocks, limbo, levels, chain, asked>>
  BY DEF EndScan, RevertSound, dbVars, msgVars
<1>2. Pending = {} /\ Pending' = {}
  BY <1>1 DEF Pending, Trying
<1>3. SettledChain' = SettledChain
  BY <1>1 DEF SettledChain
<1>4. ScanOrder'
  BY <1>1, <1>2 DEF ScanOrder
<1>5. ASSUME NEW b \in Block, Passed(b)'
      PROVE  Passed(b)
  <2>1. /\ b \in limbo[Height[b]]
        /\ \A k \in Heights : SettledChain[k] # Absent => k < Height[b]
    BY <1>1, <1>3, <1>5 DEF Passed
  <2>2. Height[b] \in levels /\ Height[b] \in Heights
    BY <2>1, HeightTyped DEF ScanOrder
  <2>3. Height[b] \notin ahead
    <3>. SUFFICES ASSUME Height[b] \in ahead PROVE FALSE
      OBVIOUS
    <3>1. PICK h \in Heights : CursorAt(h) /\ ~ h > scanHeight
      BY <2>2 DEF EndScan, WouldRaise
    <3>2. Height[b] <= h
      BY <2>2, <3>1, KeyOrder DEF CursorAt
    <3>3. PICK k \in Heights : SettledChain[k] # Absent /\ scanHeight <= k
      BY <1>1 DEF ScanOrder
    <3>4. k < Height[b] /\ scanHeight \in Int /\ k \in Int /\ h \in Int /\ Height[b] \in Int
      BY <2>1, <2>2, <3>1, <3>3 DEF TypeOK, Heights
    <3>. QED  BY <3>1, <3>2, <3>3, <3>4
  <2>. QED  BY <1>2, <2>1, <2>3 DEF Passed
<1>6. ScanSound'
  BY <1>1, <1>3, <1>5, ScanSoundKept
<1>. QED  BY <1>1, <1>4, <1>6 DEF TraceSound

------------------------------------------------------------------------------
(* The blocks of a level, one after the other.                             *)

LEMMA PickHashScan ==
    ASSUME ScanInv, NEW b \in Block, PickHash(b)
    PROVE  (ScanOrder /\ TraceSound /\ ScanSound)'
<1>. USE DEF Arrival, OldLoop, NewLoop
<1>1. /\ pc = "pick" /\ pc' = "trace" /\ b \in todo /\ todo' = todo \ {b}
      /\ trial' = b /\ walk' = b /\ branch' = {}
      /\ UNCHANGED <<blocks, limbo, levels, chain, asked, scanHeight, ahead, swapped>>
  BY DEF PickHash, dbVars, msgVars
<1>2. Pending' = Pending
  BY <1>1 DEF Pending, Trying
<1>3. SettledChain' = SettledChain
  BY <1>1 DEF SettledChain
<1>4. ScanOrder'
  BY <1>1, <1>2, <1>3 DEF ScanInv, ScanOrder
<1>5. TraceSound'
  <2>1. pc' \notin OldLoop
    BY <1>1
  <2>. QED  BY <1>1, <2>1, Zenon DEF TraceSound
<1>6. \A y \in Block : Passed(y)' => Passed(y)
  BY <1>1, <1>2, <1>3 DEF Passed
<1>. QED  BY <1>1, <1>3, <1>4, <1>5, <1>6, ScanSoundKept DEF ScanInv

LEMMA LevelDoneScan ==
    ASSUME ScanInv, LevelDone
    PROVE  (ScanOrder /\ TraceSound /\ ScanSound)'
<1>. USE DEF Arrival, OldLoop, NewLoop
<1>1. /\ pc = "pick" /\ pc' = "level"
      /\ UNCHANGED <<blocks, limbo, levels, chain, asked, scanVars>>
  BY DEF LevelDone, dbVars, msgVars
<1>2. Pending' = Pending
  BY <1>1 DEF Pending, Trying, scanVars
<1>3. SettledChain' = SettledChain
  BY <1>1 DEF SettledChain
<1>4. ScanOrder'
  BY <1>1, <1>2, <1>3 DEF ScanInv, ScanOrder, scanVars
<1>5. \A y \in Block : Passed(y)' => Passed(y)
  BY <1>1, <1>2, <1>3 DEF Passed, scanVars
<1>6. ScanSound'
  BY <1>1, <1>3, <1>5, ScanSoundKept DEF ScanInv
<1>. QED  BY <1>1, <1>4, <1>6 DEF TraceSound

\* One block back, within every set that leads down from the trial.
LEMMA TraceStepScan ==
    ASSUME ScanInv, Repaired = Statements, TraceStep
    PROVE  (ScanOrder /\ TraceSound /\ ScanSound)'
<1>. USE DEF Arrival, OldLoop, NewLoop
<1>1. /\ pc = "trace" /\ pc' = "trace" /\ walk \in blocks /\ ~ On(chain, walk)
      /\ branch' = branch \cup {walk} /\ walk' = Prev[walk] /\ trial' = trial
      /\ UNCHANGED <<blocks, limbo, levels, chain, asked, scanVars>>
  BY DEF TraceStep, data_chain_exists, On, dbVars, msgVars
<1>2. Pending' = Pending
  BY <1>1 DEF Pending, Trying, scanVars
<1>3. SettledChain' = SettledChain
  BY <1>1 DEF SettledChain
<1>4. ScanOrder'
  BY <1>1, <1>2, <1>3 DEF ScanInv, ScanOrder, scanVars
<1>5. ASSUME NEW S \in SUBSET Block, trial \in S, Roots(S, chain)
      PROVE  /\ branch' \subseteq S
             /\ walk' \in S \/ (On(chain, walk') /\ Fresh(chain, walk'))
  <2>1. branch \subseteq S /\ walk \in S
    BY <1>1, <1>5 DEF ScanInv, TraceSound
  <2>. QED  BY <1>1, <1>5, <2>1 DEF Roots
<1>6. ASSUME NEW S \in SUBSET Block, NEW y \in MaybeBlock,
             trial \in S \cup {y}, Strays(S, y, chain)
      PROVE  walk' \in S \cup {y}
  <2>1. walk \in S
    BY <1>1, <1>6 DEF ScanInv, TraceSound, Strays
  <2>. QED  BY <1>1, <1>6, <2>1 DEF Strays
<1>7. /\ \A S : Roots(S, chain)' <=> Roots(S, chain)
      /\ \A S, y : Strays(S, y, chain)' <=> Strays(S, y, chain)
      /\ On(chain, walk)' <=> On(chain, walk')
      /\ Fresh(chain, walk)' <=> Fresh(chain, walk')
  BY <1>1 DEF Roots, Strays, On, Fresh
<1>8. TraceSound'
  BY <1>1, <1>5, <1>6, <1>7 DEF TraceSound
<1>9. \A y \in Block : Passed(y)' => Passed(y)
  BY <1>1, <1>2, <1>3 DEF Passed, scanVars
<1>. QED  BY <1>1, <1>3, <1>4, <1>8, <1>9, ScanSoundKept DEF ScanInv

\* A block that is given up or chased is judged: its trace was the only one
\* there is.
LEMMA TrialJudged ==
    ASSUME ScanInv, pc = "trace", pc' = "pick", asked \subseteq asked',
           UNCHANGED <<blocks, limbo, levels, chain, scanVars>>,
           \A S \in SUBSET Block : trial \in S => ~ Roots(S, chain),
           \A S \in SUBSET Block, y \in MaybeBlock :
               trial \in S \cup {y} /\ Strays(S, y, chain) => y \in asked'
    PROVE  (ScanOrder /\ TraceSound /\ ScanSound)'
<1>. USE DEF Arrival, OldLoop, NewLoop
<1>1. Pending = todo \cup {trial} /\ Pending' = todo
  BY DEF Pending, Trying, scanVars
<1>2. SettledChain' = SettledChain /\ SettledChain = chain /\ SettledChain' = chain'
  BY DEF SettledChain
<1>3. ScanOrder'
  BY <1>1, <1>2 DEF ScanInv, ScanOrder, scanVars
<1>4. /\ \A S : Roots(S, chain)' <=> Roots(S, chain)
      /\ \A S, y : Strays(S, y, chain)' <=> Strays(S, y, chain)
  BY DEF Roots, Strays, On, Fresh
<1>5. ASSUME NEW b \in Block, b = trial
      PROVE  Judged(b)'
  <2>1. ~ Rooted(b, chain)'
    BY <1>4, <1>5 DEF Rooted
  <2>2. \A y \in MaybeBlock : Stray(b, y, chain)' => y \in asked'
    BY <1>4, <1>5 DEF Stray
  <2>. QED  BY <1>2, <2>1, <2>2 DEF Judged
<1>6. \A y \in Block : Passed(y)' => Passed(y) \/ y = trial
  BY <1>1, <1>2 DEF Passed, scanVars
<1>7. \A y \in Block : Passed(y)' => Passed(y) \/ Judged(y)'
  BY <1>5, <1>6
<1>8. ScanSound'
  BY <1>2, <1>7, ScanSoundKept DEF ScanInv
<1>. QED  BY <1>3, <1>8 DEF TraceSound

LEMMA ChaseScan ==
    ASSUME ScanInv, Repaired = Statements, Chase
    PROVE  (ScanOrder /\ TraceSound /\ ScanSound)'
<1>. USE DEF ScanInv, ReturnInv, LineInv
<1>1. /\ pc = "trace" /\ pc' = "pick" /\ asked' = asked \cup {walk}
      /\ UNCHANGED <<blocks, limbo, levels, chain, scanVars>>
      /\ \/ walk \notin blocks
         \/ walk \in blocks /\ \E curr \in data_chain_get_height : ~ Recent(walk, curr)
  BY DEF Chase, NotTraced, dbVars, Statements
<1>2. walk \in blocks => ~ Fresh(chain, walk)
  BY <1>1, RecentIs DEF LinkInv, Safety, TypeOK
<1>3. ASSUME NEW S \in SUBSET Block, trial \in S, Roots(S, chain)
      PROVE  FALSE
  <2>1. walk \in S \/ (On(chain, walk) /\ Fresh(chain, walk))
    BY <1>1, <1>3 DEF TraceSound
  <2>. QED  BY <1>2, <1>3, <2>1, OnStored DEF Roots, LinkInv
<1>4. ASSUME NEW S \in SUBSET Block, NEW y \in MaybeBlock,
             trial \in S \cup {y}, Strays(S, y, chain)
      PROVE  y \in asked'
  <2>1. walk \in S \cup {y}
    BY <1>1, <1>4 DEF TraceSound
  <2>. QED  BY <1>1, <1>2, <1>4, <2>1 DEF Strays
<1>. QED  BY <1>1, <1>3, <1>4, TrialJudged

LEMMA GiveUpScan ==
    ASSUME ScanInv, Repaired = Statements, GiveUp
    PROVE  (ScanOrder /\ TraceSound /\ ScanSound)'
<1>. USE DEF Arrival, OldLoop, NewLoop
<1>1. /\ pc = "trace" /\ pc' = "pick" /\ asked' = asked
      /\ On(chain, walk) /\ walk \in blocks
      /\ swapped \/ ~ branch \subseteq Valid
      /\ UNCHANGED <<blocks, limbo, levels, chain, scanVars>>
  BY DEF GiveUp, Traced, is_valid_chain, data_chain_exists, On, dbVars, Statements
<1>2. Pending = todo \cup {trial} /\ Pending' = todo
  BY <1>1 DEF Pending, Trying, scanVars
<1>3. SettledChain' = SettledChain /\ SettledChain = chain
  BY <1>1 DEF SettledChain
<1>4. ScanOrder'
  BY <1>1, <1>2, <1>3 DEF ScanInv, ScanOrder, scanVars
<1>5. CASE swapped
  <2>1. PICK h \in Heights : SettledChain[h] # Absent /\ Height[trial] <= h
    BY <1>1, <1>2, <1>5 DEF ScanInv, ScanOrder
  <2>2. trial \in Block
    BY <1>1 DEF ScanInv, ReturnInv, LineInv, LinkInv, Safety, LocalsStored
  <2>3. ~ h < Height[trial]
    BY <2>1, <2>2, HeightTyped DEF Heights
  <2>4. \A y \in Block : Passed(y)' => Passed(y)
    BY <1>1, <1>2, <1>3, <2>1, <2>3 DEF Passed, scanVars
  <2>5. ScanSound'
    BY <1>1, <1>3, <2>4, ScanSoundKept DEF ScanInv
  <2>. QED  BY <1>1, <1>4, <2>5 DEF TraceSound
<1>6. CASE ~ branch \subseteq Valid
  <2>1. \A S \in SUBSET Block : trial \in S => ~ Roots(S, chain)
    BY <1>1, <1>6 DEF ScanInv, TraceSound, Roots
  <2>2. ASSUME NEW S \in SUBSET Block, NEW y \in MaybeBlock,
               trial \in S \cup {y}, Strays(S, y, chain)
        PROVE  y \in asked'
    <3>1. walk \in S \cup {y}
      BY <1>1, <2>2 DEF ScanInv, TraceSound
    <3>. QED  BY <1>1, <2>2, <3>1 DEF Strays
  <2>. QED  BY <1>1, <2>1, <2>2, TrialJudged
<1>. QED  BY <1>1, <1>5, <1>6

------------------------------------------------------------------------------
(* A revert.                                                               *)

LEMMA BeginRevertScan ==
    ASSUME ScanInv, Repaired = Statements, BeginRevert
    PROVE  (ScanOrder /\ TraceSound /\ ScanSound)'
<1>. USE DEF Arrival, OldLoop, NewLoop
<1>1. /\ pc = "trace" /\ pc' = "old" /\ common' = walk /\ walk \in blocks
      /\ \E curr \in data_chain_get_height : Recent(walk, curr)
      /\ UNCHANGED <<blocks, limbo, levels, chain, asked, scanHeight, ahead, todo, trial>>
  BY DEF BeginRevert, Traced, dbVars, msgVars, traceVars, Statements
<1>2. Fresh(chain, walk)
  BY <1>1, RecentIs DEF ScanInv, ReturnInv, LineInv, LinkInv, Safety, TypeOK
<1>3. Pending' = Pending
  BY <1>1 DEF Pending, Trying
<1>4. SettledChain' = SettledChain
  BY <1>1 DEF SettledChain
<1>5. ScanOrder'
  BY <1>1, <1>3, <1>4 DEF ScanInv, ScanOrder
<1>6. \A y \in Block : Passed(y)' => Passed(y)
  BY <1>1, <1>3, <1>4 DEF Passed
<1>7. ScanSound'
  BY <1>1, <1>4, <1>6, ScanSoundKept DEF ScanInv
<1>8. Fresh(chain, common)'
  BY <1>1, <1>2 DEF Fresh
<1>. QED  BY <1>1, <1>5, <1>7, <1>8 DEF TraceSound

\* A step within one of the loops that leaves limbo alone.
LEMMA LoopScan ==
    ASSUME ScanInv, UNCHANGED <<blocks, limbo, levels, asked, scanVars, trial>>,
           SettledChain' = SettledChain,
           \/ pc \in OldLoop /\ pc' \in OldLoop /\ UNCHANGED <<chain, common>>
           \/ pc \in NewLoop /\ pc' \in NewLoop \cup {"announce"}
    PROVE  (ScanOrder /\ TraceSound /\ ScanSound)'
<1>. USE DEF Arrival, OldLoop, NewLoop
<1>1. Pending' = Pending
  BY DEF Pending, Trying, scanVars
<1>2. ScanOrder'
  BY <1>1 DEF ScanInv, ScanOrder, scanVars
<1>3. \A y \in Block : Passed(y)' => Passed(y)
  BY <1>1 DEF Passed, scanVars
<1>4. ScanSound'
  BY <1>3, ScanSoundKept DEF ScanInv
<1>5. TraceSound'
  BY DEF ScanInv, TraceSound, Fresh
<1>. QED  BY <1>2, <1>4, <1>5

\* An old block is listed, but not above the chain.
LEMMA OldListedScan ==
    ASSUME ScanInv, OldListed
    PROVE  (ScanOrder /\ TraceSound /\ ScanSound)'
<1>. USE DEF ScanInv, ReturnInv, LineInv, LinkInv, Safety, Arrival, OldLoop, NewLoop
<1>1. /\ pc = "oldtx" /\ pc' = "old" /\ buf = chain[index] /\ buf \in Block
      /\ chain[index] # Absent /\ index \in Heights
      /\ limbo' = data_limbo_safe_add(buf)
      /\ levels' = levels \cup {Height[buf]}
      /\ UNCHANGED <<blocks, chain, asked, scanVars, trial, common>>
  BY DEF OldListed, ReturnSound, LocalsStored, TypeOK, msgVars, traceVars
<1>2. index \in ChainHeights /\ Height[buf] = index
  BY <1>1 DEF ChainHeights, ChainStored
<1>3. Pending' = Pending
  BY <1>1 DEF Pending, Trying, scanVars
<1>4. SettledChain' = SettledChain /\ SettledChain = chain
  BY <1>1 DEF SettledChain
<1>5. \A h \in Heights : h # index => limbo'[h] = limbo[h]
  BY <1>1, <1>2, LimboListed DEF ReturnSound
<1>6. \A h \in Heights : limbo'[h] # {} => h \in levels'
  BY <1>1, <1>2, <1>5 DEF ScanOrder
<1>7. ScanOrder'
  BY <1>1, <1>3, <1>4, <1>6 DEF ScanOrder, scanVars
<1>8. ASSUME NEW b \in Block, Passed(b)'
      PROVE  Passed(b)
  <2>1. /\ Height[b] \in Heights /\ b \in limbo'[Height[b]]
        /\ Height[b] \notin ahead /\ b \notin Pending
        /\ \A h \in Heights : SettledChain[h] # Absent => h < Height[b]
    BY <1>1, <1>3, <1>4, <1>8, HeightTyped DEF Passed, scanVars
  <2>2. index < Height[b]
    BY <1>1, <1>4, <2>1
  <2>3. b \in limbo[Height[b]]
    BY <1>1, <1>5, <2>1, <2>2 DEF Heights
  <2>. QED  BY <2>1, <2>3 DEF Passed
<1>9. ScanSound'
  BY <1>1, <1>4, <1>8, ScanSoundKept
<1>10. Fresh(chain, common)'
  BY <1>1 DEF TraceSound, Fresh
<1>. QED  BY <1>1, <1>7, <1>9, <1>10 DEF TraceSound

\* The block being tried is the top of the chain with the branch in it.
LEMMA TrialSpliced ==
    ASSUME LineInv, pc = "old"
    PROVE  Spliced[Height[trial]] # Absent
<1>. USE DEF OldLoop, NewLoop
<1>1. trial \in Block /\ Height[trial] \in Heights /\ \A h \in ChainHeights : h < Height[trial]
  BY HeightTyped DEF LineInv, LinkInv, RevertSound, Safety, LocalsStored
<1>2. trial \in branch \cup {common}
  BY InRevert DEF LineInv, LinkInv, RevertSound, BranchTraced
<1>3. trial # common
  <2>1. Height[common] \in ChainHeights /\ Height[common] \in Int
    BY InRevert, LedgerConstants DEF ChainHeights, Heights
  <2>. QED  BY <1>1, <2>1
<1>. QED  BY <1>1, <1>2, <1>3, SplicedIs, LedgerConstants

\* The chain with the branch in it is higher, so that its confirmations put
\* more blocks out of reach.
LEMMA SplicedFresh ==
    ASSUME LineInv, pc = "old", NEW y \in Block, Fresh(Spliced, y)
    PROVE  Fresh(chain, y)
<1>. USE DEF OldLoop, NewLoop
<1>1. trial \in Block /\ Height[trial] \in Heights /\ \A h \in ChainHeights : h < Height[trial]
  BY HeightTyped DEF LineInv, LinkInv, RevertSound, Safety, LocalsStored
<1>2. Spliced[Height[trial]] # Absent
  BY TrialSpliced
<1>3. Height[y] + REASONABLE_CONFIRMATIONS > Height[trial]
  BY <1>1, <1>2 DEF Fresh
<1>4. Height[y] \in Int /\ REASONABLE_CONFIRMATIONS \in Int
  BY HeightTyped, LedgerConstants
<1>. QED  BY <1>1, <1>3, <1>4 DEF Fresh, ChainHeights, Heights

\* What leads down to the chain with the branch in it led down to the chain
\* before, through the branch.
LEMMA SplicedRoots ==
    ASSUME LineInv, pc = "old", Fresh(chain, common), NEW b, Rooted(b, Spliced)
    PROVE  Rooted(b, chain)
<1>. USE DEF OldLoop, NewLoop
<1>1. PICK S \in SUBSET Block : b \in S /\ Roots(S, Spliced)
  BY DEF Rooted
<1>. DEFINE T == S \cup branch
<1>2. T \in SUBSET Block /\ T \subseteq Valid \cap blocks
  BY <1>1, InRevert DEF Roots
<1>3. ASSUME NEW x \in S
      PROVE  /\ Fresh(chain, x)
             /\ Prev[x] \in T \/ (On(chain, Prev[x]) /\ Fresh(chain, Prev[x]))
  <2>1. Fresh(chain, x)
    BY <1>1, <1>3, SplicedFresh DEF Roots
  <2>2. CASE Prev[x] \in S
    BY <2>1, <2>2
  <2>3. CASE On(Spliced, Prev[x]) /\ Fresh(Spliced, Prev[x])
    <3>1. Prev[x] \in Block /\ Height[Prev[x]] \in Heights /\ Spliced[Height[Prev[x]]] = Prev[x]
      BY <2>3, HeightTyped DEF On
    <3>2. CASE Height[Prev[x]] <= Height[common]
      BY <2>1, <2>3, <3>1, <3>2, SplicedIs, SplicedFresh DEF On
    <3>3. CASE Height[Prev[x]] > Height[common]
      BY <2>1, <3>1, <3>3, SplicedIs, LedgerConstants
    <3>. QED  BY <3>1, <3>2, <3>3, InRevert DEF Heights
  <2>. QED  BY <1>1, <2>2, <2>3 DEF Roots
<1>4. ASSUME NEW x \in branch
      PROVE  /\ Fresh(chain, x)
             /\ Prev[x] \in T \/ (On(chain, Prev[x]) /\ Fresh(chain, Prev[x]))
  <2>1. /\ Height[x] > Height[common] /\ Prev[x] \in branch \cup {common}
        /\ Height[x] \in Int /\ Height[common] \in Int
    BY InRevert DEF Heights
  <2>2. Fresh(chain, x)
    BY <2>1, LedgerConstants DEF Fresh, Heights
  <2>3. On(chain, common)
    BY InRevert DEF On
  <2>. QED  BY <2>1, <2>2, <2>3
<1>5. Roots(T, chain)
  BY <1>2, <1>3, <1>4 DEF Roots
<1>. QED  BY <1>1, <1>2, <1>5 DEF Rooted

\* What leads down to a missing block past the chain with the branch in it
\* does not pass through an old block: those lead down to the common one.
LEMMA SplicedStrays ==
    ASSUME LineInv, pc = "old", NEW S \in SUBSET Block, NEW y, Strays(S, y, Spliced)
    PROVE  Strays(S, y, chain)
<1>. USE DEF LineInv, LinkInv, Safety, OldLoop, NewLoop
<1>. DEFINE T == {h \in ChainHeights : h >= Height[common] /\ chain[h] \in S}
<1>1. chain[Height[common]] \notin S
  <2>1. Spliced[Height[common]] = common /\ common \in Block /\ chain[Height[common]] = common
    BY SplicedIs, InRevert DEF Heights
  <2>. QED  BY <2>1 DEF Strays, On
<1>2. T = {}
  <2>. SUFFICES ASSUME T # {} PROVE FALSE
    OBVIOUS
  <2>1. PICK h \in T : \A k \in T : h <= k
    <3>1. T \subseteq Nat
      BY DEF ChainHeights, Heights
    <3>. HIDE DEF T
    <3>. QED  BY <3>1, LeastNumber
  <2>2. /\ h \in ChainHeights /\ h \in Heights /\ h # Height[common] /\ h >= Height[common]
        /\ Height[common] \in Heights /\ chain[h] \in S
    BY <1>1, <2>1, InRevert DEF ChainHeights
  <2>3. h # 0 /\ h - 1 \in Heights /\ h - 1 >= Height[common] /\ ~ h <= h - 1
    BY <2>2, LedgerConstants DEF Heights
  <2>4. chain[h - 1] # Absent /\ Prev[chain[h]] = chain[h - 1]
    BY <2>2, <2>3 DEF ChainLinked
  <2>5. h - 1 \in ChainHeights /\ chain[h - 1] \in blocks
    BY <2>3, <2>4 DEF ChainHeights, ChainStored
  <2>6. chain[h - 1] \in S
    BY <2>2, <2>4, <2>5 DEF Strays
  <2>. QED  BY <2>1, <2>3, <2>5, <2>6
<1>3. ASSUME NEW x \in S, On(chain, x)
      PROVE  FALSE
  <2>1. x \in Block /\ Height[x] \in Heights /\ chain[Height[x]] = x
    BY <1>3, HeightTyped DEF On
  <2>2. Height[x] \in ChainHeights
    BY <2>1, LedgerConstants DEF ChainHeights
  <2>3. CASE Height[x] >= Height[common]
    BY <1>2, <1>3, <2>1, <2>2, <2>3
  <2>4. CASE Height[x] <= Height[common]
    <3>1. Spliced[Height[x]] = x
      BY <2>1, <2>4, SplicedIs
    <3>. QED  BY <1>3, <2>1, <3>1 DEF Strays, On
  <2>. QED  BY <2>1, <2>3, <2>4, InRevert DEF Heights
<1>4. \A x \in S : Fresh(chain, x)
  BY SplicedFresh DEF Strays
<1>. QED  BY <1>3, <1>4 DEF Strays

\* The chain changes for those who wait: what is above the new one was above
\* the old one and has been judged.
LEMMA OldDoneScan ==
    ASSUME ScanInv, Repaired = Statements, OldDone
    PROVE  (ScanOrder /\ TraceSound /\ ScanSound)'
<1>. USE DEF ScanInv, ReturnInv, Arrival, OldLoop, NewLoop
<1>1. /\ pc = "old" /\ pc' = "new"
      /\ UNCHANGED <<blocks, limbo, levels, chain, asked, scanVars, trial, branch, common>>
  BY DEF OldDone, dbVars, msgVars, traceVars
<1>2. Pending' = Pending /\ Pending = todo \cup {trial}
  BY <1>1 DEF Pending, Trying, scanVars
<1>3. SettledChain = chain /\ SettledChain' = Spliced
  BY <1>1, SettledIs DEF SettledChain, Spliced, Statements
<1>4. trial \in Block /\ Height[trial] \in Heights /\ \A h \in ChainHeights : h < Height[trial]
  BY <1>1, HeightTyped DEF LineInv, LinkInv, RevertSound, Safety, LocalsStored
<1>5. Spliced[Height[trial]] # Absent
  BY <1>1, TrialSpliced
<1>6. ScanOrder'
  <2>1. \E h \in Heights : SettledChain'[h] # Absent /\ scanHeight' <= h
    <3>1. PICK h \in Heights : chain[h] # Absent /\ scanHeight <= h
      BY <1>1, <1>3 DEF ScanOrder
    <3>2. h < Height[trial] /\ scanHeight \in Heights
      BY <1>4, <3>1 DEF ChainHeights, LineInv, LinkInv, Safety, TypeOK
    <3>3. scanHeight <= Height[trial]
      BY <1>4, <3>1, <3>2 DEF Heights
    <3>. QED  BY <1>1, <1>3, <1>4, <1>5, <3>3 DEF scanVars
  <2>2. \E h \in Heights : /\ SettledChain'[h] # Absent
                           /\ \A b \in Pending' : Height[b] <= h
                           /\ \A k \in ahead' : k <= h
    <3>1. \A b \in Pending : Height[b] = Height[trial]
      BY <1>2 DEF ScanOrder
    <3>2. \A k \in ahead : k < Height[trial] /\ k \in Heights
      BY <1>2 DEF ScanOrder, LineInv, LinkInv, Safety, TypeOK
    <3>3. (\A b \in Pending : Height[b] <= Height[trial]) /\ \A k \in ahead : k <= Height[trial]
      BY <1>4, <3>1, <3>2 DEF Heights
    <3>. QED  BY <1>1, <1>2, <1>3, <1>4, <1>5, <3>3 DEF scanVars
  <2>. QED  BY <1>1, <1>2, <2>1, <2>2 DEF ScanOrder, scanVars
<1>7. ASSUME NEW b \in Block, Passed(b)'
      PROVE  Judged(b)'
  <2>1. /\ b \in limbo[Height[b]] /\ Height[b] \notin ahead /\ b \notin Pending
        /\ Height[trial] < Height[b]
    BY <1>1, <1>2, <1>3, <1>4, <1>5, <1>7 DEF Passed, scanVars
  <2>2. \A h \in Heights : SettledChain[h] # Absent => h < Height[b]
    BY <1>3, <1>4, <2>1, HeightTyped DEF ChainHeights, Heights
  <2>3. Judged(b)
    BY <1>1, <2>1, <2>2 DEF ScanSound, Passed
  <2>4. ~ Rooted(b, Spliced)
    BY <1>1, <1>3, <2>3, SplicedRoots DEF Judged, TraceSound
  <2>5. ASSUME NEW y \in MaybeBlock, Stray(b, y, Spliced)
        PROVE  y \in asked
    <3>1. Stray(b, y, chain)
      BY <1>1, <2>5, SplicedStrays DEF Stray
    <3>. QED  BY <1>3, <2>3, <3>1 DEF Judged
  <2>6. /\ \A S, c : Roots(S, c)' <=> Roots(S, c)
        /\ \A S, y, c : Strays(S, y, c)' <=> Strays(S, y, c)
    BY <1>1 DEF Roots, Strays, On, Fresh
  <2>. QED  BY <1>1, <1>3, <2>4, <2>5, <2>6 DEF Judged, Rooted, Stray
<1>. QED  BY <1>1, <1>6, <1>7 DEF TraceSound, ScanSound

LEMMA NewUnlistedScan ==
    ASSUME ScanInv, Repaired = Statements, NewUnlisted
    PROVE  (ScanOrder /\ TraceSound /\ ScanSound)'
<1>. USE DEF ScanInv, ReturnInv, LineInv, LinkInv, Safety, Arrival, OldLoop, NewLoop
<1>1. /\ pc = "newtx" /\ pc' = "record" /\ buf \in Block
      /\ limbo' = data_limbo_del(buf) /\ levels \subseteq levels'
      /\ UNCHANGED <<blocks, chain, asked, scanVars, trial, common, branch>>
  BY DEF NewUnlisted, LocalsStored, TypeOK, msgVars, traceVars, revertVars
<1>2. Pending' = Pending
  BY <1>1 DEF Pending, Trying, scanVars
<1>3. SettledChain' = SettledChain
  BY <1>1, SettledKept
<1>4. \A h \in Heights : limbo'[h] \subseteq limbo[h]
  BY <1>1, HeightTyped DEF data_limbo_del, TypeOK
<1>5. ScanOrder'
  <2>1. \A h \in Heights : limbo'[h] # {} => h \in levels'
    BY <1>1, <1>4 DEF ScanOrder
  <2>. QED  BY <1>1, <1>2, <1>3, <2>1 DEF ScanOrder, scanVars
<1>6. \A y \in Block : Passed(y)' => Passed(y)
  BY <1>1, <1>2, <1>3, <1>4, HeightTyped DEF Passed, scanVars
<1>7. ScanSound'
  BY <1>1, <1>3, <1>6, ScanSoundKept
<1>. QED  BY <1>1, <1>5, <1>7 DEF TraceSound

LEMMA AnnounceScan ==
    ASSUME ScanInv, Announce
    PROVE  (ScanOrder /\ TraceSound /\ ScanSound)'
<1>. USE DEF Arrival, OldLoop, NewLoop
<1>1. /\ pc = "announce" /\ pc' = "pick"
      /\ UNCHANGED <<blocks, limbo, levels, chain, asked, scanVars>>
  BY DEF Announce, dbVars
<1>2. Pending = todo \cup {trial} /\ Pending' = todo
  BY <1>1 DEF Pending, Trying, scanVars
<1>3. SettledChain' = SettledChain
  BY <1>1 DEF SettledChain
<1>4. ScanOrder'
  BY <1>1, <1>2, <1>3 DEF ScanInv, ScanOrder, scanVars
<1>5. swapped /\ trial \in Block
  BY <1>1 DEF ScanInv, ReturnInv, LineInv, LinkInv, Safety, LocalsStored, RevertSound
<1>6. PICK h \in Heights : SettledChain[h] # Absent /\ Height[trial] <= h
  BY <1>1, <1>2, <1>5 DEF ScanInv, ScanOrder
<1>7. ~ h < Height[trial]
  BY <1>5, <1>6, HeightTyped DEF Heights
<1>8. \A y \in Block : Passed(y)' => Passed(y)
  BY <1>1, <1>2, <1>3, <1>6, <1>7 DEF Passed, scanVars
<1>9. ScanSound'
  BY <1>1, <1>3, <1>8, ScanSoundKept DEF ScanInv
<1>. QED  BY <1>1, <1>4, <1>9 DEF TraceSound

LEMMA ScanStep ==
    ASSUME Repaired = Statements
    PROVE  ScanInv /\ [Next]_vars => ScanInv'
<1>. SUFFICES ASSUME ScanInv, [Next]_vars PROVE ScanInv'
  OBVIOUS
<1>1. ReturnInv'
  BY ReturnStep DEF ScanInv
<1>2. CASE (\E t \in Tx : ReceiveTx(t)) \/ UNCHANGED vars
  <2>1. UNCHANGED <<dbVars, msgVars, pc, scanVars, traceVars, revertVars>>
    BY <1>2 DEF ReceiveTx, vars
  <2>. USE <2>1 DEF dbVars, msgVars, scanVars, traceVars, revertVars
  <2>2. SettledChain' = SettledChain /\ Pending' = Pending
    BY DEF SettledChain, Pending, Trying
  <2>3. ScanOrder'
    BY <2>2 DEF ScanInv, ScanOrder
  <2>4. TraceSound'
    BY DEF ScanInv, TraceSound, Roots, Strays, On, Fresh
  <2>5. \A b \in Block : Passed(b)' => Passed(b)
    BY <2>2 DEF Passed
  <2>6. ScanSound'
    <3>1. CASE pc \in Arrival
      BY <3>1 DEF ScanSound
    <3>2. CASE pc \notin Arrival
      BY <2>2, <2>5, <3>2, ScanSoundKept DEF ScanInv
    <3>. QED  BY <3>1, <3>2
  <2>. QED  BY <1>1, <2>3, <2>4, <2>6 DEF ScanInv
<1>3. CASE \/ OldBlock \/ NewBlock \/ NewRecord \/ NewDone
           \/ \E t \in Tx : OldTx(t) \/ NewTx(t)
  <2>1. OldBlock => pc' = "oldtx"
    BY OldBlockEffect DEF ScanInv
  <2>2. /\ UNCHANGED <<blocks, limbo, levels, asked, scanVars, trial>>
        /\ \/ /\ pc \in OldLoop /\ pc' \in OldLoop
              /\ UNCHANGED <<chain, common, branch>>
           \/ pc \in NewLoop /\ pc' \in NewLoop \cup {"announce"}
    BY <1>3, <2>1
    DEF OldBlock, OldTx, NewBlock, NewTx, NewRecord, NewDone, dbVars, msgVars,
        traceVars, revertVars, OldLoop, NewLoop
  <2>3. SettledChain' = SettledChain
    <3>1. CASE NewRecord \/ NewDone
      BY <3>1, SettledKept DEF ScanInv, ReturnInv
    <3>2. CASE OldBlock \/ NewBlock \/ \E t \in Tx : OldTx(t) \/ NewTx(t)
      <4>1. /\ (pc \in NewLoop) = (pc' \in NewLoop)
            /\ UNCHANGED <<chain, common, branch>>
        BY <3>2 DEF OldBlock, OldTx, NewBlock, NewTx, dbVars, traceVars, revertVars,
                    NewLoop
      <4>. QED  BY <4>1, SettledKept DEF ScanInv, ReturnInv
    <3>. QED  BY <1>3, <3>1, <3>2
  <2>. QED  BY <1>1, <2>2, <2>3, LoopScan DEF ScanInv
<1>4. CASE \/ \E b \in Block : ReceiveBlock(b)
           \/ \E t \in Tx : IndexTx(t)
           \/ StoreBlock
           \/ PlaceBlock
  BY <1>1, <1>4, ArrivalScan DEF ScanInv
<1>5. CASE \/ BeginScan
           \/ \E h \in Heights : ReadLevel(h)
           \/ EndScan
           \/ \E b \in Block : PickHash(b)
           \/ LevelDone
           \/ TraceStep
           \/ Chase
           \/ GiveUp
           \/ BeginRevert
           \/ OldListed
           \/ OldDone
           \/ NewUnlisted
           \/ Announce
  BY <1>1, <1>5, BeginScanScan, ReadLevelScan, EndScanScan, PickHashScan,
     LevelDoneScan, TraceStepScan, ChaseScan, GiveUpScan, BeginRevertScan,
     OldListedScan, OldDoneScan, NewUnlistedScan, AnnounceScan, Zenon
  DEF ScanInv
<1>. QED  BY <1>2, <1>3, <1>4, <1>5 DEF Next, HandlerStep

------------------------------------------------------------------------------
(* The path of a complete trace.                                           *)

\* f lists m steps of the trace from b.
PathRun(f, b, m) ==
    f = [n \in 0..m |-> IF n = 0 THEN b
                        ELSE IF TraceStops(f[n - 1]) THEN f[n - 1]
                        ELSE Prev[f[n - 1]]]

LEMMA PathExists ==
    ASSUME NEW b, NEW m \in Nat
    PROVE  \E f : PathRun(f, b, m)
<1>. DEFINE T == {n \in Nat : ~ \E f : PathRun(f, b, n)}
<1>. SUFFICES ASSUME T # {} PROVE FALSE
  OBVIOUS
<1>1. PICK n \in T : \A k \in T : n <= k
  <2>1. T \subseteq Nat
    OBVIOUS
  <2>. HIDE DEF T
  <2>. QED  BY <2>1, LeastNumber
<1>2. n # 0
  <2>. DEFINE f == [k \in 0..0 |-> b]
  <2>1. f = [k \in 0..0 |-> IF k = 0 THEN b
                            ELSE IF TraceStops(f[k - 1]) THEN f[k - 1]
                            ELSE Prev[f[k - 1]]]
    OBVIOUS
  <2>. HIDE DEF f
  <2>2. PathRun(f, b, 0)
    BY <2>1 DEF PathRun
  <2>. QED  BY <1>1, <2>2
<1>3. n - 1 \in Nat /\ ~ n <= n - 1
  BY <1>1, <1>2
<1>4. PICK f : PathRun(f, b, n - 1)
  BY <1>1, <1>3
<1>. DEFINE last == IF TraceStops(f[n - 1]) THEN f[n - 1] ELSE Prev[f[n - 1]]
            g == [k \in 0..n |-> IF k = n THEN last ELSE f[k]]
<1>5. ASSUME NEW k \in 0..n
      PROVE  g[k] = IF k = 0 THEN b
                    ELSE IF TraceStops(g[k - 1]) THEN g[k - 1] ELSE Prev[g[k - 1]]
  <2>1. CASE k = n
    <3>1. n - 1 \in 0..n /\ n - 1 # n /\ k # 0
      BY <1>2, <1>3, <2>1
    <3>2. g[k] = last /\ g[k - 1] = f[n - 1]
      BY <2>1, <3>1
    <3>. HIDE DEF g
    <3>. QED  BY <3>1, <3>2
  <2>2. CASE k = 0
    <3>1. f[0] = b
      BY <1>3, <1>4 DEF PathRun
    <3>. QED  BY <1>2, <2>2, <3>1
  <2>3. CASE k # n /\ k # 0
    <3>1. k \in 0..(n - 1) /\ k - 1 \in 0..n /\ k - 1 # n
      BY <1>3, <2>3
    <3>2. g[k] = f[k] /\ g[k - 1] = f[k - 1]
      BY <2>3, <3>1
    <3>3. f[k] = IF k = 0 THEN b
                 ELSE IF TraceStops(f[k - 1]) THEN f[k - 1] ELSE Prev[f[k - 1]]
      BY <1>4, <3>1 DEF PathRun
    <3>. QED  BY <3>2, <3>3
  <2>. QED  BY <2>1, <2>2, <2>3
<1>6. g = [k \in 0..n |-> g[k]]
  OBVIOUS
<1>. HIDE DEF g
<1>7. PathRun(g, b, n)
  BY <1>5, <1>6 DEF PathRun
<1>. QED  BY <1>1, <1>7

\* TracePath is the set of blocks on such a list.
LEMMA TracePathIs ==
    ASSUME IsFiniteSet(Block), NEW b
    PROVE  \E f : /\ PathRun(f, b, Cardinality(Block))
                  /\ TracePath(b) = {f[n] : n \in 0..Cardinality(Block)}
<1>. DEFINE N == Cardinality(Block)
            f == CHOOSE f : PathRun(f, b, N)
<1>1. PathRun(f, b, N)
  BY PathExists, FS_CardinalityType
<1>2. TracePath(b) = {f[n] : n \in 0..N}
  BY Zenon DEF TracePath, PathRun
<1>. QED  BY <1>1, <1>2

LEMMA PathAt ==
    ASSUME NEW m \in Nat, NEW b, NEW f, PathRun(f, b, m)
    PROVE  /\ f[0] = b
           /\ \A n \in 0..m : n # 0 =>
                  f[n] = IF TraceStops(f[n - 1]) THEN f[n - 1] ELSE Prev[f[n - 1]]
<1>1. \A n \in 0..m : f[n] = IF n = 0 THEN b
                             ELSE IF TraceStops(f[n - 1]) THEN f[n - 1]
                             ELSE Prev[f[n - 1]]
  BY DEF PathRun
<1>. QED  BY <1>1

\* Where a trace has stopped it stays.
LEMMA StopStays ==
    ASSUME NEW m \in Nat, NEW b, NEW f, PathRun(f, b, m),
           NEW j \in 0..m, NEW k \in 0..m, j <= k, TraceStops(f[j])
    PROVE  f[k] = f[j]
<1>. DEFINE T == {n \in 0..m : j <= n /\ f[n] # f[j]}
<1>1. T = {}
  <2>. SUFFICES ASSUME T # {} PROVE FALSE
    OBVIOUS
  <2>1. PICK n \in T : \A i \in T : n <= i
    <3>1. T \subseteq Nat
      OBVIOUS
    <3>. HIDE DEF T
    <3>. QED  BY <3>1, LeastNumber
  <2>2. n # j /\ n # 0 /\ n - 1 \in 0..m /\ j <= n - 1 /\ ~ n <= n - 1
    BY <2>1
  <2>3. f[n - 1] = f[j]
    BY <2>1, <2>2
  <2>4. f[n] = f[n - 1]
    BY <2>1, <2>2, <2>3, PathAt
  <2>. QED  BY <2>1, <2>3, <2>4
<1>. QED  BY <1>1

\* A path has one end at most.
LEMMA OneEnd ==
    ASSUME IsFiniteSet(Block), NEW b, NEW x \in TracePath(b), NEW y \in TracePath(b),
           TraceStops(x), TraceStops(y)
    PROVE  x = y
<1>. DEFINE N == Cardinality(Block)
<1>1. N \in Nat
  BY FS_CardinalityType
<1>2. PICK f : PathRun(f, b, N) /\ TracePath(b) = {f[n] : n \in 0..N}
  BY TracePathIs
<1>3. PICK j \in 0..N, k \in 0..N : x = f[j] /\ y = f[k]
  BY <1>2
<1>. HIDE DEF N
<1>4. CASE j <= k
  BY <1>1, <1>2, <1>3, <1>4, StopStays
<1>5. CASE k <= j
  BY <1>1, <1>2, <1>3, <1>5, StopStays
<1>. QED  BY <1>1, <1>4, <1>5

LEMMA PathTyped ==
    ASSUME IsFiniteSet(Block), TypeOK, NEW b \in Block
    PROVE  TracePath(b) \subseteq MaybeBlock
<1>. DEFINE N == Cardinality(Block)
<1>1. N \in Nat
  BY FS_CardinalityType
<1>2. PICK f : PathRun(f, b, N) /\ TracePath(b) = {f[n] : n \in 0..N}
  BY TracePathIs
<1>. HIDE DEF N
<1>. DEFINE T == {n \in 0..N : f[n] \notin MaybeBlock}
<1>3. T = {}
  <2>. SUFFICES ASSUME T # {} PROVE FALSE
    OBVIOUS
  <2>1. PICK n \in T : \A i \in T : n <= i
    <3>1. T \subseteq Nat
      OBVIOUS
    <3>. HIDE DEF T
    <3>. QED  BY <3>1, LeastNumber
  <2>2. n # 0
    BY <1>1, <1>2, <2>1, PathAt DEF MaybeBlock
  <2>3. n - 1 \in 0..N /\ ~ n <= n - 1
    BY <1>1, <2>1, <2>2
  <2>4. f[n - 1] \in MaybeBlock
    BY <2>1, <2>3
  <2>5. f[n] = IF TraceStops(f[n - 1]) THEN f[n - 1] ELSE Prev[f[n - 1]]
    BY <1>1, <1>2, <2>1, <2>2, PathAt
  <2>. QED
    BY <2>1, <2>4, <2>5, LedgerConstants DEF TraceStops, TypeOK, MaybeBlock
<1>. QED  BY <1>2, <1>3

\* A path along which a rank falls has an end.
LEMMA PathEnds ==
    ASSUME IsFiniteSet(Block), TypeOK, NEW b \in Block, NEW rank \in [Block -> Nat],
           \A y \in TracePath(b) :
               ~ TraceStops(y) /\ Prev[y] \in Block => rank[Prev[y]] < rank[y]
    PROVE  \E y \in TracePath(b) : TraceStops(y)
<1>. DEFINE N == Cardinality(Block)
<1>1. N \in Nat
  BY FS_CardinalityType
<1>2. PICK f : PathRun(f, b, N) /\ TracePath(b) = {f[n] : n \in 0..N}
  BY TracePathIs
<1>. SUFFICES ASSUME \A y \in TracePath(b) : ~ TraceStops(y) PROVE FALSE
  OBVIOUS
<1>3. \A n \in 0..N : f[n] \in Block /\ ~ TraceStops(f[n])
  BY <1>2 DEF TraceStops, TypeOK
<1>. HIDE DEF N
<1>4. ASSUME NEW n \in 0..N, n # 0
      PROVE  n - 1 \in 0..N /\ rank[f[n]] < rank[f[n - 1]]
  <2>1. n - 1 \in 0..N
    BY <1>1, <1>4
  <2>2. f[n] = Prev[f[n - 1]]
    BY <1>1, <1>2, <1>3, <1>4, <2>1, PathAt
  <2>3. f[n - 1] \in TracePath(b)
    BY <1>2, <2>1
  <2>. QED  BY <1>3, <1>4, <2>1, <2>2, <2>3
<1>5. ASSUME NEW j \in 0..N, NEW k \in 0..N, j < k
      PROVE  rank[f[k]] < rank[f[j]]
  <2>. DEFINE T == {n \in 0..N : j < n /\ ~ rank[f[n]] < rank[f[j]]}
  <2>1. T = {}
    <3>. SUFFICES ASSUME T # {} PROVE FALSE
      OBVIOUS
    <3>1. PICK n \in T : \A i \in T : n <= i
      <4>1. T \subseteq Nat
        OBVIOUS
      <4>. HIDE DEF T
      <4>. QED  BY <4>1, LeastNumber
    <3>2. n # 0 /\ n \in 0..N /\ n - 1 \in 0..N /\ ~ n <= n - 1
      BY <1>1, <3>1
    <3>3. rank[f[n]] < rank[f[n - 1]]
      BY <1>4, <3>2
    <3>4. rank[f[n]] \in Nat /\ rank[f[n - 1]] \in Nat /\ rank[f[j]] \in Nat
      BY <1>3, <3>2
    <3>5. n - 1 # j
      BY <3>1, <3>3
    <3>6. j < n - 1
      BY <3>1, <3>2, <3>5
    <3>7. rank[f[n - 1]] < rank[f[j]]
      BY <3>1, <3>2, <3>6
    <3>. QED  BY <3>1, <3>3, <3>4, <3>7
  <2>. QED  BY <1>5, <2>1
<1>6. \A n \in 0..N : rank[f[n]] \in Nat
  BY <1>3
<1>7. ASSUME NEW j \in 0..N, NEW k \in 0..N, j # k
      PROVE  f[j] # f[k]
  BY <1>5, <1>6, <1>7
<1>8. f \in [0..N -> Block]
  BY <1>2, <1>3 DEF PathRun
<1>9. IsFiniteSet(0..N) /\ Cardinality(0..N) = N + 1
  BY <1>1, FS_Interval
<1>10. N < Cardinality(0..N)
  BY <1>1, <1>9
<1>. QED  BY <1>7, <1>8, <1>9, <1>10, FS_PigeonHole DEF N

\* The blocks a path passes, and where it goes from each.
LEMMA PathPassed ==
    ASSUME IsFiniteSet(Block), TypeOK, NEW b,
           \E y \in TracePath(b) : TraceStops(y)
    PROVE  /\ b \in TracePath(b)
           /\ \A x \in TracePath(b) : ~ TraceStops(x) => x \in blocks /\ Prev[x] \in TracePath(b)
<1>. DEFINE N == Cardinality(Block)
<1>1. N \in Nat
  BY FS_CardinalityType
<1>2. PICK f : PathRun(f, b, N) /\ TracePath(b) = {f[n] : n \in 0..N}
  BY TracePathIs
<1>3. PICK m \in 0..N : TraceStops(f[m])
  BY <1>2
<1>. HIDE DEF N
<1>4. b \in TracePath(b)
  BY <1>1, <1>2, PathAt
<1>5. ASSUME NEW x \in TracePath(b), ~ TraceStops(x)
      PROVE  x \in blocks /\ Prev[x] \in TracePath(b)
  <2>1. PICK n \in 0..N : x = f[n]
    BY <1>2
  <2>2. ~ m <= n
    BY <1>1, <1>2, <1>3, <1>5, <2>1, StopStays
  <2>3. n + 1 \in 0..N /\ n + 1 # 0 /\ (n + 1) - 1 = n
    BY <1>1, <2>2
  <2>4. f[n + 1] = Prev[x]
    BY <1>1, <1>2, <1>5, <2>1, <2>3, PathAt
  <2>. QED  BY <1>2, <1>5, <2>3, <2>4 DEF TraceStops
<1>. QED  BY <1>4, <1>5

LEMMA TargetIs ==
    ASSUME IsFiniteSet(Block), NEW b, NEW y \in TracePath(b), TraceStops(y)
    PROVE  TraceTarget(b) = y
<1>1. TraceTarget(b) \in TracePath(b) /\ TraceStops(TraceTarget(b))
  BY DEF TraceTarget
<1>. QED  BY <1>1, OneEnd

LEMMA TooOldIs ==
    ASSUME NEW y \in Block
    PROVE  TooOld(y) <=> ~ Fresh(chain, y)
<1>1. Height[y] \in Int /\ REASONABLE_CONFIRMATIONS \in Int /\ \A h \in Heights : h \in Int
  BY HeightTyped, LedgerConstants DEF Heights
<1>. QED  BY <1>1 DEF TooOld, Fresh, ChainHeights

\* A block the scan should adopt leads down to the chain.
LEMMA AdoptableRooted ==
    ASSUME IsFiniteSet(Block), TypeOK, NEW b \in Block, Adoptable(b),
           ~ data_chain_exists(b)
    PROVE  Rooted(b, chain)
<1>. DEFINE S == {y \in TracePath(b) : ~ TraceStops(y)}
<1>1. /\ S \subseteq Valid /\ data_chain_exists(TraceTarget(b))
      /\ TraceTarget(b) \in blocks /\ ~ TooOld(TraceTarget(b))
  BY DEF Adoptable
<1>2. PICK end \in TracePath(b) : TraceStops(end)
  <2>1. Height \in [Block -> Nat]
    BY LedgerConstants DEF Heights
  <2>2. ASSUME NEW y \in TracePath(b), ~ TraceStops(y), Prev[y] \in Block
        PROVE  Height[Prev[y]] < Height[y]
    <3>1. y \in Valid /\ y \in Block
      BY <1>1, <2>2 DEF TraceStops, TypeOK
    <3>2. Height[y] = Height[Prev[y]] + 1
      BY <2>2, <3>1, ValidHeights
    <3>. QED  BY <2>1, <2>2, <3>2
  <2>. QED  BY <2>1, <2>2, PathEnds
<1>3. end = TraceTarget(b) /\ data_chain_exists(end) /\ end \in Block
  BY <1>1, <1>2, TargetIs DEF TypeOK
<1>4. \A y \in TracePath(b) : y \notin S => y = end
  BY <1>2, <1>3, OneEnd
<1>5. b \in S
  BY <1>2, <1>3, <1>4, PathPassed
<1>6. S \subseteq blocks /\ \A x \in S : Prev[x] \in TracePath(b)
  BY <1>2, PathPassed
<1>7. \A x \in S : Fresh(chain, x)
  BY <1>6, TooOldIs DEF TraceStops, TypeOK
<1>8. On(chain, end) /\ Fresh(chain, end)
  BY <1>1, <1>3, TooOldIs DEF On, data_chain_exists
<1>. HIDE DEF S
<1>9. Roots(S, chain)
  BY <1>1, <1>4, <1>6, <1>7, <1>8 DEF Roots
<1>. QED  BY <1>5, <1>6, <1>9 DEF Rooted, TypeOK

\* With the statements corrected, when a handler is done, for any blocks in any
\* order, no valid branch that starts less than REASONABLE_CONFIRMATIONS below
\* the top and would make the chain higher is left in limbo, although the scan reads the
\* chain's height once, goes by a copy of each level and swaps one branch in
\* at most: what it passed by before the swap leads down to the new chain
\* only if it led down to the old one.
THEOREM LedgerLimboResolved ==
    ASSUME Repaired = Statements, IsFiniteSet(Block)
    PROVE  Spec => []LimboResolved
<1>1. ScanInv => LimboResolved
  <2>. SUFFICES ASSUME ScanInv, pc = "idle", NEW b \in Block, ListedAbove(b), Adoptable(b)
                PROVE  FALSE
    BY DEF LimboResolved
  <2>. USE DEF ScanInv, ReturnInv, LineInv, LinkInv, Safety
  <2>1. SettledChain = chain /\ Pending = {} /\ ahead = {}
    BY DEF SettledChain, Pending, Trying, RevertSound, ScanOrder, OldLoop, NewLoop
  <2>2. Passed(b)
    BY <2>1 DEF Passed, ListedAbove, ChainHeights
  <2>3. ~ Rooted(b, chain)
    BY <2>1, <2>2 DEF ScanSound, Judged, Arrival
  <2>4. ~ data_chain_exists(b)
    BY HeightTyped, LedgerConstants DEF ListedAbove, data_chain_exists, ChainHeights
  <2>. QED  BY <2>3, <2>4, AdoptableRooted
<1>2. ScanInv /\ [Next]_vars => ScanInv'
  BY ScanStep
<1>. QED  BY ScanInit, <1>1, <1>2, PTL DEF Spec

\* No block is its own ancestor: it contains the hash of its predecessor.
Acyclic ==
    \E rank \in [Block -> Nat] :
        \A b \in Block : Prev[b] \in Block => rank[Prev[b]] < rank[b]

\* With the statements corrected, when a handler is done, for any blocks in any
\* order, it has requested the missing ancestor of every branch in limbo that
\* would be higher than the chain and is not too old, also of those it tried before it changed the chain.
THEOREM LedgerOrphansChased ==
    ASSUME Repaired = Statements, IsFiniteSet(Block), Acyclic
    PROVE  Spec => []OrphansChased
<1>1. ScanInv => OrphansChased
  <2>. SUFFICES ASSUME ScanInv, pc = "idle", NEW b \in Block, ListedAbove(b),
                       TraceTarget(b) \notin blocks
                PROVE  TraceTarget(b) \in asked
    BY DEF OrphansChased
  <2>. USE DEF ScanInv, ReturnInv, LineInv, LinkInv, Safety
  <2>. DEFINE S == {y \in TracePath(b) : ~ TraceStops(y)}
  <2>1. SettledChain = chain /\ Pending = {} /\ ahead = {}
    BY DEF SettledChain, Pending, Trying, RevertSound, ScanOrder, OldLoop, NewLoop
  <2>2. Passed(b)
    BY <2>1 DEF Passed, ListedAbove, ChainHeights
  <2>3. PICK rank \in [Block -> Nat] :
          \A y \in Block : Prev[y] \in Block => rank[Prev[y]] < rank[y]
    BY DEF Acyclic
  <2>4. PICK end \in TracePath(b) : TraceStops(end)
    <3>1. \A y \in TracePath(b) :
            ~ TraceStops(y) /\ Prev[y] \in Block => rank[Prev[y]] < rank[y]
      BY <2>3 DEF TraceStops, TypeOK
    <3>. QED  BY <2>3, <3>1, PathEnds
  <2>5. end = TraceTarget(b) /\ \A y \in TracePath(b) : y \notin S => y = end
    BY <2>4, TargetIs, OneEnd
  <2>6. /\ b \in S \cup {end} /\ S \subseteq blocks
        /\ \A x \in S : ~ data_chain_exists(x) /\ Prev[x] \in S \cup {end}
    BY <2>4, <2>5, PathPassed DEF TraceStops
  <2>7. \A x \in S : Fresh(chain, x)
    BY <2>6, TooOldIs DEF TraceStops, TypeOK
  <2>. HIDE DEF S
  <2>8. Strays(S, end, chain)
    BY <2>5, <2>6, <2>7 DEF Strays, On, data_chain_exists
  <2>9. end \in MaybeBlock
    BY PathTyped
  <2>10. Stray(b, end, chain)
    BY <2>6, <2>8 DEF Stray, TypeOK
  <2>. QED  BY <2>1, <2>2, <2>5, <2>9, <2>10 DEF ScanSound, Judged, Arrival
<1>2. ScanInv /\ [Next]_vars => ScanInv'
  BY ScanStep
<1>. QED  BY ScanInit, <1>1, <1>2, PTL DEF Spec
==============================================================================
