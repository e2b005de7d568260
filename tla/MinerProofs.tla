----------------------------- MODULE MinerProofs -----------------------------
(***************************************************************************)
(* For any bound on the height, any rivals, transactions and caps: the     *)
(* miner's header is coherent although height and hash are two reads of a  *)
(* chain that changes between them.                                        *)
(***************************************************************************)
EXTENDS Miner, TLAPS

IsTip(h) == chain[h] # Absent /\ \A k \in Heights : k > h => chain[k] = Absent

\* Each recorded block lists its own height, and there is a highest one.
ChainSound ==
    /\ \A h \in Heights : chain[h] # Absent => chain[h][1] = h
    /\ \E tip \in Heights : IsTip(tip)

\* What the miner has read stays true: a recorded height is never cleared.
HeaderRead ==
    /\ pc = "hash" => chain[height] # Absent
    /\ pc = "header" => latest # Absent /\ latest[1] = height
    /\ Started => work.prev # Absent /\ work.prev[1] + 1 = work.height

Work == [height : 0..(MaxHeight + 1), prev : Hashes \cup {Absent},
         root : {<<>>}, txs : Seq(Tx \cup {Coinbase})]

\* The block under work holds the coinbase.
Filling ==
    /\ work \in Work
    /\ Started => Len(work.txs) > 0

Inv == TypeOK /\ ChainSound /\ HeaderRead /\ Filling

LEMMA Facts ==
    /\ MaxHeight \in Nat /\ 0 \in Heights
    /\ \A b \in Hashes : b # Absent /\ b[1] \in Heights
    /\ \A h \in Heights, f \in Fork : <<h, f>> \in Hashes
<1>1. MaxHeight \in Nat /\ 0 \in Heights
  BY MinerConstants DEF Heights
<1>2. ASSUME NEW b \in Hashes PROVE b # Absent /\ b[1] \in Heights
  <2>1. PICK h \in Heights, f \in Fork : b = <<h, f>>
    BY DEF Hashes
  <2>2. Len(b) = 2 /\ Len(Absent) = 0
    BY <2>1 DEF Absent
  <2>. QED
    BY <2>1, <2>2
<1>. QED
  BY <1>1, <1>2 DEF Hashes

\* The chain's height is that of its highest block.
LEMMA TipHeightIs ==
    ASSUME NEW tip \in Heights, IsTip(tip)
    PROVE  TipHeight = tip
<1>. DEFINE P(h) == /\ chain[h] # Absent
                    /\ \A k \in Heights : k > h => chain[k] = Absent
<1>1. TipHeight = CHOOSE h \in Heights : P(h)
  BY DEF TipHeight
<1>2. P(tip)
  BY DEF IsTip
<1>3. TipHeight \in Heights /\ P(TipHeight)
  BY <1>1, <1>2
<1>4. ~ (tip > TipHeight) /\ ~ (TipHeight > tip)
  BY <1>2, <1>3
<1>. QED
  BY <1>3, <1>4, Facts DEF Heights

LEMMA TipFound ==
    ASSUME ChainSound
    PROVE  TipHeight \in Heights /\ IsTip(TipHeight)
  BY TipHeightIs DEF ChainSound

LEMMA InvInit == Init => Inv
<1>. SUFFICES ASSUME Init PROVE Inv
  OBVIOUS
<1>. USE Facts
<1>1. PICK f \in Fork : chain = [h \in Heights |-> IF h = 0 THEN <<0, f>> ELSE Absent]
  BY DEF Init
<1>2. TypeOK
  BY <1>1 DEF Init, TypeOK, Heights
<1>3. ChainSound
  <2>1. IsTip(0)
    BY <1>1 DEF IsTip, Heights, Absent
  <2>2. \A h \in Heights : chain[h] # Absent => chain[h][1] = h
    BY <1>1
  <2>. QED
    BY <2>1, <2>2 DEF ChainSound, Init
<1>4. HeaderRead /\ Filling
  BY DEF Init, HeaderRead, Filling, Work, Started
<1>. QED
  BY <1>2, <1>3, <1>4 DEF Inv

\* Recording a block at its height keeps the chain sound.
LEMMA Recording ==
    ASSUME Inv, NEW b \in Hashes, Record(b)
    PROVE  /\ ChainSound'
           /\ chain' \in [Heights -> Hashes \cup {Absent}]
           /\ \A h \in Heights : chain[h] # Absent => chain'[h] # Absent
<1>. USE Facts DEF Inv
<1>1. chain' = [chain EXCEPT ![b[1]] = b] /\ chain \in [Heights -> Hashes \cup {Absent}]
  BY DEF Record, TypeOK
<1>2. \A h \in Heights : chain'[h] = IF h = b[1] THEN b ELSE chain[h]
  BY <1>1
<1>3. \A h \in Heights : chain'[h] # Absent => chain'[h][1] = h
  BY <1>2 DEF ChainSound
<1>4. TipHeight \in Heights /\ IsTip(TipHeight)
  BY TipFound
<1>5. CASE b[1] > TipHeight
  <2>1. IsTip(b[1])'
    BY <1>2, <1>4, <1>5 DEF IsTip, Heights
  <2>. QED
    BY <1>1, <1>2, <1>3, <2>1 DEF ChainSound
<1>6. CASE ~ (b[1] > TipHeight)
  <2>. DEFINE tip == TipHeight
  <2>1. tip \in Heights /\ IsTip(tip)
    BY <1>4
  <2>2. ~ (b[1] > tip)
    BY <1>6
  <2>. HIDE DEF tip
  <2>3. chain'[tip] # Absent /\ \A k \in Heights : k > tip => chain'[k] = Absent
    BY <1>2, <2>1, <2>2 DEF IsTip, Heights
  <2>. QED
    BY <1>1, <1>2, <1>3, <2>1, <2>3 DEF ChainSound, IsTip
<1>. QED
  BY <1>5, <1>6

\* What the other threads do.
LEMMA Others ==
    ASSUME Inv,
           \/ \E f \in Fork :
                  \/ Extend(f)
                  \/ \E low, top \in Heights \ {0} : BeginRevert(low, top, f)
           \/ RecordNext
           \/ \E t \in Tx : PoolAdd(t)
           \/ \E n \in DOMAIN mempool : PoolDel(n)
    PROVE  Inv'
<1>. USE Facts DEF Inv
<1>1. ASSUME NEW f \in Fork, Extend(f) PROVE Inv'
  <2>1. TipHeight \in Heights /\ TipHeight + 1 \in Heights
    BY <1>1, TipFound DEF Extend, Heights
  <2>. DEFINE b == <<TipHeight + 1, f>>
  <2>2. /\ b \in Hashes /\ Record(b) /\ swap' = swap
        /\ UNCHANGED <<mempool, minerVars>>
    BY <1>1, <2>1 DEF Extend
  <2>. HIDE DEF b
  <2>3. /\ ChainSound' /\ chain' \in [Heights -> Hashes \cup {Absent}]
        /\ \A h \in Heights : chain[h] # Absent => chain'[h] # Absent
    BY <2>2, Recording
  <2>. QED
    BY <2>2, <2>3 DEF minerVars, TypeOK, HeaderRead, Filling, Started
<1>2. ASSUME NEW f \in Fork, NEW low \in Heights \ {0}, NEW top \in Heights \ {0},
             BeginRevert(low, top, f)
      PROVE  Inv'
  <2>1. swap' = (low..top) \X {f} /\ UNCHANGED <<chain, mempool, minerVars>>
    BY <1>2 DEF BeginRevert
  <2>2. swap' \subseteq Hashes
    BY <2>1 DEF Hashes, Heights
  <2>3. ChainSound'
    BY <2>1 DEF ChainSound, IsTip
  <2>. QED
    BY <2>1, <2>2, <2>3 DEF minerVars, TypeOK, HeaderRead, Filling, Started
<1>3. CASE RecordNext
  <2>1. PICK b \in swap : /\ \A c \in swap : c[1] <= b[1]
                          /\ Record(b) /\ swap' = swap \ {b}
                          /\ UNCHANGED <<mempool, minerVars>>
    BY <1>3 DEF RecordNext
  <2>2. b \in Hashes
    BY DEF TypeOK
  <2>3. /\ ChainSound' /\ chain' \in [Heights -> Hashes \cup {Absent}]
        /\ \A h \in Heights : chain[h] # Absent => chain'[h] # Absent
    BY <2>1, <2>2, Recording
  <2>. QED
    BY <2>1, <2>3 DEF minerVars, TypeOK, HeaderRead, Filling, Started
<1>4. ASSUME NEW t \in Tx, PoolAdd(t) PROVE Inv'
  BY <1>4 DEF PoolAdd, minerVars, TypeOK, ChainSound, IsTip, HeaderRead, Filling, Started
<1>5. ASSUME NEW n \in DOMAIN mempool, PoolDel(n) PROVE Inv'
  <2>1. n \in 1..Len(mempool) /\ Len(mempool) \in Nat
    BY DEF TypeOK
  <2>2. mempool' \in [1..(Len(mempool) - 1) -> Tx] /\ Len(mempool) - 1 \in Nat
    BY <1>5, <2>1 DEF PoolDel, TypeOK
  <2>3. mempool' \in Seq(Tx) /\ Len(mempool') = Len(mempool) - 1
    BY <2>2
  <2>4. TypeOK'
    BY <1>5, <2>1, <2>3 DEF PoolDel, minerVars, TypeOK
  <2>. QED
    BY <1>5, <2>4 DEF PoolDel, minerVars, ChainSound, IsTip, HeaderRead, Filling, Started
<1>. QED
  BY <1>1, <1>2, <1>3, <1>4, <1>5

\* What the miner does.
LEMMA Mining ==
    ASSUME Inv, MinerStep PROVE Inv'
<1>. USE Facts DEF Inv, Started
<1>1. CASE ReadHeight
  <2>1. /\ height' = TipHeight /\ TipHeight \in Heights /\ IsTip(TipHeight) /\ pc' = "hash"
        /\ UNCHANGED <<envVars, latest, work, cmp_height, diff, i>>
    BY <1>1, TipFound DEF ReadHeight
  <2>. QED
    BY <2>1 DEF envVars, TypeOK, ChainSound, IsTip, HeaderRead, Filling
<1>2. CASE ReadHash
  <2>1. /\ latest' = chain[height] /\ chain[height] \in Hashes /\ chain[height][1] = height
        /\ pc' = "header" /\ chain[height] # Absent
        /\ UNCHANGED <<envVars, height, work, cmp_height, diff, i>>
    BY <1>2 DEF ReadHash, HashRead, HeaderRead, ChainSound, TypeOK
  <2>. QED
    BY <2>1 DEF envVars, TypeOK, ChainSound, IsTip, HeaderRead, Filling
<1>3. CASE SetHeader
  <2>1. /\ latest \in Hashes /\ latest[1] = height /\ height \in Heights
        /\ work' = [height |-> height + 1, prev |-> latest, root |-> <<>>,
                    txs |-> <<Coinbase>>]
        /\ pc' = "stale"
        /\ UNCHANGED <<envVars, height, latest, cmp_height, diff, i>>
    BY <1>3 DEF SetHeader, NextHeight, block_add_tx, HeaderRead, TypeOK
  <2>2. work' \in Work /\ Len(work'.txs) = 1
    <3>1. height + 1 \in 0..(MaxHeight + 1)
      BY <2>1 DEF Heights
    <3>2. <<Coinbase>> \in Seq(Tx \cup {Coinbase}) /\ Len(<<Coinbase>>) = 1
      OBVIOUS
    <3>. QED
      BY <2>1, <3>1, <3>2 DEF Work
  <2>3. work'.height = height + 1 /\ work'.prev = latest
    BY <2>1
  <2>4. TypeOK'
    BY <2>1, <2>2 DEF envVars, TypeOK, Work
  <2>. QED
    BY <2>1, <2>2, <2>3, <2>4 DEF envVars, ChainSound, IsTip, HeaderRead, Filling
<1>4. CASE StaleHeight
  <2>1. CheckHeight \in Heights
    BY TipFound DEF CheckHeight
  <2>. QED
    BY <1>4, <2>1 DEF StaleHeight, envVars, TypeOK, ChainSound, IsTip, HeaderRead, Filling
<1>5. CASE StaleCompare
  <2>1. Wanted \in Int
    BY <1>5 DEF StaleCompare, Wanted, Filling, Work, TypeOK
  <2>. QED
    BY <1>5, <2>1 DEF StaleCompare, envVars, TypeOK, ChainSound, IsTip, HeaderRead, Filling
<1>6. CASE FillTx
  <2>1. /\ pc = "fill" /\ i \in Nat
        /\ UNCHANGED <<envVars, height, latest, cmp_height, diff>>
    BY <1>6 DEF FillTx, Filling, TypeOK
  <2>2. CASE pc' = "dead" /\ UNCHANGED <<work, i>>
    BY <2>1, <2>2 DEF envVars, TypeOK, ChainSound, IsTip, HeaderRead, Filling
  <2>3. CASE /\ ~ (NextSlot >= Len(mempool))
             /\ work' = block_add_tx(work, mempool[NextSlot + 1])
             /\ i' = i + 1 /\ pc' = pc
    <3>1. mempool[NextSlot + 1] \in Tx
      <4>1. NextSlot \in Nat /\ Len(mempool) \in Nat
        BY <2>1 DEF NextSlot, Filling, Work, TypeOK
      <4>2. NextSlot + 1 \in 1..Len(mempool)
        BY <2>3, <4>1
      <4>. QED
        BY <4>2 DEF TypeOK
    <3>2. /\ work' = [work EXCEPT !.txs = Append(work.txs, mempool[NextSlot + 1])]
          /\ work \in Work
      BY <2>3 DEF block_add_tx, Filling
    <3>3. /\ work' \in Work /\ work'.prev = work.prev /\ work'.height = work.height
          /\ Len(work'.txs) > 0
      <4>. DEFINE new == Append(work.txs, mempool[NextSlot + 1])
      <4>1. work.txs \in Seq(Tx \cup {Coinbase})
        BY <3>2 DEF Work
      <4>2. new \in Seq(Tx \cup {Coinbase}) /\ Len(new) > 0
        BY <3>1, <4>1
      <4>3. work' = [work EXCEPT !.txs = new]
        BY <3>2
      <4>. HIDE DEF new
      <4>. QED
        BY <3>2, <4>2, <4>3 DEF Work
    <3>. QED
      BY <2>1, <2>3, <3>3 DEF envVars, TypeOK, ChainSound, IsTip, HeaderRead, Filling, Work
  <2>. QED
    BY <1>6, <2>2, <2>3 DEF FillTx
<1>7. CASE FillDone \/ Mine
  BY <1>7 DEF FillDone, Mine, envVars, TypeOK, ChainSound, IsTip, HeaderRead, Filling
<1>. QED
  BY <1>1, <1>2, <1>3, <1>4, <1>5, <1>6, <1>7 DEF MinerStep

LEMMA InvStep == Inv /\ [Next]_vars => Inv'
<1>. SUFFICES ASSUME Inv, [Next]_vars PROVE Inv'
  OBVIOUS
<1>1. CASE UNCHANGED vars
  BY <1>1 DEF vars, envVars, Inv, TypeOK, ChainSound, IsTip, HeaderRead, Filling, Started
<1>. QED
  BY <1>1, Others, Mining DEF Next

\* The work block's predecessor is one below it, for any caps and whichever
\* statements are corrected: what one read found is still recorded, at its
\* own height, when the next read uses it (mine.c:112 to 127).
THEOREM MinerHeaderSound == Spec => []HeaderSound
<1>1. Inv => HeaderSound
  BY DEF Inv, HeaderRead, HeaderSound
<1>. QED
  BY <1>1, InvInit, InvStep, PTL DEF Spec

==============================================================================
