---------------------------- MODULE MerkleProofs ----------------------------
(***************************************************************************)
(* compute_merkle_root for any number of transactions and any hash; and    *)
(* the work block that holds the root, for any radix, sizes, headers and   *)
(* transactions: its buffer is the record the miner takes it for, and the  *)
(* header commits to the transactions behind it.                           *)
(***************************************************************************)
EXTENDS Merkle, WorkBlock, SequenceTheorems, WellFoundedInduction, TLAPS

Inv == TypeOK /\ PointersDistinct /\ InPlace /\ RootReached

\* What an exchange of the spare buffer with slot k does to the slots.
LEMMA StoreEffect ==
    ASSUME TypeOK, PointersDistinct, NEW value, Store(value), k \in Slots,
           UNCHANGED tx_count
    PROVE  /\ tree_hashes' \in [Slots -> Buffers] /\ buffer' \in Buffers
           /\ DOMAIN memory' = Buffers
           /\ PointersDistinct'
           /\ memory'[tree_hashes'[k]] = value
           /\ \A j \in Slots : j # k => memory'[tree_hashes'[j]] = At(j)
  BY DEF TypeOK, PointersDistinct, Store, At, Slots, Buffers

LEMMA MerkleInit == Init => Inv
<1>. SUFFICES ASSUME Init PROVE Inv
  OBVIOUS
<1>1. TypeOK
  BY MaxTxPositive DEF Init, TypeOK, Slots, Buffers
<1>2. PointersDistinct
  BY MaxTxPositive DEF Init, PointersDistinct, Slots, Buffers
<1>3. InPlace /\ RootReached
  BY MaxTxPositive DEF Init, InPlace, RootReached, Slots
<1>. QED  BY <1>1, <1>2, <1>3 DEF Inv

\* The value of one entry of the level above.
LEMMA ParentAt ==
    ASSUME NEW j \in 0..((leaf_count + 1) \div 2 - 1)
    PROVE  NextLevel[j] = Hash(level[2 * j], IF 2 * j + 1 < leaf_count
                                             THEN level[2 * j + 1]
                                             ELSE level[2 * j])
  BY DEF NextLevel, Tree!Parents

LEMMA NextLevelKept ==
    ASSUME UNCHANGED <<level, leaf_count>>
    PROVE  NextLevel' = NextLevel
  BY DEF NextLevel, Tree!Parents

\* A step that leaves pointers and memory alone leaves the slots alone.
LEMMA SlotsKept ==
    ASSUME UNCHANGED <<tx_count, tree_hashes, buffer, memory>>
    PROVE  /\ Slots' = Slots /\ Buffers' = Buffers
           /\ PointersDistinct => PointersDistinct'
           /\ \A j : memory'[tree_hashes'[j]] = At(j)
  BY DEF Slots, Buffers, PointersDistinct, At

LEMMA MerkleStep == Inv /\ [Next]_vars => Inv'
<1>. SUFFICES ASSUME Inv, [Next]_vars PROVE Inv'
  OBVIOUS
<1>. USE DEF Inv
<1>1. CASE BaseLeaf
  <2>1. /\ pc = "leaves" /\ pc' = "leaves" /\ i \in Slots /\ i' = i + 1
        /\ memory' = [memory EXCEPT ![tree_hashes[i]] = Leaf(i)]
        /\ UNCHANGED <<tx_count, tree_hashes, buffer, leaf_count, remainder, k,
                       level>>
    BY <1>1 DEF BaseLeaf, TypeOK, Slots
  <2>2. TypeOK' /\ PointersDistinct'
    BY <2>1 DEF TypeOK, PointersDistinct, Slots, Buffers
  <2>3. \A j \in 0..i : memory'[tree_hashes[j]] = level[j]
    BY <2>1 DEF TypeOK, PointersDistinct, InPlace, At, Slots, Buffers
  <2>4. InPlace'
    BY <2>1, <2>3 DEF InPlace, At, TypeOK, Slots
  <2>. QED  BY <2>1, <2>2, <2>4 DEF RootReached
<1>2. CASE LeavesDone
  <2>1. TypeOK' /\ PointersDistinct' /\ RootReached'
    BY <1>2, SlotsKept DEF LeavesDone, TypeOK, RootReached
  <2>2. InPlace'
    BY <1>2 DEF LeavesDone, InPlace, At, Slots
  <2>. QED  BY <2>1, <2>2
<1>3. CASE BeginLevel
  <2>1. leaf_count % 2 \in {0, 1} /\ 0 <= (leaf_count - (leaf_count % 2)) \div 2
    BY <1>3 DEF BeginLevel, TypeOK
  <2>2. TypeOK' /\ PointersDistinct' /\ RootReached'
    BY <1>3, <2>1, SlotsKept DEF BeginLevel, TypeOK, RootReached
  <2>3. InPlace'
    BY <1>3, <2>1 DEF BeginLevel, InPlace, At, TypeOK, PairCount
  <2>. QED  BY <2>2, <2>3
<1>4. CASE HashPair
  <2>1. /\ pc = "pairs" /\ pc' = "pairs" /\ k < PairCount /\ i = 2 * k
        /\ i' = i + 2 /\ k' = k + 1
        /\ remainder = leaf_count % 2
        /\ UNCHANGED <<tx_count, leaf_count, remainder, level>>
        /\ Store(Hash(At(i), At(i + 1)))
    BY <1>4 DEF HashPair, Store, InPlace
  <2>2. /\ k \in Nat /\ leaf_count \in Nat /\ tx_count \in Nat
        /\ leaf_count <= tx_count /\ leaf_count > 1
        /\ 2 * k + 1 < leaf_count
        /\ k + 1 <= (leaf_count - remainder) \div 2
        /\ k <= (leaf_count + 1) \div 2 - 1
    BY <2>1 DEF TypeOK, PairCount, InPlace
  <2>3. k \in Slots
    BY <2>2 DEF Slots
  <2>4. /\ tree_hashes' \in [Slots -> Buffers] /\ buffer' \in Buffers
        /\ DOMAIN memory' = Buffers
        /\ PointersDistinct'
        /\ memory'[tree_hashes'[k]] = Hash(At(i), At(i + 1))
        /\ \A j \in Slots : j # k => memory'[tree_hashes'[j]] = At(j)
    BY <2>1, <2>3, StoreEffect
  <2>5. TypeOK'
    BY <2>1, <2>2, <2>4 DEF TypeOK, Slots, Buffers
  <2>6. At(i) = level[2 * k] /\ At(i + 1) = level[2 * k + 1]
    BY <2>1, <2>2 DEF InPlace
  <2>7. memory'[tree_hashes'[k]] = NextLevel[k]
    <3>1. NextLevel[k] = Hash(level[2 * k], level[2 * k + 1])
      BY <2>2, ParentAt
    <3>. QED  BY <2>1, <2>4, <2>6, <3>1 DEF At
  <2>8. \A j \in 0..k : memory'[tree_hashes'[j]] = NextLevel[j]
    <3>1. ASSUME NEW j \in 0..(k - 1)
          PROVE  memory'[tree_hashes'[j]] = NextLevel[j]
      <4>1. j \in Slots /\ j # k
        BY <2>2, <3>1 DEF Slots
      <4>2. At(j) = NextLevel[j]
        BY <2>1, <3>1 DEF InPlace
      <4>. QED  BY <2>4, <4>1, <4>2
    <3>. QED  BY <2>2, <2>7, <3>1
  <2>9. \A j \in (i + 2)..(leaf_count - 1) : memory'[tree_hashes'[j]] = level[j]
    <3>1. ASSUME NEW j \in (i + 2)..(leaf_count - 1)
          PROVE  memory'[tree_hashes'[j]] = level[j]
      <4>1. j \in Slots /\ j # k /\ j \in i..(leaf_count - 1)
        BY <2>1, <2>2, <3>1 DEF Slots
      <4>2. At(j) = level[j]
        BY <2>1, <4>1 DEF InPlace
      <4>. QED  BY <2>4, <4>1, <4>2
    <3>. QED  BY <3>1
  <2>10. InPlace'
    <3>1. NextLevel' = NextLevel
      BY <2>1, NextLevelKept
    <3>2. 0..(k' - 1) = 0..k
      BY <2>1, <2>2
    <3>3. DOMAIN level = 0..(leaf_count - 1)
      BY DEF InPlace
    <3>4. i' = 2 * k' /\ k' <= (leaf_count - remainder) \div 2
      BY <2>1, <2>2
    <3>. QED
      BY <2>1, <2>2, <2>8, <2>9, <3>1, <3>2, <3>3, <3>4 DEF InPlace, At, PairCount
  <2>. QED  BY <2>1, <2>4, <2>5, <2>10 DEF RootReached
<1>5. CASE HashRemainder
  <2>1. /\ pc = "pairs" /\ pc' = "next" /\ k = PairCount /\ i = 2 * k
        /\ k' = k + 1
        /\ remainder = 1 /\ remainder = leaf_count % 2
        /\ UNCHANGED <<tx_count, leaf_count, remainder, i, level>>
        /\ Store(Hash(At(leaf_count - 1), At(leaf_count - 1)))
    BY <1>5 DEF HashRemainder, LastHash, Store, InPlace
  <2>2. /\ k \in Nat /\ leaf_count \in Nat /\ tx_count \in Nat
        /\ leaf_count <= tx_count /\ leaf_count > 1
        /\ 2 * k = leaf_count - 1
        /\ k + 1 = (leaf_count + 1) \div 2
        /\ k \in 0..((leaf_count + 1) \div 2 - 1)
    BY <2>1 DEF TypeOK, PairCount, InPlace
  <2>3. k \in Slots
    BY <2>2 DEF Slots
  <2>4. /\ tree_hashes' \in [Slots -> Buffers] /\ buffer' \in Buffers
        /\ DOMAIN memory' = Buffers
        /\ PointersDistinct'
        /\ memory'[tree_hashes'[k]] = Hash(At(leaf_count - 1), At(leaf_count - 1))
        /\ \A j \in Slots : j # k => memory'[tree_hashes'[j]] = At(j)
    BY <2>1, <2>3, StoreEffect
  <2>5. TypeOK'
    BY <2>1, <2>2, <2>4 DEF TypeOK, Slots, Buffers
  <2>6. At(leaf_count - 1) = level[2 * k]
    BY <2>1, <2>2 DEF InPlace
  <2>7. memory'[tree_hashes'[k]] = NextLevel[k]
    <3>1. NextLevel[k] = Hash(level[2 * k], level[2 * k])
      BY <2>2, ParentAt
    <3>. QED  BY <2>1, <2>4, <2>6, <3>1 DEF At
  <2>8. \A j \in 0..k : memory'[tree_hashes'[j]] = NextLevel[j]
    <3>1. ASSUME NEW j \in 0..(k - 1)
          PROVE  memory'[tree_hashes'[j]] = NextLevel[j]
      <4>1. j \in Slots /\ j # k
        BY <2>2, <3>1 DEF Slots
      <4>2. At(j) = NextLevel[j]
        BY <2>1, <3>1 DEF InPlace
      <4>. QED  BY <2>4, <4>1, <4>2
    <3>. QED  BY <2>2, <2>7, <3>1
  <2>9. InPlace'
    <3>1. NextLevel' = NextLevel
      BY <2>1, NextLevelKept
    <3>2. 0..(k' - 1) = 0..k
      BY <2>1, <2>2
    <3>3. DOMAIN level = 0..(leaf_count - 1)
      BY DEF InPlace
    <3>. QED
      BY <2>1, <2>2, <2>8, <3>1, <3>2, <3>3 DEF InPlace, At
  <2>. QED  BY <2>1, <2>4, <2>5, <2>9 DEF RootReached
<1>6. CASE NoRemainder
  <2>1. TypeOK' /\ PointersDistinct' /\ RootReached'
    BY <1>6, SlotsKept DEF NoRemainder, TypeOK, RootReached
  <2>2. k = (leaf_count + 1) \div 2
    BY <1>6 DEF NoRemainder, InPlace, PairCount, TypeOK
  <2>3. InPlace'
    BY <1>6, <2>2, NextLevelKept DEF NoRemainder, InPlace, At
  <2>. QED  BY <2>1, <2>3
<1>7. CASE EndLevel
  <2>1. k \in 1..leaf_count
    BY <1>7 DEF EndLevel, InPlace, TypeOK
  <2>2. TypeOK' /\ PointersDistinct' /\ RootReached'
    BY <1>7, <2>1, SlotsKept DEF EndLevel, TypeOK, RootReached
  <2>3. InPlace'
    BY <1>7, <2>1 DEF EndLevel, InPlace, At
  <2>. QED  BY <2>2, <2>3
<1>8. CASE Finish
  <2>1. leaf_count = 1 /\ out' = level[0]
    BY <1>8 DEF Finish, InPlace, TypeOK
  <2>2. TypeOK' /\ PointersDistinct'
    BY <1>8, SlotsKept DEF Finish, TypeOK
  <2>3. InPlace' /\ RootReached'
    BY <1>8, <2>1 DEF Finish, InPlace, RootReached
  <2>. QED  BY <2>2, <2>3
<1>9. CASE UNCHANGED vars
  <2>1. UNCHANGED vars /\ NextLevel' = NextLevel
    BY <1>9, NextLevelKept DEF vars
  <2>2. TypeOK' /\ PointersDistinct' /\ RootReached'
    BY <2>1, SlotsKept DEF vars, TypeOK, RootReached
  <2>3. InPlace'
    BY <2>1 DEF vars, InPlace, At, PairCount, Slots
  <2>. QED  BY <2>2, <2>3
<1>. QED  BY <1>1, <1>2, <1>3, <1>4, <1>5, <1>6, <1>7, <1>8, <1>9 DEF Next

\* Writing in place never overtakes reading, whatever the number of
\* transactions.
THEOREM MerkleInPlace == Spec => []InPlace
<1>1. Inv => InPlace
  BY DEF Inv
<1>. QED  BY MerkleInit, MerkleStep, <1>1, PTL DEF Spec

\* The pointers stay a permutation of the allocated buffers: the final loop
\* frees each of them once.
THEOREM MerklePointers == Spec => []PointersDistinct
<1>1. Inv => PointersDistinct
  BY DEF Inv
<1>. QED  BY MerkleInit, MerkleStep, <1>1, PTL DEF Spec

\* Every step of the in-place computation is a step of the definition of the
\* merkle root or leaves its level alone, and the result is the last hash.
THEOREM MerkleRefines ==
    Spec => /\ Tree!TreeInit
            /\ [][Tree!Climb]_<<level, leaf_count>>
            /\ []RootReached
<1>1. Init => Tree!TreeInit
  BY DEF Init, Tree!TreeInit, Slots
<1>2. Inv /\ [Next]_vars => [Tree!Climb]_<<level, leaf_count>>
  <2>. SUFFICES ASSUME Inv, EndLevel PROVE Tree!Climb
    BY DEF Next, BaseLeaf, LeavesDone, BeginLevel, HashPair, HashRemainder,
           NoRemainder, Finish, vars
  <2>1. leaf_count > 1 /\ leaf_count' = (leaf_count + 1) \div 2
    BY DEF Inv, EndLevel, InPlace
  <2>2. level' = Tree!Parents(level, leaf_count)
    <3>1. level' = [j \in 0..(k - 1) |-> NextLevel[j]]
      BY DEF Inv, EndLevel, InPlace
    <3>2. k = (leaf_count + 1) \div 2
      BY DEF Inv, EndLevel, InPlace
    <3>. QED  BY <3>1, <3>2 DEF NextLevel, Tree!Parents
  <2>. QED  BY <2>1, <2>2 DEF Tree!Climb
<1>3. Inv => RootReached
  BY DEF Inv
<1>. QED  BY MerkleInit, MerkleStep, <1>1, <1>2, <1>3, PTL DEF Spec

------------------------------------------------------------------------------
(* The work block in its buffer.                                           *)

ByteBuffers == [Addr -> Int]

LEMMA BufFacts ==
    /\ MAX_BLOCK_SIZE \in Nat /\ MAX_BLOCK_SIZE > 83
    /\ Addr = 0..(MAX_BLOCK_SIZE - 1)
    /\ Radix \in Nat \ {0, 1}
    /\ Byte = 0..(Radix - 1)
    /\ SIZE_TX_INPUT \in Nat /\ SIZE_TX_OUTPUT \in Nat
    /\ Junk \in Int \ Byte
  BY WorkBlockConstants, BytesConstants DEF Addr, Byte, SIZE_BLOCK_HEADER

LEMMA BufPlaces ==
    /\ Place(0) = 1 /\ Place(1) = Radix
    /\ Place(2) = Radix * Radix
    /\ Place(3) = Radix * Radix * Radix
    /\ \A ix \in 0..3 : Place(ix) \in Nat \ {0}
<1>1. /\ Place(0) = 1 /\ Place(1) = Radix
      /\ Place(2) = Radix * Radix
      /\ Place(3) = Radix * Radix * Radix
  BY DEF Place
<1>2. Radix * Radix \in Nat \ {0} /\ Radix * Radix * Radix \in Nat \ {0}
  <2>1. \A a, b \in Nat \ {0} : a * b \in Nat \ {0}
    OBVIOUS
  <2>2. Radix \in Nat \ {0}
    BY BufFacts
  <2>3. Radix * Radix \in Nat \ {0}
    BY <2>1, <2>2
  <2>. QED  BY <2>1, <2>2, <2>3
<1>. QED  BY <1>1, <1>2, BufFacts

\* A digit is a byte.
LEMMA DigitByte ==
    ASSUME NEW a \in Nat, NEW ix \in 0..3
    PROVE  (a \div Place(ix)) % Radix \in Byte
<1>1. a \div Place(ix) \in Nat
  <2>1. \A b \in Nat, d \in Nat \ {0} : b \div d \in Nat
    OBVIOUS
  <2>. QED  BY <2>1, BufPlaces
<1>2. \A b \in Nat, d \in Nat \ {0} : b % d \in 0..(d - 1)
  OBVIOUS
<1>. QED  BY <1>1, <1>2, BufFacts

LEMMA ShiftedByte ==
    ASSUME NEW a \in Nat
    PROVE  /\ \A ix \in 0..3 : Shifted(a, 4, ix) \in Byte
           /\ \A ix \in 0..1 : Shifted(a, 2, ix) \in Byte
<1>1. ASSUME NEW ix \in 0..3 PROVE Shifted(a, 4, ix) \in Byte
  BY DigitByte, 4 - 1 - ix \in 0..3 DEF Shifted
<1>2. ASSUME NEW ix \in 0..1 PROVE Shifted(a, 2, ix) \in Byte
  BY DigitByte, 2 - 1 - ix \in 0..3 DEF Shifted
<1>. QED  BY <1>1, <1>2

LEMMA BytesMade ==
    ASSUME NEW a \in Nat
    PROVE  /\ uitob(a) \in Seq(Byte) /\ Len(uitob(a)) = 4
           /\ ustob(a) \in Seq(Byte) /\ Len(ustob(a)) = 2
           /\ uitob(a) \in Seq(Int) /\ ustob(a) \in Seq(Int)
<1>1. /\ \A ix \in 0..3 : Shifted(a, 4, ix) \in Int
      /\ \A ix \in 0..1 : Shifted(a, 2, ix) \in Int
  <2>1. Byte \subseteq Int
    BY BufFacts
  <2>. QED  BY <2>1, ShiftedByte
<1>2. uitob(a) \in Seq(Int) /\ ustob(a) \in Seq(Int)
  BY <1>1 DEF uitob, ustob
<1>. QED  BY <1>2, ShiftedByte DEF uitob, ustob

------------------------------------------------------------------------------
(* Writing to the buffer.                                                  *)

LEMMA WrittenIs ==
    ASSUME NEW m \in ByteBuffers, NEW p \in Nat, NEW s \in Seq(Int)
    PROVE  /\ Written(m, p, s) \in ByteBuffers
           /\ \A a \in Addr : a < p \/ a >= p + Len(s) =>
                  Written(m, p, s)[a] = m[a]
           /\ \A a \in Addr : a >= p /\ a < p + Len(s) =>
                  Written(m, p, s)[a] = s[(a - p) + 1]
<1>1. /\ DOMAIN m = Addr /\ DOMAIN s = 1..Len(s) /\ Len(s) \in Nat
      /\ \A a \in Addr : a \in Nat /\ m[a] \in Int
      /\ \A ix \in 1..Len(s) : s[ix] \in Int
  BY BufFacts DEF ByteBuffers
<1>2. Written(m, p, s) = [a \in Addr |->
          IF (a - p) + 1 \in 1..Len(s) THEN s[(a - p) + 1] ELSE m[a]]
  BY <1>1 DEF Written
<1>3. ASSUME NEW a \in Addr, a < p \/ a >= p + Len(s)
      PROVE  Written(m, p, s)[a] = m[a]
  <2>1. (a - p) + 1 \notin 1..Len(s)
    BY <1>1, <1>3
  <2>. QED  BY <1>2, <2>1
<1>4. ASSUME NEW a \in Addr, a >= p /\ a < p + Len(s)
      PROVE  /\ Written(m, p, s)[a] = s[(a - p) + 1]
             /\ s[(a - p) + 1] \in Int
  <2>1. (a - p) + 1 \in 1..Len(s)
    BY <1>1, <1>4
  <2>. QED  BY <1>1, <1>2, <2>1
<1>5. ASSUME NEW a \in Addr PROVE Written(m, p, s)[a] \in Int
  <2>1. a < p \/ a >= p + Len(s) \/ (a >= p /\ a < p + Len(s))
    BY <1>1
  <2>. QED  BY <1>1, <1>3, <1>4, <2>1
<1>6. Written(m, p, s) \in ByteBuffers
  BY <1>2, <1>5 DEF ByteBuffers
<1>. QED  BY <1>3, <1>4, <1>6

\* Both buffers hold the same from address lo up to, not including, hi.
Same(m, n, lo, hi) == \A a \in Addr : a >= lo /\ a < hi => m[a] = n[a]

\* A write leaves everything else as it was.
LEMMA WrittenSame ==
    ASSUME NEW m \in ByteBuffers, NEW p \in Nat, NEW s \in Seq(Int),
           NEW lo \in Nat, NEW hi \in Nat, hi <= p \/ p + Len(s) <= lo
    PROVE  Same(Written(m, p, s), m, lo, hi)
<1>1. Len(s) \in Nat /\ \A a \in Addr : a \in Nat
  BY BufFacts
<1>2. ASSUME NEW a \in Addr, a >= lo, a < hi PROVE a < p \/ a >= p + Len(s)
  BY <1>1, <1>2
<1>. QED  BY <1>2, WrittenIs DEF Same

------------------------------------------------------------------------------
(* Reading from it.                                                        *)

LEMMA WordsRead ==
    ASSUME NEW m, NEW p
    PROVE  ReadUInt(m, p) \in Nat /\ ReadUShort(m, p) \in Nat
<1>1. \A a, b \in Nat : a + b \in Nat /\ a * b \in Nat
  OBVIOUS
<1>2. BigEndian(m, p, 4) \in Nat /\ BigEndian(m, p, 2) \in Nat
  <2>. DEFINE D(w, ix) == IF m[p + ix] \in Byte
                         THEN m[p + ix] * Place((w - 1) - ix) ELSE 0
  <2>1. ASSUME NEW w \in {2, 4}, NEW ix \in 0..3, ix < w PROVE D(w, ix) \in Nat
    <3>1. (w - 1) - ix \in 0..3
      BY <2>1
    <3>2. Place((w - 1) - ix) \in Nat
      BY <3>1, BufPlaces
    <3>3. m[p + ix] \in Byte => m[p + ix] \in Nat
      BY BufFacts
    <3>. QED  BY <1>1, <3>2, <3>3
  <2>2. BigEndian(m, p, 4) = D(4, 0) + D(4, 1) + D(4, 2) + D(4, 3)
    BY DEF BigEndian
  <2>3. BigEndian(m, p, 2) = D(2, 0) + D(2, 1)
    BY DEF BigEndian
  <2>. HIDE DEF D
  <2>. QED  BY <1>1, <2>1, <2>2, <2>3
<1>3. ASSUME NEW a \in Nat PROVE ntohl(a) \in Nat /\ ntohs(a) \in Nat
  <2>1. /\ \A ix \in 0..3 : Shifted(a, 4, ix) \in Nat
        /\ \A ix \in 0..1 : Shifted(a, 2, ix) \in Nat
    <3>1. Byte \subseteq Nat
      BY BufFacts
    <3>. QED  BY ShiftedByte, <3>1
  <2>2. Radix \in Nat /\ Place(2) \in Nat /\ Place(3) \in Nat
    BY BufFacts, BufPlaces
  <2>3. Reversed(a, 4) \in Nat /\ Reversed(a, 2) \in Nat
    BY <1>1, <2>1, <2>2 DEF Reversed
  <2>. QED  BY <2>3 DEF ntohl, ntohs
<1>. QED
  BY <1>2, <1>3 DEF ReadUInt, ReadUShort, btoui, btous

LEMMA WordsAgree ==
    ASSUME NEW m, NEW n, NEW p
    PROVE  /\ (\A ix \in 0..3 : m[p + ix] = n[p + ix]) =>
                  ReadUInt(m, p) = ReadUInt(n, p)
           /\ (\A ix \in 0..1 : m[p + ix] = n[p + ix]) =>
                  ReadUShort(m, p) = ReadUShort(n, p)
<1>1. ASSUME \A ix \in 0..3 : m[p + ix] = n[p + ix]
      PROVE  BigEndian(m, p, 4) = BigEndian(n, p, 4)
  <2>1. /\ m[p + 0] = n[p + 0] /\ m[p + 1] = n[p + 1]
        /\ m[p + 2] = n[p + 2] /\ m[p + 3] = n[p + 3]
    BY <1>1
  <2>. QED  BY <2>1 DEF BigEndian
<1>2. ASSUME \A ix \in 0..1 : m[p + ix] = n[p + ix]
      PROVE  BigEndian(m, p, 2) = BigEndian(n, p, 2)
  <2>1. m[p + 0] = n[p + 0] /\ m[p + 1] = n[p + 1]
    BY <1>2
  <2>. QED  BY <2>1 DEF BigEndian
<1>. QED
  BY <1>1, <1>2 DEF ReadUInt, ReadUShort, btoui, btous

LEMMA UIntSame ==
    ASSUME NEW m, NEW n, NEW p \in Nat, NEW lo \in Nat, NEW hi \in Nat,
           Same(m, n, lo, hi), lo <= p, p + 4 <= hi, p + 4 <= MAX_BLOCK_SIZE
    PROVE  ReadUInt(m, p) = ReadUInt(n, p)
<1>1. ASSUME NEW ix \in 0..3 PROVE m[p + ix] = n[p + ix]
  <2>1. p + ix \in Addr /\ p + ix >= lo /\ p + ix < hi
    BY BufFacts
  <2>. QED  BY <2>1 DEF Same
<1>. QED  BY <1>1, WordsAgree

LEMMA TxSizeNat ==
    ASSUME NEW m, NEW p
    PROVE  tx_compute_size(m, p) \in Nat
<1>1. \A a, b \in Nat : a + b \in Nat /\ a * b \in Nat
  OBVIOUS
<1>. QED
  BY <1>1, WordsRead, BufFacts
  DEF tx_compute_size, m_tx_size, SIZE_TX_HEADER

LEMMA TxSizeSame ==
    ASSUME NEW m, NEW n, NEW p \in Nat, NEW lo \in Nat, NEW hi \in Nat,
           Same(m, n, lo, hi), lo <= p, p + 10 <= hi \/ MAX_BLOCK_SIZE < p + 10
    PROVE  tx_compute_size(m, p) = tx_compute_size(n, p)
<1>. USE DEF SIZE_TX_HEADER, POS_TX_IN_COUNT, POS_TX_OUT_COUNT
<1>1. CASE ~ (p + 10 <= MAX_BLOCK_SIZE)
  BY <1>1 DEF tx_compute_size
<1>2. CASE p + 10 <= MAX_BLOCK_SIZE
  <2>1. ASSUME NEW q \in {p + 2, p + 4}, NEW ix \in 0..1 PROVE m[q + ix] = n[q + ix]
    <3>1. q + ix \in Addr /\ q + ix >= lo /\ q + ix < hi
      BY <1>2, BufFacts
    <3>. QED  BY <3>1 DEF Same
  <2>2. ASSUME NEW q \in {p + 2, p + 4}
        PROVE  ReadUShort(m, q) = ReadUShort(n, q)
    BY <2>1, WordsAgree
  <2>3. /\ ReadUShort(m, p + 2) = ReadUShort(n, p + 2)
        /\ ReadUShort(m, p + 4) = ReadUShort(n, p + 4)
    BY <2>2
  <2>. QED  BY <2>3 DEF tx_compute_size
<1>. QED  BY <1>1, <1>2

------------------------------------------------------------------------------
(* From transaction to transaction.                                        *)

LEMMA FirstNumber ==
    ASSUME NEW T, T \subseteq Nat, T # {}
    PROVE  \E x \in T : \A y \in T : x <= y
<1>. DEFINE R == OpToRel(<, Nat)
<1>1. IsWellFoundedOn(R, Nat)
  BY NatLessThanWellFounded
<1>2. PICK x \in T : \A y \in T : ~ (<<y, x>> \in R)
  <2>. HIDE DEF R
  <2>. QED  BY <1>1, WFMin
<1>3. \A y \in T : ~ (y < x)
  BY <1>2 DEF OpToRel
<1>. QED  BY <1>3

\* c begins at the header's end and steps from transaction to transaction.
Walk(c, m, count) ==
    /\ c \in [0..count -> Nat]
    /\ c[0] = 83
    /\ \A ix \in 1..count : c[ix] = c[ix - 1] + tx_compute_size(m, c[ix - 1])

WalkRun(c, m, count) ==
    c = [j \in 0..count |-> IF j = 0 THEN SIZE_BLOCK_HEADER
                            ELSE c[j - 1] + tx_compute_size(m, c[j - 1])]

LEMMA WalkExists ==
    ASSUME NEW m, NEW count \in Nat
    PROVE  \E c : Walk(c, m, count)
<1>. DEFINE T == {n \in Nat : ~ \E c : Walk(c, m, n)}
<1>. SUFFICES ASSUME T # {} PROVE FALSE
  OBVIOUS
<1>1. PICK n \in T : \A y \in T : n <= y
  <2>1. T \subseteq Nat
    OBVIOUS
  <2>. HIDE DEF T
  <2>. QED  BY <2>1, FirstNumber
<1>2. CASE n = 0
  <2>1. Walk([j \in 0..0 |-> 83], m, 0)
    BY DEF Walk
  <2>. QED  BY <1>2, <2>1
<1>3. CASE n # 0
  <2>1. n - 1 \in Nat /\ n - 1 \notin T
    BY <1>1, <1>3
  <2>2. PICK c : Walk(c, m, n - 1)
    BY <2>1
  <2>. DEFINE d == [j \in 0..n |-> IF j < n THEN c[j]
                                   ELSE c[n - 1] + tx_compute_size(m, c[n - 1])]
  <2>3. /\ c \in [0..(n - 1) -> Nat] /\ c[0] = 83
        /\ \A ix \in 1..(n - 1) : c[ix] = c[ix - 1] + tx_compute_size(m, c[ix - 1])
    BY <2>2 DEF Walk
  <2>4. c[n - 1] \in Nat /\ c[n - 1] + tx_compute_size(m, c[n - 1]) \in Nat
    <3>1. n - 1 \in 0..(n - 1)
      BY <2>1
    <3>. QED  BY <2>3, <3>1, TxSizeNat
  <2>5. d \in [0..n -> Nat]
    <3>1. ASSUME NEW j \in 0..n, j < n PROVE c[j] \in Nat
      BY <2>3, <3>1
    <3>. QED  BY <2>4, <3>1
  <2>6. d[0] = 83
    BY <1>3, <2>3
  <2>7. ASSUME NEW ix \in 1..n
        PROVE  d[ix] = d[ix - 1] + tx_compute_size(m, d[ix - 1])
    <3>1. ix - 1 \in 0..n /\ ix - 1 < n /\ ix \in 0..n /\ d[ix - 1] = c[ix - 1]
      OBVIOUS
    <3>2. CASE ix = n
      BY <3>1, <3>2
    <3>3. CASE ix # n
      <4>1. ix \in 1..(n - 1) /\ ix < n
        BY <3>3
      <4>2. d[ix] = c[ix]
        BY <3>1, <4>1
      <4>. HIDE DEF d
      <4>. QED  BY <2>3, <3>1, <4>1, <4>2
    <3>. QED  BY <3>2, <3>3
  <2>8. Walk(d, m, n)
    <3>. HIDE DEF d
    <3>. QED  BY <2>5, <2>6, <2>7 DEF Walk
  <2>. QED  BY <2>8
<1>. QED  BY <1>2, <1>3

\* Of two walks that meet the same sizes below the count, each is the other.
LEMMA WalksAgree ==
    ASSUME NEW c, NEW d, NEW count \in Nat,
           c[0] = d[0],
           \A ix \in 1..count : c[ix - 1] = d[ix - 1] => c[ix] = d[ix]
    PROVE  \A ix \in 0..count : c[ix] = d[ix]
<1>. DEFINE T == {ix \in 0..count : c[ix] # d[ix]}
<1>. SUFFICES ASSUME T # {} PROVE FALSE
  OBVIOUS
<1>1. PICK ix \in T : \A y \in T : ix <= y
  <2>1. T \subseteq Nat
    OBVIOUS
  <2>. HIDE DEF T
  <2>. QED  BY <2>1, FirstNumber
<1>2. ix # 0 /\ ix \in 1..count
  OBVIOUS
<1>3. ix - 1 \notin T /\ ix - 1 \in 0..count
  BY <1>1, <1>2
<1>. QED  BY <1>2, <1>3

LEMMA CursorsWalk ==
    ASSUME NEW m, NEW count \in Nat
    PROVE  Walk(Cursors(m, count), m, count)
<1>1. PICK w : Walk(w, m, count)
  BY WalkExists
<1>2. WalkRun(w, m, count)
  <2>. DEFINE v == [j \in 0..count |-> IF j = 0 THEN SIZE_BLOCK_HEADER
                            ELSE w[j - 1] + tx_compute_size(m, w[j - 1])]
  <2>1. ASSUME NEW j \in 0..count PROVE w[j] = v[j]
    <3>1. j = 0 \/ j \in 1..count
      OBVIOUS
    <3>. QED  BY <1>1, <3>1 DEF Walk, SIZE_BLOCK_HEADER
  <2>2. w \in [0..count -> Nat] /\ w = [j \in 0..count |-> w[j]]
    BY <1>1 DEF Walk
  <2>3. v = [j \in 0..count |-> v[j]]
    OBVIOUS
  <2>4. w = v
    <3>. HIDE DEF v
    <3>. QED  BY <2>1, <2>2, <2>3
  <2>. QED  BY <2>4 DEF WalkRun
<1>3. Cursors(m, count) = CHOOSE c : WalkRun(c, m, count)
  BY Zenon DEF Cursors, WalkRun
<1>. DEFINE c == Cursors(m, count)
<1>4. WalkRun(c, m, count)
  BY <1>2, <1>3
<1>. HIDE DEF c
<1>5. /\ c = [j \in 0..count |-> c[j]]
      /\ c[0] = 83
      /\ \A ix \in 1..count : c[ix] = c[ix - 1] + tx_compute_size(m, c[ix - 1])
  <2>. DEFINE v == [j \in 0..count |-> IF j = 0 THEN SIZE_BLOCK_HEADER
                            ELSE c[j - 1] + tx_compute_size(m, c[j - 1])]
  <2>1. c = v
    BY <1>4 DEF WalkRun
  <2>2. /\ v = [j \in 0..count |-> v[j]]
        /\ v[0] = 83
        /\ \A ix \in 1..count : v[ix] = c[ix - 1] + tx_compute_size(m, c[ix - 1])
    BY DEF SIZE_BLOCK_HEADER
  <2>. HIDE DEF v
  <2>. QED  BY <2>1, <2>2
<1>6. \A ix \in 0..count : c[ix] = w[ix]
  <2>1. c[0] = w[0]
    BY <1>1, <1>5 DEF Walk
  <2>2. ASSUME NEW ix \in 1..count, c[ix - 1] = w[ix - 1] PROVE c[ix] = w[ix]
    <3>1. /\ c[ix] = c[ix - 1] + tx_compute_size(m, c[ix - 1])
          /\ w[ix] = w[ix - 1] + tx_compute_size(m, w[ix - 1])
      BY <1>1, <1>5 DEF Walk
    <3>. QED  BY <2>2, <3>1
  <2>. QED  BY <2>1, <2>2, WalksAgree
<1>7. c \in [0..count -> Nat]
  <2>1. ASSUME NEW ix \in 0..count PROVE c[ix] \in Nat
    BY <1>1, <1>6 DEF Walk
  <2>. QED  BY <1>5, <2>1
<1>8. Walk(c, m, count)
  BY <1>5, <1>7 DEF Walk
<1>. QED  BY <1>8 DEF c

\* A walk never goes back.
LEMMA WalkGrows ==
    ASSUME NEW m, NEW count \in Nat, NEW c, Walk(c, m, count)
    PROVE  /\ \A ix \in 0..count : c[ix] \in Nat /\ c[ix] >= 83
           /\ \A ix \in 0..count : c[ix] <= c[count]
<1>1. /\ c[0] = 83 /\ \A ix \in 0..count : c[ix] \in Nat
      /\ \A ix \in 1..count : c[ix - 1] <= c[ix]
  <2>1. /\ c[0] = 83 /\ c \in [0..count -> Nat]
        /\ \A ix \in 1..count : c[ix] = c[ix - 1] + tx_compute_size(m, c[ix - 1])
    BY DEF Walk
  <2>2. ASSUME NEW ix \in 1..count PROVE c[ix - 1] <= c[ix]
    <3>1. ix - 1 \in 0..count
      OBVIOUS
    <3>2. c[ix - 1] \in Nat /\ tx_compute_size(m, c[ix - 1]) \in Nat
      BY <2>1, <3>1, TxSizeNat
    <3>. QED  BY <2>1, <3>2
  <2>. QED  BY <2>1, <2>2
<1>2. \A ix \in 0..count : c[ix] >= 83
  <2>. DEFINE T == {ix \in 0..count : ~ (c[ix] >= 83)}
  <2>. SUFFICES ASSUME T # {} PROVE FALSE
    OBVIOUS
  <2>1. PICK ix \in T : \A y \in T : ix <= y
    <3>1. T \subseteq Nat
      OBVIOUS
    <3>. HIDE DEF T
    <3>. QED  BY <3>1, FirstNumber
  <2>2. ix \in 1..count
    BY <1>1
  <2>3. ix - 1 \notin T /\ ix - 1 \in 0..count
    BY <2>1, <2>2
  <2>. QED  BY <1>1, <2>2, <2>3
<1>3. \A ix \in 0..count : c[ix] <= c[count]
  <2>. DEFINE T == {n \in 0..count : ~ (c[count - n] <= c[count])}
  <2>1. T = {}
    <3>. SUFFICES ASSUME T # {} PROVE FALSE
      OBVIOUS
    <3>1. PICK n \in T : \A y \in T : n <= y
      <4>1. T \subseteq Nat
        OBVIOUS
      <4>. HIDE DEF T
      <4>. QED  BY <4>1, FirstNumber
    <3>2. n \in 1..count
      BY <1>1
    <3>3. n - 1 \notin T /\ n - 1 \in 0..count
      BY <3>1, <3>2
    <3>4. c[count - (n - 1)] <= c[count]
      BY <3>3
    <3>5. (count - (n - 1)) - 1 = count - n /\ count - (n - 1) \in 1..count
      BY <3>2
    <3>6. c[count - n] <= c[count - (n - 1)]
      BY <1>1, <3>5
    <3>. QED  BY <1>1, <3>2, <3>4, <3>5, <3>6
  <2>2. ASSUME NEW ix \in 0..count PROVE c[ix] <= c[count]
    <3>1. count - ix \in 0..count /\ count - (count - ix) = ix
      OBVIOUS
    <3>. QED  BY <2>1, <3>1
  <2>. QED  BY <2>2
<1>. QED  BY <1>1, <1>2, <1>3

------------------------------------------------------------------------------
(* What is stored, and what a reader finds.                                *)

\* The sequence s stands in the buffer from address p on.
Stored(m, p, s) == \A ix \in 1..Len(s) : m[p + ix - 1] = s[ix]

LEMMA WrittenStored ==
    ASSUME NEW m \in ByteBuffers, NEW p \in Nat, NEW s \in Seq(Int),
           p + Len(s) <= MAX_BLOCK_SIZE
    PROVE  Stored(Written(m, p, s), p, s)
<1>1. Len(s) \in Nat
  OBVIOUS
<1>2. ASSUME NEW ix \in 1..Len(s) PROVE Written(m, p, s)[p + ix - 1] = s[ix]
  <2>1. /\ p + ix - 1 \in Addr /\ p + ix - 1 >= p /\ p + ix - 1 < p + Len(s)
        /\ ((p + ix - 1) - p) + 1 = ix
    BY <1>1, BufFacts
  <2>. DEFINE a == p + ix - 1
  <2>. HIDE DEF a
  <2>2. Written(m, p, s)[a] = s[(a - p) + 1]
    BY <2>1, WrittenIs DEF a
  <2>. QED  BY <2>1, <2>2 DEF a
<1>. QED  BY <1>2 DEF Stored

LEMMA StoredSame ==
    ASSUME NEW m, NEW n, NEW p \in Nat, NEW s, Len(s) \in Nat,
           NEW lo \in Nat, NEW hi \in Nat, Same(m, n, lo, hi), Stored(n, p, s),
           lo <= p, p + Len(s) <= hi, p + Len(s) <= MAX_BLOCK_SIZE
    PROVE  Stored(m, p, s)
<1>1. ASSUME NEW ix \in 1..Len(s) PROVE m[p + ix - 1] = s[ix]
  <2>1. p + ix - 1 \in Addr /\ p + ix - 1 >= lo /\ p + ix - 1 < hi
    BY BufFacts
  <2>. QED  BY <2>1 DEF Same, Stored
<1>. QED  BY <1>1 DEF Stored

LEMMA StoredKept ==
    ASSUME NEW m \in ByteBuffers, NEW p \in Nat, NEW s \in Seq(Int),
           NEW q \in Nat, NEW r, Len(r) \in Nat, Stored(m, q, r),
           q + Len(r) <= MAX_BLOCK_SIZE, q + Len(r) <= p \/ p + Len(s) <= q
    PROVE  Stored(Written(m, p, s), q, r)
<1>1. q + Len(r) \in Nat
  OBVIOUS
<1>2. Same(Written(m, p, s), m, q, q + Len(r))
  BY <1>1, WrittenSame
<1>. QED  BY <1>1, <1>2, StoredSame

\* A hash that is stored is read back.
LEMMA HashBack ==
    ASSUME NEW m, NEW p \in Nat, NEW x, Stored(m, p, HashBytes(x))
    PROVE  ReadHash(m, p) = x
<1>1. /\ Len(HashBytes(x)) = 32 /\ \A ix \in 1..32 : HashBytes(x)[ix] = x
  <2>1. HashBytes(x) = [ix \in 1..32 |-> x]
    BY DEF HashBytes, SIZE_SHA256
  <2>2. HashBytes(x) \in Seq({x})
    BY <2>1
  <2>3. Len(HashBytes(x)) = 32
    BY <2>1, <2>2
  <2>. QED  BY <2>1, <2>3
<1>2. ASSUME NEW ix \in 0..31 PROVE m[p + ix] = x
  <2>1. ix + 1 \in 1..32 /\ p + (ix + 1) - 1 = p + ix
    OBVIOUS
  <2>. QED  BY <1>1, <2>1 DEF Stored
<1>3. m[p] = x
  <2>1. 0 \in 0..31 /\ p + 0 = p
    OBVIOUS
  <2>. QED  BY <1>2, <2>1
<1>. QED  BY <1>2, <1>3 DEF ReadHash, SIZE_SHA256

LEMMA HashLaidOut ==
    ASSUME NEW x \in Int
    PROVE  HashBytes(x) \in Seq(Int) /\ Len(HashBytes(x)) = 32
  BY DEF HashBytes, SIZE_SHA256

\* The hash of a field whose bytes do not change does not.
LEMMA HashSame ==
    ASSUME NEW m, NEW n, NEW p \in Nat, p + 32 <= 83,
           Same(m, n, p, p + 32)
    PROVE  ReadHash(m, p) = ReadHash(n, p)
<1>1. ASSUME NEW ix \in 0..31 PROVE m[p + ix] = n[p + ix]
  <2>1. p + ix \in Addr /\ p + ix >= p /\ p + ix < p + 32
    BY BufFacts
  <2>. QED  BY <2>1 DEF Same
<1>2. m[p] = n[p]
  <2>1. 0 \in 0..31 /\ p + 0 = p
    OBVIOUS
  <2>. QED  BY <1>1, <2>1
<1>. QED  BY <1>1, <1>2 DEF ReadHash, SIZE_SHA256

\* The size of transaction t.
SizeOf(t) == m_tx_size(Ins[t], Outs[t])

LEMMA BufTx ==
    ASSUME NEW t \in AllTx
    PROVE  /\ t \in Int \ Byte /\ t # Junk
           /\ Ins[t] \in Nat /\ Outs[t] \in Nat /\ LockTime[t] \in Nat
           /\ Ins[t] \in UShort /\ Outs[t] \in UShort
           /\ SizeOf(t) \in Nat /\ SizeOf(t) >= 10
<1>1. /\ t \in Int \ Byte /\ t # Junk
      /\ Ins[t] \in UShort /\ Outs[t] \in UShort /\ LockTime[t] \in UInt
  BY WorkBlockConstants, BytesConstants DEF AllTx
<1>2. Ins[t] \in Nat /\ Outs[t] \in Nat /\ LockTime[t] \in Nat
  BY <1>1 DEF UShort, UInt
<1>3. \A a, b \in Nat : a * b \in Nat
  OBVIOUS
<1>4. SIZE_TX_INPUT * Ins[t] \in Nat /\ SIZE_TX_OUTPUT * Outs[t] \in Nat
  BY <1>2, <1>3, BufFacts
<1>5. SizeOf(t) \in Nat /\ SizeOf(t) >= 10
  BY <1>4 DEF SizeOf, m_tx_size, SIZE_TX_HEADER
<1>. QED  BY <1>1, <1>2, <1>5

\* z is r, of length a, followed by s, of length b.
Joined(z, r, s, a, b) ==
    /\ z \in Seq(Int) /\ Len(z) = a + b
    /\ \A ix \in 1..a : z[ix] = r[ix]
    /\ \A ix \in 1..b : z[a + ix] = s[ix]

LEMMA JoinIs ==
    ASSUME NEW r \in Seq(Int), NEW s \in Seq(Int)
    PROVE  Joined(r \o s, r, s, Len(r), Len(s))
  BY DEF Joined

\* A transaction's bytes: the counts at their positions, then the transaction.
LEMMA TxBytes ==
    ASSUME NEW t \in AllTx
    PROVE  /\ TxData[t] \in Seq(Int)
           /\ Len(TxData[t]) = SizeOf(t)
           /\ \A ix \in 1..2 : /\ TxData[t][2 + ix] = ustob(Ins[t])[ix]
                              /\ TxData[t][4 + ix] = ustob(Outs[t])[ix]
           /\ \A ix \in 11..SizeOf(t) : TxData[t][ix] = t
<1>. DEFINE n == SizeOf(t) - 10
            v == ustob(__VERSION)
            ins == ustob(Ins[t])
            outs == ustob(Outs[t])
            lock == uitob(LockTime[t])
            rest == [ix \in 1..n |-> t]
<1>1. TxData[t] = v \o ins \o outs \o lock \o rest
  BY DEF TxData, r_tx_gen, SizeOf, SIZE_TX_HEADER
<1>2. n \in Nat /\ t \in Int
  BY BufTx
<1>4. /\ v \in Seq(Int) /\ Len(v) = 2
      /\ ins \in Seq(Int) /\ Len(ins) = 2
      /\ outs \in Seq(Int) /\ Len(outs) = 2
      /\ lock \in Seq(Int) /\ Len(lock) = 4
  BY BytesMade, BufTx DEF __VERSION
<1>6. rest \in Seq(Int) /\ Len(rest) = n /\ \A ix \in 1..n : rest[ix] = t
  BY <1>2
<1>. DEFINE w == v \o ins
            x == w \o outs
            y == x \o lock
            z == y \o rest
<1>7. TxData[t] = z
  BY <1>1
<1>8. n + 10 = SizeOf(t)
  BY BufTx
<1>. HIDE DEF v, ins, outs, lock, rest, n
<1>9. Joined(w, v, ins, 2, 2)
  BY <1>4, JoinIs
<1>. HIDE DEF w
<1>10. Joined(x, w, outs, 4, 2)
  <2>1. w \in Seq(Int) /\ Len(w) = 4
    BY <1>9 DEF Joined
  <2>. QED  BY <1>4, <2>1, JoinIs
<1>. HIDE DEF x
<1>11. Joined(y, x, lock, 6, 4)
  <2>1. x \in Seq(Int) /\ Len(x) = 6
    BY <1>10 DEF Joined
  <2>. QED  BY <1>4, <2>1, JoinIs
<1>. HIDE DEF y
<1>12. Joined(z, y, rest, 10, n)
  <2>1. y \in Seq(Int) /\ Len(y) = 10
    BY <1>11 DEF Joined
  <2>. QED  BY <1>6, <2>1, JoinIs
<1>. HIDE DEF z
<1>13. ASSUME NEW ix \in 1..2 PROVE z[2 + ix] = ins[ix] /\ z[4 + ix] = outs[ix]
  <2>1. z[2 + ix] = y[2 + ix] /\ z[4 + ix] = y[4 + ix]
    <3>1. 2 + ix \in 1..10 /\ 4 + ix \in 1..10
      OBVIOUS
    <3>. QED  BY <1>12, <3>1 DEF Joined
  <2>2. y[2 + ix] = x[2 + ix] /\ y[4 + ix] = x[4 + ix]
    BY <1>11 DEF Joined
  <2>3. x[2 + ix] = w[2 + ix] /\ x[4 + ix] = outs[ix]
    BY <1>10 DEF Joined
  <2>4. w[2 + ix] = ins[ix]
    BY <1>9 DEF Joined
  <2>. QED  BY <2>1, <2>2, <2>3, <2>4
<1>14. ASSUME NEW ix \in 11..SizeOf(t) PROVE z[ix] = t
  <2>1. ix - 10 \in 1..n /\ 10 + (ix - 10) = ix
    BY <1>2, <1>8
  <2>2. z[10 + (ix - 10)] = rest[ix - 10]
    BY <1>12, <2>1 DEF Joined
  <2>. QED  BY <1>6, <2>1, <2>2
<1>15. Len(z) = SizeOf(t)
  BY <1>2, <1>8, <1>12 DEF Joined
<1>16. z \in Seq(Int)
  BY <1>12 DEF Joined
<1>. QED  BY <1>7, <1>13, <1>14, <1>15, <1>16 DEF ins, outs

LEMMA HoldsIs ==
    ASSUME NEW m, NEW p, NEW t
    PROVE  Holds(m, p, t) <=>
               /\ p + Len(TxData[t]) <= MAX_BLOCK_SIZE
               /\ Stored(m, p, TxData[t])
  BY DEF Holds, Stored

\* Two buffers with the same bytes hold the same transactions.
LEMMA HoldsSame ==
    ASSUME NEW m, NEW n, NEW lo \in Nat, Same(m, n, lo, MAX_BLOCK_SIZE),
           NEW p \in Nat, lo <= p
    PROVE  TxAt(m, p) = TxAt(n, p)
<1>1. Same(n, m, lo, MAX_BLOCK_SIZE) /\ MAX_BLOCK_SIZE \in Nat
  BY BufFacts DEF Same
<1>2. ASSUME NEW t \in AllTx PROVE Holds(m, p, t) <=> Holds(n, p, t)
  <2>1. Len(TxData[t]) \in Nat
    BY TxBytes, BufTx
  <2>2. Holds(n, p, t) => Holds(m, p, t)
    BY <1>1, <2>1, HoldsIs, StoredSame
  <2>3. Holds(m, p, t) => Holds(n, p, t)
    BY <1>1, <2>1, HoldsIs, StoredSame
  <2>. QED  BY <2>2, <2>3
<1>. QED  BY Zenon, <1>2 DEF TxAt

\* The headers of the transactions on a walk end before hi, or there is none.
HeadersBelow(c, count, hi) ==
    \A ix \in 1..count : c[ix - 1] + 10 <= hi \/ MAX_BLOCK_SIZE < c[ix - 1] + 10

\* Two walks over the same transactions are the same.
LEMMA WalksSame ==
    ASSUME NEW m, NEW n, NEW hi \in Nat, Same(m, n, 83, hi),
           NEW count \in Nat, NEW c, NEW d, Walk(c, m, count), Walk(d, n, count),
           HeadersBelow(c, count, hi)
    PROVE  c = d
<1>1. /\ c[0] = 83 /\ d[0] = 83
      /\ c \in [0..count -> Nat] /\ d \in [0..count -> Nat]
  BY DEF Walk
<1>2. ASSUME NEW ix \in 1..count, c[ix - 1] = d[ix - 1] PROVE c[ix] = d[ix]
  <2>1. ix - 1 \in 0..count
    OBVIOUS
  <2>2. c[ix - 1] \in Nat /\ 83 <= c[ix - 1]
    <3>1. c[ix - 1] \in Nat /\ c[ix - 1] >= 83
      BY <2>1, WalkGrows
    <3>. QED  BY <3>1
  <2>3. tx_compute_size(m, c[ix - 1]) = tx_compute_size(n, c[ix - 1])
    BY <2>2, TxSizeSame DEF HeadersBelow
  <2>4. /\ c[ix] = c[ix - 1] + tx_compute_size(m, c[ix - 1])
        /\ d[ix] = d[ix - 1] + tx_compute_size(n, d[ix - 1])
    BY DEF Walk
  <2>. QED  BY <1>2, <2>3, <2>4
<1>3. \A ix \in 0..count : c[ix] = d[ix]
  <2>1. c[0] = d[0]
    BY <1>1
  <2>. QED  BY <1>2, <2>1, WalksAgree
<1>. QED  BY <1>1, <1>3

\* The number of transactions a reader goes by.
Counted(m) == Min({ReadUInt(m, POS_BLOCK_TX_COUNT), MAX_BLOCK_SIZE})

LEMMA CountedIs ==
    ASSUME NEW m
    PROVE  /\ Counted(m) \in Nat
           /\ ReadUInt(m, 79) <= MAX_BLOCK_SIZE => Counted(m) = ReadUInt(m, 79)
<1>1. MAX_BLOCK_SIZE \in Nat /\ ReadUInt(m, 79) \in Nat
  BY BufFacts, WordsRead
<1>2. ASSUME NEW a \in Nat, NEW b \in Nat
      PROVE  Min({a, b}) \in Nat /\ (a <= b => Min({a, b}) = a)
  <2>1. \E x \in {a, b} : \A y \in {a, b} : x <= y
    OBVIOUS
  <2>2. Min({a, b}) \in {a, b} /\ \A y \in {a, b} : Min({a, b}) <= y
    BY <2>1 DEF Min
  <2>. QED  BY <2>2
<1>. QED  BY <1>1, <1>2 DEF Counted, POS_BLOCK_TX_COUNT

LEMMA ReadTxsIs ==
    ASSUME NEW m
    PROVE  ReadTxs(m) = [ix \in 1..Counted(m) |->
                                TxAt(m, Cursors(m, Counted(m))[ix - 1])]
  BY DEF ReadTxs, Counted

\* What a reader finds depends on the count and the body only.
LEMMA BodySame ==
    ASSUME NEW m, NEW n, Same(m, n, 79, MAX_BLOCK_SIZE)
    PROVE  ReadTxs(m) = ReadTxs(n)
<1>1. MAX_BLOCK_SIZE \in Nat /\ MAX_BLOCK_SIZE > 83
  BY BufFacts
<1>2. ReadUInt(m, 79) = ReadUInt(n, 79)
  BY <1>1, UIntSame
<1>3. Counted(m) = Counted(n) /\ Counted(m) \in Nat
  BY <1>2, CountedIs DEF Counted, POS_BLOCK_TX_COUNT
<1>. DEFINE count == Counted(m)
            c == Cursors(m, count)
            d == Cursors(n, count)
<1>4. Walk(c, m, count) /\ Walk(d, n, count)
  BY <1>3, CursorsWalk
<1>. HIDE DEF count, c, d
<1>5. count \in Nat
  BY <1>3 DEF count
<1>6. /\ \A ix \in 0..count : c[ix] \in Nat /\ c[ix] >= 83
  BY <1>4, <1>5, WalkGrows
<1>7. HeadersBelow(c, count, MAX_BLOCK_SIZE)
  <2>1. ASSUME NEW ix \in 1..count PROVE c[ix - 1] \in Nat
    BY <1>5, <1>6, ix - 1 \in 0..count
  <2>. QED  BY <1>1, <2>1 DEF HeadersBelow
<1>8. c = d
  <2>1. Same(m, n, 83, MAX_BLOCK_SIZE)
    BY BufFacts DEF Same
  <2>2. MAX_BLOCK_SIZE \in Nat /\ count \in Nat
    BY <1>1, <1>5
  <2>. QED  BY <1>4, <1>7, <2>1, <2>2, WalksSame
<1>9. ASSUME NEW ix \in 1..count PROVE TxAt(m, c[ix - 1]) = TxAt(n, d[ix - 1])
  <2>1. c[ix - 1] \in Nat /\ 79 <= c[ix - 1]
    BY <1>5, <1>6, ix - 1 \in 0..count
  <2>2. TxAt(m, c[ix - 1]) = TxAt(n, c[ix - 1])
    BY <2>1, HoldsSame
  <2>. QED  BY <1>8, <2>2
<1>10. /\ ReadTxs(m) = [ix \in 1..count |-> TxAt(m, c[ix - 1])]
       /\ ReadTxs(n) = [ix \in 1..count |-> TxAt(n, d[ix - 1])]
  BY <1>3, ReadTxsIs DEF count, c, d
<1>. QED  BY <1>9, <1>10

------------------------------------------------------------------------------
(* The header.                                                             *)

\* The numbers of the header are bytes.
Numbers == 0..(POS_BLOCK_PREV_HASH - 1)
           \cup POS_BLOCK_TARGET..(SIZE_BLOCK_HEADER - 1)
Numbered(m) == \A a \in Numbers : m[a] \in Byte

LEMMA NumbersAre ==
    /\ Numbers = 0..9 \cup 74..82
    /\ Numbers \subseteq Addr
<1>1. Numbers = 0..9 \cup 74..82
  BY DEF Numbers, POS_BLOCK_PREV_HASH, POS_BLOCK_TARGET, SIZE_BLOCK_HEADER
<1>2. ASSUME NEW a \in 0..9 \cup 74..82 PROVE a \in Addr
  BY BufFacts
<1>. QED  BY <1>1, <1>2

\* Numbers are written as bytes; hashes and transactions are written elsewhere.
LEMMA NumbersKept ==
    ASSUME NEW m \in ByteBuffers, NEW p \in Nat, NEW s \in Seq(Int), Numbered(m),
           s \in Seq(Byte) \/ p >= 83 \/ (p >= 10 /\ p + Len(s) <= 74)
    PROVE  Numbered(Written(m, p, s))
<1>1. Len(s) \in Nat
  OBVIOUS
<1>2. ASSUME NEW a \in Numbers PROVE Written(m, p, s)[a] \in Byte
  <2>1. a \in Addr /\ a \in Nat /\ (a < 10 \/ (a >= 74 /\ a < 83))
    BY NumbersAre
  <2>2. CASE a < p \/ a >= p + Len(s)
    BY <2>1, <2>2, WrittenIs DEF Numbered
  <2>3. CASE a >= p /\ a < p + Len(s)
    <3>1. s \in Seq(Byte)
      BY <1>1, <2>1, <2>3
    <3>2. (a - p) + 1 \in 1..Len(s)
      BY <1>1, <2>1, <2>3
    <3>3. s[(a - p) + 1] \in Byte
      BY <3>1, <3>2
    <3>. QED  BY <2>1, <2>3, <3>3, WrittenIs
  <2>. QED  BY <1>1, <2>1, <2>2, <2>3
<1>. QED  BY <1>2 DEF Numbered

\* There is room for s at p; r at q ends before p.
Room(p, s) == p \in Nat /\ s \in Seq(Int) /\ p + Len(s) <= MAX_BLOCK_SIZE
Before(q, r, p) == q + Len(r) <= p

LEMMA PutIs ==
    ASSUME NEW m \in ByteBuffers, NEW p, NEW s, Room(p, s)
    PROVE  Written(m, p, s) \in ByteBuffers /\ Stored(Written(m, p, s), p, s)
<1>1. p \in Nat /\ s \in Seq(Int) /\ p + Len(s) <= MAX_BLOCK_SIZE
  BY DEF Room
<1>. QED  BY <1>1, WrittenIs, WrittenStored

LEMMA PutKeeps ==
    ASSUME NEW m \in ByteBuffers, NEW p, NEW s, Room(p, s),
           NEW q, NEW r, Room(q, r), Before(q, r, p), Stored(m, q, r)
    PROVE  Stored(Written(m, p, s), q, r)
<1>1. /\ p \in Nat /\ s \in Seq(Int) /\ q \in Nat /\ r \in Seq(Int)
      /\ q + Len(r) <= MAX_BLOCK_SIZE /\ q + Len(r) <= p
  BY DEF Room, Before
<1>2. Len(r) \in Nat
  BY <1>1
<1>. QED  BY <1>1, <1>2, StoredKept

\* The fields of the header follow each other.
LEMMA Layout ==
    /\ POS_BLOCK_VERSION \in Nat /\ POS_BLOCK_TIME \in Nat
    /\ POS_BLOCK_HEIGHT \in Nat /\ POS_BLOCK_PREV_HASH \in Nat
    /\ POS_BLOCK_MERKLE_ROOT \in Nat /\ POS_BLOCK_TARGET \in Nat
    /\ POS_BLOCK_NONCE \in Nat /\ POS_BLOCK_TX_COUNT \in Nat
    /\ POS_BLOCK_VERSION + 2 <= POS_BLOCK_TIME
    /\ POS_BLOCK_TIME + 4 <= POS_BLOCK_HEIGHT
    /\ POS_BLOCK_HEIGHT + 4 <= POS_BLOCK_PREV_HASH
    /\ POS_BLOCK_PREV_HASH + 32 <= POS_BLOCK_MERKLE_ROOT
    /\ POS_BLOCK_MERKLE_ROOT + 32 <= POS_BLOCK_TARGET
    /\ POS_BLOCK_TARGET + 1 <= POS_BLOCK_NONCE
    /\ POS_BLOCK_NONCE + 4 <= POS_BLOCK_TX_COUNT
    /\ POS_BLOCK_TX_COUNT + 4 <= MAX_BLOCK_SIZE /\ MAX_BLOCK_SIZE \in Nat
  BY BufFacts
  DEF POS_BLOCK_VERSION, POS_BLOCK_TIME, POS_BLOCK_HEIGHT,
      POS_BLOCK_PREV_HASH, POS_BLOCK_MERKLE_ROOT, POS_BLOCK_TARGET,
      POS_BLOCK_NONCE, POS_BLOCK_TX_COUNT

\* Every cell of the header has its byte once block_add_header has run,
\* whatever the buffer held before.
LEMMA HeaderWritten ==
    ASSUME NEW m \in ByteBuffers, NEW h \in Headers
    PROVE  /\ block_add_header(m, h) \in ByteBuffers
           /\ Stored(block_add_header(m, h), POS_BLOCK_VERSION, ustob(1))
           /\ Stored(block_add_header(m, h), POS_BLOCK_TIME, uitob(h.time))
           /\ Stored(block_add_header(m, h), POS_BLOCK_HEIGHT, uitob(h.height))
           /\ Stored(block_add_header(m, h), POS_BLOCK_PREV_HASH, HashBytes(h.prev))
           /\ Stored(block_add_header(m, h), POS_BLOCK_MERKLE_ROOT, HashBytes(0))
           /\ Stored(block_add_header(m, h), POS_BLOCK_TARGET, <<h.target>>)
           /\ Stored(block_add_header(m, h), POS_BLOCK_NONCE, uitob(0))
           /\ Stored(block_add_header(m, h), POS_BLOCK_TX_COUNT, uitob(0))
<1>. DEFINE v == ustob(1)
            tm == uitob(h.time)
            ht == uitob(h.height)
            pv == HashBytes(h.prev)
            zr == HashBytes(0)
            tg == <<h.target>>
            z4 == uitob(0)
            a == Written(m, POS_BLOCK_VERSION, v)
            b == Written(a, POS_BLOCK_TIME, tm)
            c == Written(b, POS_BLOCK_HEIGHT, ht)
            d == Written(c, POS_BLOCK_PREV_HASH, pv)
            e == Written(d, POS_BLOCK_MERKLE_ROOT, zr)
            f == Written(e, POS_BLOCK_TARGET, tg)
            g == Written(f, POS_BLOCK_NONCE, z4)
            n == Written(g, POS_BLOCK_TX_COUNT, z4)
<1>1. /\ h.time \in Nat /\ h.height \in Nat /\ h.prev \in Int /\ h.target \in Int
  <2>1. h.time \in UInt /\ h.height \in UInt /\ h.prev \in Int /\ h.target \in Byte
    BY WorkBlockConstants, BytesConstants
  <2>. QED  BY <2>1, BufFacts DEF UInt
<1>2. /\ v \in Seq(Int) /\ Len(v) = 2 /\ tm \in Seq(Int) /\ Len(tm) = 4
      /\ ht \in Seq(Int) /\ Len(ht) = 4 /\ z4 \in Seq(Int) /\ Len(z4) = 4
  BY <1>1, BytesMade
<1>3. pv \in Seq(Int) /\ Len(pv) = 32 /\ zr \in Seq(Int) /\ Len(zr) = 32
  BY <1>1, HashLaidOut
<1>4. tg \in Seq(Int) /\ Len(tg) = 1 /\ tg[1] = h.target
  BY <1>1
<1>5. ASSUME NEW x \in ByteBuffers
      PROVE  [x EXCEPT ![POS_BLOCK_TARGET] = h.target] = Written(x, POS_BLOCK_TARGET, tg)
  <2>1. Written(x, POS_BLOCK_TARGET, tg) \in ByteBuffers
    BY <1>4, Layout, WrittenIs
  <2>. DEFINE p == POS_BLOCK_TARGET
  <2>2. p \in Addr /\ p \in Nat /\ \A q \in Addr : q \in Nat
    <3>1. p \in Nat /\ p < MAX_BLOCK_SIZE
      BY Layout
    <3>. HIDE DEF p
    <3>. QED  BY <3>1, BufFacts
  <2>. HIDE DEF p, tg
  <2>3. ASSUME NEW q \in Addr, q # p PROVE Written(x, p, tg)[q] = x[q]
    <3>1. q < p \/ q >= p + Len(tg)
      BY <1>4, <2>2, <2>3
    <3>. QED  BY <1>4, <2>2, <3>1, WrittenIs
  <2>4. Written(x, p, tg)[p] = h.target
    <3>1. p >= p /\ p < p + Len(tg) /\ (p - p) + 1 = 1
      BY <1>4, <2>2
    <3>2. Written(x, p, tg)[p] = tg[(p - p) + 1]
      BY <1>4, <2>2, <3>1, WrittenIs
    <3>. QED  BY <1>4, <3>1, <3>2
  <2>5. Written(x, p, tg) \in [Addr -> Int] /\ x \in [Addr -> Int]
    BY <2>1 DEF p, ByteBuffers
  <2>6. [x EXCEPT ![p] = h.target] = Written(x, p, tg)
    BY <2>3, <2>4, <2>5
  <2>. QED  BY <2>6 DEF p
<1>. HIDE DEF v, tm, ht, pv, zr, tg, z4
<1>6. /\ Room(POS_BLOCK_VERSION, v)
      /\ Room(POS_BLOCK_TIME, tm)
      /\ Room(POS_BLOCK_HEIGHT, ht)
      /\ Room(POS_BLOCK_PREV_HASH, pv)
      /\ Room(POS_BLOCK_MERKLE_ROOT, zr)
      /\ Room(POS_BLOCK_TARGET, tg)
      /\ Room(POS_BLOCK_NONCE, z4)
      /\ Room(POS_BLOCK_TX_COUNT, z4)
  BY <1>2, <1>3, <1>4, BufFacts
  DEF Room, POS_BLOCK_VERSION, POS_BLOCK_TIME, POS_BLOCK_HEIGHT,
      POS_BLOCK_PREV_HASH, POS_BLOCK_MERKLE_ROOT, POS_BLOCK_TARGET,
      POS_BLOCK_NONCE, POS_BLOCK_TX_COUNT
<1>7. /\ Before(POS_BLOCK_VERSION, v, POS_BLOCK_TIME)
      /\ Before(POS_BLOCK_VERSION, v, POS_BLOCK_HEIGHT)
      /\ Before(POS_BLOCK_TIME, tm, POS_BLOCK_HEIGHT)
      /\ Before(POS_BLOCK_VERSION, v, POS_BLOCK_PREV_HASH)
      /\ Before(POS_BLOCK_TIME, tm, POS_BLOCK_PREV_HASH)
      /\ Before(POS_BLOCK_HEIGHT, ht, POS_BLOCK_PREV_HASH)
      /\ Before(POS_BLOCK_VERSION, v, POS_BLOCK_MERKLE_ROOT)
      /\ Before(POS_BLOCK_TIME, tm, POS_BLOCK_MERKLE_ROOT)
      /\ Before(POS_BLOCK_HEIGHT, ht, POS_BLOCK_MERKLE_ROOT)
      /\ Before(POS_BLOCK_PREV_HASH, pv, POS_BLOCK_MERKLE_ROOT)
      /\ Before(POS_BLOCK_VERSION, v, POS_BLOCK_TARGET)
      /\ Before(POS_BLOCK_TIME, tm, POS_BLOCK_TARGET)
      /\ Before(POS_BLOCK_HEIGHT, ht, POS_BLOCK_TARGET)
      /\ Before(POS_BLOCK_PREV_HASH, pv, POS_BLOCK_TARGET)
      /\ Before(POS_BLOCK_MERKLE_ROOT, zr, POS_BLOCK_TARGET)
      /\ Before(POS_BLOCK_VERSION, v, POS_BLOCK_NONCE)
      /\ Before(POS_BLOCK_TIME, tm, POS_BLOCK_NONCE)
      /\ Before(POS_BLOCK_HEIGHT, ht, POS_BLOCK_NONCE)
      /\ Before(POS_BLOCK_PREV_HASH, pv, POS_BLOCK_NONCE)
      /\ Before(POS_BLOCK_MERKLE_ROOT, zr, POS_BLOCK_NONCE)
      /\ Before(POS_BLOCK_TARGET, tg, POS_BLOCK_NONCE)
      /\ Before(POS_BLOCK_VERSION, v, POS_BLOCK_TX_COUNT)
      /\ Before(POS_BLOCK_TIME, tm, POS_BLOCK_TX_COUNT)
      /\ Before(POS_BLOCK_HEIGHT, ht, POS_BLOCK_TX_COUNT)
      /\ Before(POS_BLOCK_PREV_HASH, pv, POS_BLOCK_TX_COUNT)
      /\ Before(POS_BLOCK_MERKLE_ROOT, zr, POS_BLOCK_TX_COUNT)
      /\ Before(POS_BLOCK_TARGET, tg, POS_BLOCK_TX_COUNT)
      /\ Before(POS_BLOCK_NONCE, z4, POS_BLOCK_TX_COUNT)
  BY <1>2, <1>3, <1>4
  DEF Before, POS_BLOCK_VERSION, POS_BLOCK_TIME, POS_BLOCK_HEIGHT,
      POS_BLOCK_PREV_HASH, POS_BLOCK_MERKLE_ROOT, POS_BLOCK_TARGET,
      POS_BLOCK_NONCE, POS_BLOCK_TX_COUNT
<1>8. /\ a \in ByteBuffers
       /\ Stored(a, POS_BLOCK_VERSION, v)
  BY Zenon, <1>6, <1>7, PutIs, PutKeeps
<1>. HIDE DEF a
<1>9. /\ b \in ByteBuffers
       /\ Stored(b, POS_BLOCK_VERSION, v)
       /\ Stored(b, POS_BLOCK_TIME, tm)
  BY Zenon, <1>6, <1>7, <1>8, PutIs, PutKeeps
<1>. HIDE DEF b
<1>10. /\ c \in ByteBuffers
       /\ Stored(c, POS_BLOCK_VERSION, v)
       /\ Stored(c, POS_BLOCK_TIME, tm)
       /\ Stored(c, POS_BLOCK_HEIGHT, ht)
  BY Zenon, <1>6, <1>7, <1>9, PutIs, PutKeeps
<1>. HIDE DEF c
<1>11. /\ d \in ByteBuffers
       /\ Stored(d, POS_BLOCK_VERSION, v)
       /\ Stored(d, POS_BLOCK_TIME, tm)
       /\ Stored(d, POS_BLOCK_HEIGHT, ht)
       /\ Stored(d, POS_BLOCK_PREV_HASH, pv)
  BY Zenon, <1>6, <1>7, <1>10, PutIs, PutKeeps
<1>. HIDE DEF d
<1>12. /\ e \in ByteBuffers
       /\ Stored(e, POS_BLOCK_VERSION, v)
       /\ Stored(e, POS_BLOCK_TIME, tm)
       /\ Stored(e, POS_BLOCK_HEIGHT, ht)
       /\ Stored(e, POS_BLOCK_PREV_HASH, pv)
       /\ Stored(e, POS_BLOCK_MERKLE_ROOT, zr)
  BY Zenon, <1>6, <1>7, <1>11, PutIs, PutKeeps
<1>. HIDE DEF e
<1>13. /\ f \in ByteBuffers
       /\ Stored(f, POS_BLOCK_VERSION, v)
       /\ Stored(f, POS_BLOCK_TIME, tm)
       /\ Stored(f, POS_BLOCK_HEIGHT, ht)
       /\ Stored(f, POS_BLOCK_PREV_HASH, pv)
       /\ Stored(f, POS_BLOCK_MERKLE_ROOT, zr)
       /\ Stored(f, POS_BLOCK_TARGET, tg)
  BY Zenon, <1>6, <1>7, <1>12, PutIs, PutKeeps
<1>14. f = [e EXCEPT ![POS_BLOCK_TARGET] = h.target]
  BY <1>5, <1>12
<1>. HIDE DEF f
<1>15. /\ g \in ByteBuffers
       /\ Stored(g, POS_BLOCK_VERSION, v)
       /\ Stored(g, POS_BLOCK_TIME, tm)
       /\ Stored(g, POS_BLOCK_HEIGHT, ht)
       /\ Stored(g, POS_BLOCK_PREV_HASH, pv)
       /\ Stored(g, POS_BLOCK_MERKLE_ROOT, zr)
       /\ Stored(g, POS_BLOCK_TARGET, tg)
       /\ Stored(g, POS_BLOCK_NONCE, z4)
  BY Zenon, <1>6, <1>7, <1>13, PutIs, PutKeeps
<1>. HIDE DEF g
<1>16. /\ n \in ByteBuffers
       /\ Stored(n, POS_BLOCK_VERSION, v)
       /\ Stored(n, POS_BLOCK_TIME, tm)
       /\ Stored(n, POS_BLOCK_HEIGHT, ht)
       /\ Stored(n, POS_BLOCK_PREV_HASH, pv)
       /\ Stored(n, POS_BLOCK_MERKLE_ROOT, zr)
       /\ Stored(n, POS_BLOCK_TARGET, tg)
       /\ Stored(n, POS_BLOCK_NONCE, z4)
       /\ Stored(n, POS_BLOCK_TX_COUNT, z4)
  BY Zenon, <1>6, <1>7, <1>15, PutIs, PutKeeps
<1>. HIDE DEF n
<1>17. n = block_add_header(m, h)
  BY <1>14
  DEF n, g, e, d, c, b, a, v, tm, ht, pv, zr, z4, block_add_header, __VERSION
<1>. QED  BY <1>16, <1>17 DEF v, tm, ht, pv, zr, tg, z4

LEMMA StoredByte ==
    ASSUME NEW m, NEW p \in Nat, NEW s \in Seq(Byte), Stored(m, p, s),
           NEW a \in Nat, p <= a, a < p + Len(s)
    PROVE  m[a] \in Byte
<1>1. Len(s) \in Nat
  OBVIOUS
<1>2. (a - p) + 1 \in 1..Len(s) /\ p + ((a - p) + 1) - 1 = a
  BY <1>1
<1>3. m[p + ((a - p) + 1) - 1] = s[(a - p) + 1] /\ s[(a - p) + 1] \in Byte
  BY <1>2 DEF Stored
<1>. QED  BY <1>2, <1>3

\* s is bytes and ends, from p on, before hi; every cell from p to hi is a byte.
Ends(p, s, hi) == p \in Nat /\ s \in Seq(Byte) /\ p + Len(s) = hi
AllBytes(m, p, hi) == \A a \in Nat : p <= a /\ a < hi => m[a] \in Byte

LEMMA StoredBytes ==
    ASSUME NEW m, NEW p, NEW s, NEW hi, Ends(p, s, hi), Stored(m, p, s)
    PROVE  AllBytes(m, p, hi)
<1>1. p \in Nat /\ s \in Seq(Byte) /\ p + Len(s) = hi
  BY DEF Ends
<1>. QED  BY <1>1, StoredByte DEF AllBytes

LEMMA HeaderNumbered ==
    ASSUME NEW m \in ByteBuffers, NEW h \in Headers
    PROVE  Numbered(block_add_header(m, h))
<1>. DEFINE n == block_add_header(m, h)
<1>1. /\ Stored(n, 0, ustob(1)) /\ Stored(n, 2, uitob(h.time))
      /\ Stored(n, 6, uitob(h.height)) /\ Stored(n, 74, <<h.target>>)
      /\ Stored(n, 75, uitob(0)) /\ Stored(n, 79, uitob(0))
  BY HeaderWritten
  DEF POS_BLOCK_VERSION, POS_BLOCK_TIME, POS_BLOCK_HEIGHT, POS_BLOCK_TARGET,
      POS_BLOCK_NONCE, POS_BLOCK_TX_COUNT
<1>. HIDE DEF n
<1>2. h.time \in Nat /\ h.height \in Nat /\ h.target \in Byte
  BY WorkBlockConstants, BytesConstants DEF UInt
<1>3. <<h.target>> \in Seq(Byte) /\ Len(<<h.target>>) = 1
  BY <1>2
<1>4. /\ ustob(1) \in Seq(Byte) /\ Len(ustob(1)) = 2
      /\ uitob(h.time) \in Seq(Byte) /\ Len(uitob(h.time)) = 4
      /\ uitob(h.height) \in Seq(Byte) /\ Len(uitob(h.height)) = 4
      /\ uitob(0) \in Seq(Byte) /\ Len(uitob(0)) = 4
  BY <1>2, BytesMade
<1>5. /\ Ends(0, ustob(1), 2) /\ Ends(2, uitob(h.time), 6)
      /\ Ends(6, uitob(h.height), 10) /\ Ends(74, <<h.target>>, 75)
      /\ Ends(75, uitob(0), 79) /\ Ends(79, uitob(0), 83)
  <2>1. Ends(74, <<h.target>>, 75)
    BY <1>3 DEF Ends
  <2>2. Ends(0, ustob(1), 2)
    BY <1>4 DEF Ends
  <2>3. /\ Ends(2, uitob(h.time), 6) /\ Ends(6, uitob(h.height), 10)
        /\ Ends(75, uitob(0), 79) /\ Ends(79, uitob(0), 83)
    <3>1. ASSUME NEW a \in Nat, NEW p \in Nat PROVE Ends(p, uitob(a), p + 4)
      BY BytesMade DEF Ends
    <3>2. 2 + 4 = 6 /\ 6 + 4 = 10 /\ 75 + 4 = 79 /\ 79 + 4 = 83
      OBVIOUS
    <3>3. Ends(2, uitob(h.time), 2 + 4) /\ Ends(6, uitob(h.height), 6 + 4)
      BY <1>2, <3>1
    <3>4. Ends(75, uitob(0), 75 + 4) /\ Ends(79, uitob(0), 79 + 4)
      BY <3>1
    <3>. QED  BY <3>2, <3>3, <3>4
  <2>. QED  BY <2>1, <2>2, <2>3
<1>6. /\ AllBytes(n, 0, 2) /\ AllBytes(n, 2, 6) /\ AllBytes(n, 6, 10)
      /\ AllBytes(n, 74, 75) /\ AllBytes(n, 75, 79) /\ AllBytes(n, 79, 83)
  BY Zenon, <1>1, <1>5, StoredBytes
<1>7. ASSUME NEW a \in Numbers PROVE n[a] \in Byte
  <2>1. a \in Nat /\ ((0 <= a /\ a < 2) \/ (2 <= a /\ a < 6) \/ (6 <= a /\ a < 10)
        \/ (74 <= a /\ a < 75) \/ (75 <= a /\ a < 79) \/ (79 <= a /\ a < 83))
    BY NumbersAre
  <2>. QED  BY <1>6, <2>1 DEF AllBytes
<1>. QED  BY <1>7 DEF Numbered, n

\* Where block_add_tx writes is behind the header, whatever the count.
LEMMA SizeBehind ==
    ASSUME NEW m, NEW count \in SizeCounts(m)
    PROVE  /\ count \in Nat
           /\ block_compute_size(m, count) \in Nat
           /\ block_compute_size(m, count) >= 83
<1>1. count \in Nat
  <2>1. Radix \in Nat \ {0} /\ ReadUInt(m, 79) \in Nat /\ Byte \subseteq Nat
    BY BufFacts, WordsRead
  <2>2. ReadUInt(m, 79) % Radix \in Nat
    BY <2>1
  <2>. QED  BY <2>1, <2>2 DEF SizeCounts, POS_BLOCK_TX_COUNT
<1>2. Walk(Cursors(m, count), m, count)
  BY <1>1, CursorsWalk
<1>3. count \in 0..count
  BY <1>1
<1>. QED  BY <1>1, <1>2, <1>3, WalkGrows DEF block_compute_size

\* A uint that counts up stays within its bytes.
LEMMA CountUp ==
    ASSUME NEW a \in Nat
    PROVE  (a + 1) % (Radix * Place(3)) \in UInt /\ UInt \subseteq Nat
<1>1. Place(3) \in Nat \ {0} /\ Radix \in Nat \ {0}
  BY BufFacts, BufPlaces
<1>. DEFINE d == Radix * Place(3)
<1>2. d \in Nat \ {0}
  <2>1. \A x, y \in Nat \ {0} : x * y \in Nat \ {0}
    OBVIOUS
  <2>. QED  BY <1>1, <2>1
<1>3. UInt = 0..(d - 1)
  BY DEF UInt
<1>. HIDE DEF d
<1>4. (a + 1) % d \in 0..(d - 1)
  BY <1>2
<1>. QED  BY <1>2, <1>3, <1>4 DEF d

LEMMA AddedIs ==
    ASSUME NEW m \in ByteBuffers, NEW size \in Nat, size >= 83, NEW t \in AllTx
    PROVE  /\ AddedTx(m, size, t) \in ByteBuffers
           /\ Numbered(m) => Numbered(AddedTx(m, size, t))
<1>. DEFINE n == Written(m, size, TxData[t])
            p == POS_BLOCK_TX_COUNT
            x == (ReadUInt(m, p) + 1) % (Radix * Place(3))
            s == uitob(x)
<1>1. TxData[t] \in Seq(Int)
  BY TxBytes
<1>2. n \in ByteBuffers
  BY <1>1, WrittenIs
<1>3. Numbered(m) => Numbered(n)
  BY <1>1, NumbersKept
<1>. HIDE DEF n
<1>4. x \in Nat
  BY CountUp, WordsRead
<1>. HIDE DEF x
<1>5. s \in Seq(Int) /\ s \in Seq(Byte) /\ p \in Nat
  BY <1>4, BytesMade, Layout
<1>. HIDE DEF s, p
<1>6. Written(n, p, s) \in ByteBuffers /\ (Numbered(n) => Numbered(Written(n, p, s)))
  BY <1>2, <1>5, WrittenIs, NumbersKept
<1>7. AddedTx(m, size, t) = Written(n, p, s)
  BY DEF AddedTx, n, p, s, x
<1>. QED  BY <1>3, <1>6, <1>7

------------------------------------------------------------------------------
(* Numbers are read back as they were written.                             *)

LEMMA WorkQuotient ==
    ASSUME NEW a \in Nat, NEW d \in Nat \ {0}
    PROVE  /\ a \div d \in Nat /\ a % d \in Nat
           /\ a = d * (a \div d) + (a % d)
           /\ d * (a \div d) <= a /\ a < d * (a \div d) + d
  OBVIOUS

LEMMA WorkLeq ==
    ASSUME NEW a \in Nat, NEW x \in Nat, NEW y \in Nat, x <= y
    PROVE  a * x <= a * y
  OBVIOUS

LEMMA WorkLess ==
    ASSUME NEW d \in Nat \ {0}, NEW x \in Nat, NEW y \in Nat, d * x < d * y
    PROVE  x < y
<1>. SUFFICES ASSUME y <= x PROVE FALSE
  OBVIOUS
<1>1. d * y <= d * x
  BY WorkLeq
<1>2. d * y \in Nat /\ d * x \in Nat
  OBVIOUS
<1>. QED  BY <1>1, <1>2

\* To divide twice is to divide by the product.
LEMMA DivideTwice ==
    ASSUME NEW a \in Nat, NEW d \in Nat \ {0}, NEW e \in Nat \ {0}
    PROVE  a \div (d * e) = (a \div d) \div e
<1>. DEFINE p == d * e
            q == a \div d
            r == q \div e
            s == a \div p
<1>1. p \in Nat \ {0}
  OBVIOUS
<1>2. q \in Nat /\ d * q <= a /\ a < d * q + d
  BY WorkQuotient
<1>. HIDE DEF q
<1>3. r \in Nat /\ e * r <= q /\ q < e * r + e
  BY <1>2, WorkQuotient
<1>. HIDE DEF r
<1>4. s \in Nat /\ p * s <= a /\ a < p * s + p
  <2>. HIDE DEF p
  <2>. QED  BY <1>1, WorkQuotient
<1>. HIDE DEF s
<1>5. p * r = d * (e * r) /\ e * r \in Nat
  BY <1>3
<1>6. d * (e * r + e) = d * (e * r) + p
  BY <1>3
<1>7. d * (q + 1) = d * q + d
  BY <1>2
<1>8. d * (e * r) <= d * q /\ d * (q + 1) <= d * (e * r + e)
  <2>1. e * r + e \in Nat /\ q + 1 <= e * r + e
    BY <1>2, <1>3, <1>5
  <2>. QED  BY <1>2, <1>3, <1>5, <2>1, WorkLeq
<1>9. p * r \in Nat /\ p * s \in Nat /\ d * q \in Nat
  BY <1>1, <1>2, <1>3, <1>4
<1>10. p * r <= a /\ a < p * r + p
  <2>. DEFINE x == d * q
              y == d * (e * r)
              z == d * (e * r + e)
  <2>1. p * r = y /\ y <= x /\ x + d <= z /\ z = y + p
    BY <1>5, <1>6, <1>7, <1>8
  <2>2. x <= a /\ a < x + d /\ x \in Nat /\ y \in Nat
    BY <1>2, <1>5, <1>9
  <2>. HIDE DEF x, y, z, p
  <2>. QED  BY <1>1, <2>1, <2>2
<1>. HIDE DEF p
<1>11. p * (r + 1) = p * r + p /\ p * (s + 1) = p * s + p
  BY <1>1, <1>3, <1>4
<1>12. p * r < p * (s + 1) /\ p * s < p * (r + 1)
  BY <1>1, <1>4, <1>9, <1>10, <1>11
<1>13. r < s + 1 /\ s < r + 1
  BY <1>1, <1>3, <1>4, <1>12, WorkLess
<1>14. s = r
  BY <1>3, <1>4, <1>13
<1>. QED  BY <1>14 DEF p, q, r, s

\* A number below the radix to the fourth is the sum of its four digits,
\* and one below the radix squared that of two.
LEMMA DigitsSum ==
    /\ \A x \in UInt :
           x = Shifted(x, 4, 0) * Place(3) + Shifted(x, 4, 1) * Place(2)
               + Shifted(x, 4, 2) * Place(1) + Shifted(x, 4, 3) * Place(0)
    /\ \A x \in UShort :
           x = Shifted(x, 2, 0) * Place(1) + Shifted(x, 2, 1) * Place(0)
<1>. DEFINE R == Radix
<1>1. /\ Place(0) = 1 /\ Place(1) = R /\ Place(2) = R * R
      /\ Place(3) = (R * R) * R /\ R \in Nat \ {0} /\ R * R \in Nat \ {0}
      /\ (R * R) * R \in Nat \ {0}
  BY BufPlaces, BufFacts
<1>2. ASSUME NEW x \in Nat
      PROVE  x \div 1 = x
  OBVIOUS
<1>3. ASSUME NEW x \in Nat, NEW d \in Nat, x < d PROVE x % d = x
  BY <1>3
<1>4. ASSUME NEW x \in UInt
      PROVE  x = Shifted(x, 4, 0) * Place(3) + Shifted(x, 4, 1) * Place(2)
                 + Shifted(x, 4, 2) * Place(1) + Shifted(x, 4, 3) * Place(0)
  <2>. DEFINE q1 == x \div R
              q2 == x \div (R * R)
              q3 == x \div ((R * R) * R)
              d0 == q3 % R
              d1 == q2 % R
              d2 == q1 % R
              d3 == x % R
  <2>1. x \in Nat /\ x < R * ((R * R) * R)
    BY <1>1 DEF UInt
  <2>2. /\ Shifted(x, 4, 0) = d0 /\ Shifted(x, 4, 1) = d1
        /\ Shifted(x, 4, 2) = d2 /\ Shifted(x, 4, 3) = d3
    BY <1>1, <1>2, <2>1 DEF Shifted
  <2>3. q2 = q1 \div R /\ q3 = q2 \div R
    BY <1>1, <2>1, DivideTwice
  <2>4. q1 \in Nat /\ d3 \in Nat /\ x = R * q1 + d3
    BY <1>1, <2>1, WorkQuotient
  <2>5. q2 \in Nat /\ d2 \in Nat /\ q1 = R * q2 + d2
    <3>1. ASSUME NEW y \in Nat PROVE y \div R \in Nat /\ y % R \in Nat /\ y = R * (y \div R) + (y % R)
      BY <1>1, WorkQuotient
    <3>. HIDE DEF q1, q2, R
    <3>. QED  BY <2>3, <2>4, <3>1
  <2>6. q3 \in Nat /\ d1 \in Nat /\ q2 = R * q3 + d1
    <3>1. ASSUME NEW y \in Nat PROVE y \div R \in Nat /\ y % R \in Nat /\ y = R * (y \div R) + (y % R)
      BY <1>1, WorkQuotient
    <3>. HIDE DEF q2, q3, R
    <3>. QED  BY <2>3, <2>5, <3>1
  <2>7. d0 = q3
    <3>. DEFINE c == (R * R) * R
    <3>1. q3 \in Nat /\ c * q3 <= x /\ c \in Nat \ {0} /\ x < c * R
      <4>1. c * q3 <= x
        BY <1>1, <2>1, WorkQuotient
      <4>2. R * c = c * R
        BY <1>1
      <4>. QED  BY <1>1, <2>1, <2>6, <4>1, <4>2
    <3>. HIDE DEF c, q3
    <3>2. c * q3 < c * R
      <4>1. c * q3 \in Nat /\ c * R \in Nat
        BY <1>1, <3>1
      <4>. QED  BY <2>1, <3>1, <4>1
    <3>3. q3 < R
      BY <1>1, <3>1, <3>2, WorkLess
    <3>. QED  BY <1>1, <1>3, <3>1, <3>3
  <2>. HIDE DEF q1, q2, q3, d0, d1, d2, d3
  <2>8. R * q1 = R * (R * (R * q3 + d1) + d2)
    BY <2>5, <2>6
  <2>9. R * (R * (R * q3 + d1) + d2) = q3 * ((R * R) * R) + d1 * (R * R) + d2 * R
    BY <1>1, <2>5, <2>6
  <2>10. d3 * 1 = d3
    BY <2>4
  <2>11. x = d0 * ((R * R) * R) + d1 * (R * R) + d2 * R + d3 * 1
    BY <2>4, <2>7, <2>8, <2>9, <2>10
  <2>. QED  BY <1>1, <2>2, <2>11
<1>5. ASSUME NEW x \in UShort
      PROVE  x = Shifted(x, 2, 0) * Place(1) + Shifted(x, 2, 1) * Place(0)
  <2>. DEFINE q1 == x \div R
              d0 == q1 % R
              d1 == x % R
  <2>1. x \in Nat /\ x < R * R
    BY <1>1 DEF UShort
  <2>2. Shifted(x, 2, 0) = d0 /\ Shifted(x, 2, 1) = d1
    BY <1>1, <1>2, <2>1 DEF Shifted
  <2>3. q1 \in Nat /\ d1 \in Nat /\ x = R * q1 + d1 /\ R * q1 <= x
    BY <1>1, <2>1, WorkQuotient
  <2>4. d0 = q1
    <3>. HIDE DEF q1
    <3>1. R * q1 < R * R
      BY <1>1, <2>1, <2>3
    <3>2. q1 < R
      BY <1>1, <2>3, <3>1, WorkLess
    <3>. QED  BY <1>1, <1>3, <2>3, <3>2
  <2>. HIDE DEF q1, d0, d1
  <2>5. R * q1 = q1 * R /\ d1 * 1 = d1
    BY <1>1, <2>3
  <2>6. x = d0 * R + d1 * 1
    BY <2>3, <2>4, <2>5
  <2>. QED  BY <1>1, <2>2, <2>6
<1>. QED  BY <1>4, <1>5

\* A number that is stored is read back.
LEMMA UIntBack ==
    ASSUME "byte_order" \in Repaired, NEW m, NEW p \in Nat,
           NEW x \in UInt, Stored(m, p, uitob(x))
    PROVE  ReadUInt(m, p) = x
<1>. DEFINE d(ix) == Shifted(x, 4, ix)
<1>1. x \in Nat
  BY DEF UInt
<1>2. \A ix \in 0..3 : d(ix) \in Byte
  BY <1>1, ShiftedByte
<1>3. /\ Len(uitob(x)) = 4
      /\ uitob(x)[1] = d(0) /\ uitob(x)[2] = d(1)
      /\ uitob(x)[3] = d(2) /\ uitob(x)[4] = d(3)
  BY DEF uitob
<1>4. m[p + 0] = d(0) /\ m[p + 1] = d(1) /\ m[p + 2] = d(2) /\ m[p + 3] = d(3)
  <2>1. /\ 1 \in 1..4 /\ 2 \in 1..4 /\ 3 \in 1..4 /\ 4 \in 1..4
        /\ p + 1 - 1 = p + 0 /\ p + 2 - 1 = p + 1 /\ p + 3 - 1 = p + 2 /\ p + 4 - 1 = p + 3
    OBVIOUS
  <2>. HIDE DEF d
  <2>. QED  BY <1>3, <2>1 DEF Stored
<1>5. /\ m[p + 0] \in Byte /\ m[p + 1] \in Byte
      /\ m[p + 2] \in Byte /\ m[p + 3] \in Byte
  <2>1. 0 \in 0..3 /\ 1 \in 0..3 /\ 2 \in 0..3 /\ 3 \in 0..3
    OBVIOUS
  <2>. HIDE DEF d
  <2>. QED  BY <1>2, <1>4, <2>1
<1>6. x = d(0) * Place(3) + d(1) * Place(2) + d(2) * Place(1) + d(3) * Place(0)
  BY DigitsSum
<1>. HIDE DEF d
<1>7. BigEndian(m, p, 4) = d(0) * Place(3) + d(1) * Place(2)
                               + d(2) * Place(1) + d(3) * Place(0)
  BY <1>4, <1>5 DEF BigEndian
<1>. QED  BY <1>6, <1>7 DEF ReadUInt

LEMMA UShortBack ==
    ASSUME "byte_order" \in Repaired, NEW m, NEW p \in Nat,
           NEW x \in UShort, Stored(m, p, ustob(x))
    PROVE  ReadUShort(m, p) = x
<1>. DEFINE d(ix) == Shifted(x, 2, ix)
<1>1. x \in Nat
  BY DEF UShort
<1>2. \A ix \in 0..1 : d(ix) \in Byte
  BY <1>1, ShiftedByte
<1>3. /\ Len(ustob(x)) = 2
      /\ ustob(x)[1] = d(0) /\ ustob(x)[2] = d(1)
  BY DEF ustob
<1>4. m[p + 0] = d(0) /\ m[p + 1] = d(1)
  <2>1. 1 \in 1..2 /\ 2 \in 1..2 /\ p + 1 - 1 = p + 0 /\ p + 2 - 1 = p + 1
    OBVIOUS
  <2>. HIDE DEF d
  <2>. QED  BY <1>3, <2>1 DEF Stored
<1>5. m[p + 0] \in Byte /\ m[p + 1] \in Byte
  <2>1. 0 \in 0..1 /\ 1 \in 0..1
    OBVIOUS
  <2>. HIDE DEF d
  <2>. QED  BY <1>2, <1>4, <2>1
<1>6. x = d(0) * Place(1) + d(1) * Place(0)
  BY DigitsSum
<1>. HIDE DEF d
<1>7. BigEndian(m, p, 2) = d(0) * Place(1) + d(1) * Place(0)
  BY <1>4, <1>5 DEF BigEndian
<1>. QED  BY <1>6, <1>7 DEF ReadUShort

\* The size of a transaction is computed from its own bytes,
LEMMA HoldsSize ==
    ASSUME "byte_order" \in Repaired, NEW m, NEW p \in Nat,
           NEW t \in AllTx, Holds(m, p, t)
    PROVE  tx_compute_size(m, p) = SizeOf(t)
<1>. DEFINE s == TxData[t]
<1>1. /\ Len(s) = SizeOf(t)
      /\ \A ix \in 1..2 : s[2 + ix] = ustob(Ins[t])[ix] /\ s[4 + ix] = ustob(Outs[t])[ix]
  BY TxBytes
<1>2. SizeOf(t) \in Nat /\ SizeOf(t) >= 10 /\ Ins[t] \in UShort /\ Outs[t] \in UShort
  BY BufTx
<1>3. p + Len(s) <= MAX_BLOCK_SIZE /\ Stored(m, p, s)
  BY HoldsIs
<1>. HIDE DEF s
<1>4. Len(ustob(Ins[t])) = 2 /\ Len(ustob(Outs[t])) = 2
  BY BytesMade, BufTx
<1>5. ASSUME NEW ix \in 1..2
      PROVE  /\ m[(p + 2) + ix - 1] = ustob(Ins[t])[ix]
             /\ m[(p + 4) + ix - 1] = ustob(Outs[t])[ix]
  <2>1. /\ 2 + ix \in 1..Len(s) /\ 4 + ix \in 1..Len(s)
        /\ p + (2 + ix) - 1 = (p + 2) + ix - 1 /\ p + (4 + ix) - 1 = (p + 4) + ix - 1
    BY <1>1, <1>2
  <2>2. m[p + (2 + ix) - 1] = s[2 + ix] /\ m[p + (4 + ix) - 1] = s[4 + ix]
    BY <1>3, <2>1 DEF Stored
  <2>. QED  BY <1>1, <2>1, <2>2
<1>6. Stored(m, p + 2, ustob(Ins[t])) /\ Stored(m, p + 4, ustob(Outs[t]))
  BY <1>4, <1>5 DEF Stored
<1>7. p + 2 \in Nat /\ p + 4 \in Nat
  OBVIOUS
<1>8. ReadUShort(m, p + 2) = Ins[t] /\ ReadUShort(m, p + 4) = Outs[t]
  BY <1>2, <1>6, <1>7, UShortBack
<1>9. p + 10 <= MAX_BLOCK_SIZE
  BY <1>1, <1>2, <1>3, BufFacts
<1>. QED
  BY <1>8, <1>9
  DEF tx_compute_size, SizeOf, SIZE_TX_HEADER, POS_TX_IN_COUNT, POS_TX_OUT_COUNT

\* Every transaction has an input or an output.
TxsMarked == \A t \in AllTx : SizeOf(t) > 10

\* and no two transactions can be in the same place.
LEMMA TxFound ==
    ASSUME "byte_order" \in Repaired, TxsMarked, NEW m, NEW p \in Nat,
           NEW t \in AllTx, Holds(m, p, t)
    PROVE  TxAt(m, p) = t
<1>1. ASSUME NEW u \in AllTx, Holds(m, p, u) PROVE m[p + 11 - 1] = u
  <2>1. SizeOf(u) > 10 /\ SizeOf(u) \in Nat
    BY BufTx DEF TxsMarked
  <2>2. Stored(m, p, TxData[u])
    BY <1>1, HoldsIs
  <2>3. Len(TxData[u]) = SizeOf(u) /\ \A ix \in 11..SizeOf(u) : TxData[u][ix] = u
    BY TxBytes
  <2>4. 11 \in 1..Len(TxData[u]) /\ TxData[u][11] = u
    BY <2>1, <2>3
  <2>. QED  BY <2>2, <2>4 DEF Stored
<1>. DEFINE u == CHOOSE x \in AllTx : Holds(m, p, x)
<1>2. u \in AllTx /\ Holds(m, p, u)
  OBVIOUS
<1>3. TxAt(m, p) = u
  BY DEF TxAt
<1>. HIDE DEF u
<1>. QED  BY <1>1, <1>2, <1>3

------------------------------------------------------------------------------
(* The body.                                                               *)

\* The transactions txs stand one behind the other, at the addresses in c.
BodyOf(m, count, c, txs) ==
    /\ count \in Nat /\ Walk(c, m, count)
    /\ count + 83 <= c[count] /\ c[count] <= MAX_BLOCK_SIZE
    /\ txs \in Seq(AllTx) /\ Len(txs) = count
    /\ \A ix \in 1..count : Holds(m, c[ix - 1], txs[ix])

LEMMA WalkUnique ==
    ASSUME NEW m, NEW count \in Nat, NEW c, NEW d, Walk(c, m, count), Walk(d, m, count)
    PROVE  c = d
<1>1. /\ c \in [0..count -> Nat] /\ d \in [0..count -> Nat] /\ c[0] = d[0]
      /\ \A ix \in 1..count : c[ix - 1] = d[ix - 1] => c[ix] = d[ix]
  BY DEF Walk
<1>2. \A ix \in 0..count : c[ix] = d[ix]
  <2>1. c[0] = d[0]
    BY <1>1
  <2>2. ASSUME NEW ix \in 1..count, c[ix - 1] = d[ix - 1] PROVE c[ix] = d[ix]
    BY <1>1, <2>2
  <2>. QED  BY <2>1, <2>2, WalksAgree
<1>. QED  BY <1>1, <1>2

\* A reader finds exactly those.
LEMMA BodyRead ==
    ASSUME "byte_order" \in Repaired, TxsMarked, NEW m, NEW c, NEW txs,
           BodyOf(m, ReadUInt(m, 79), c, txs)
    PROVE  /\ ReadTxs(m) = txs
           /\ Cursors(m, ReadUInt(m, 79)) = c
<1>. DEFINE count == ReadUInt(m, 79)
<1>1. /\ count \in Nat /\ Walk(c, m, count) /\ c[count] \in Nat
      /\ count + 83 <= c[count] /\ c[count] <= MAX_BLOCK_SIZE
      /\ txs \in Seq(AllTx) /\ Len(txs) = count
      /\ \A ix \in 1..count : Holds(m, c[ix - 1], txs[ix])
  <2>1. /\ count \in Nat /\ Walk(c, m, count)
        /\ count + 83 <= c[count] /\ c[count] <= MAX_BLOCK_SIZE
        /\ txs \in Seq(AllTx) /\ Len(txs) = count
        /\ \A ix \in 1..count : Holds(m, c[ix - 1], txs[ix])
    BY DEF BodyOf
  <2>. HIDE DEF count
  <2>2. count \in 0..count
    BY <2>1
  <2>. QED  BY <2>1, <2>2, WalkGrows
<1>2. Counted(m) = count
  <2>1. count <= MAX_BLOCK_SIZE
    <3>. DEFINE e == c[count]
    <3>1. count \in Nat /\ e \in Nat /\ count + 83 <= e /\ e <= MAX_BLOCK_SIZE
      BY <1>1
    <3>. HIDE DEF count, e
    <3>. QED  BY <3>1, BufFacts
  <2>. QED  BY <2>1, CountedIs
<1>. HIDE DEF count
<1>3. Cursors(m, count) = c
  BY <1>1, CursorsWalk, WalkUnique
<1>4. ASSUME NEW ix \in 1..count PROVE TxAt(m, c[ix - 1]) = txs[ix]
  <2>1. txs[ix] \in AllTx /\ Holds(m, c[ix - 1], txs[ix])
    BY <1>1
  <2>2. c[ix - 1] \in Nat
    BY <1>1, ix - 1 \in 0..count DEF Walk
  <2>. QED  BY <2>1, <2>2, TxFound
<1>5. ReadTxs(m) = [ix \in 1..count |-> TxAt(m, c[ix - 1])]
  BY <1>2, <1>3, ReadTxsIs
<1>6. txs = [ix \in 1..count |-> txs[ix]]
  BY <1>1
<1>7. ReadTxs(m) = txs
  BY <1>4, <1>5, <1>6
<1>. QED  BY <1>3, <1>7 DEF count

\* The body stays where nothing is written to it.
LEMMA BodyKept ==
    ASSUME NEW m, NEW n, Same(n, m, 79, MAX_BLOCK_SIZE),
           NEW count, NEW c, NEW txs, BodyOf(m, count, c, txs)
    PROVE  BodyOf(n, count, c, txs)
<1>1. /\ count \in Nat /\ Walk(c, m, count)
      /\ txs \in Seq(AllTx) /\ Len(txs) = count
      /\ \A ix \in 1..count : Holds(m, c[ix - 1], txs[ix])
  BY DEF BodyOf
<1>2. MAX_BLOCK_SIZE \in Nat /\ Same(n, m, 83, MAX_BLOCK_SIZE) /\ Same(m, n, 83, MAX_BLOCK_SIZE)
  BY BufFacts DEF Same
<1>3. \A ix \in 0..count : c[ix] \in Nat /\ c[ix] >= 83
  BY <1>1, WalkGrows
<1>4. HeadersBelow(c, count, MAX_BLOCK_SIZE)
  <2>1. ASSUME NEW ix \in 1..count PROVE c[ix - 1] \in Nat
    BY <1>1, <1>3, ix - 1 \in 0..count
  <2>. QED  BY <1>2, <2>1 DEF HeadersBelow
<1>5. PICK d : Walk(d, n, count)
  BY <1>1, WalkExists
<1>6. c = d
  BY <1>1, <1>2, <1>4, <1>5, WalksSame
<1>7. ASSUME NEW ix \in 1..count PROVE Holds(n, c[ix - 1], txs[ix])
  <2>1. c[ix - 1] \in Nat /\ 83 <= c[ix - 1]
    BY <1>1, <1>3, ix - 1 \in 0..count
  <2>2. Holds(m, c[ix - 1], txs[ix]) /\ txs[ix] \in AllTx
    BY <1>1
  <2>3. Len(TxData[txs[ix]]) \in Nat
    BY <2>2, TxBytes, BufTx
  <2>4. /\ c[ix - 1] + Len(TxData[txs[ix]]) <= MAX_BLOCK_SIZE
        /\ Stored(m, c[ix - 1], TxData[txs[ix]])
    BY <2>2, HoldsIs
  <2>5. Stored(n, c[ix - 1], TxData[txs[ix]])
    BY <1>2, <2>1, <2>3, <2>4, StoredSame
  <2>. QED  BY <2>4, <2>5, HoldsIs
<1>. QED  BY <1>5, <1>6, <1>7 DEF BodyOf

\* block_compute_size goes by the sizes of the transactions.
LEMMA RecordSizeIs ==
    ASSUME "byte_order" \in Repaired, NEW m, NEW count, NEW c, NEW txs,
           BodyOf(m, count, c, txs)
    PROVE  Record!RecordSize(txs) = c[count]
<1>. DEFINE S(t) == [u \in AllTx |-> m_tx_size(Ins[u], Outs[u])][t]
            Run(z) == z = [j \in 0..Len(txs) |->
                              IF j = 0 THEN SIZE_BLOCK_HEADER ELSE z[j - 1] + S(txs[j])]
<1>1. /\ count \in Nat /\ Walk(c, m, count)
      /\ txs \in Seq(AllTx) /\ Len(txs) = count
      /\ \A ix \in 1..count : Holds(m, c[ix - 1], txs[ix])
  BY DEF BodyOf
<1>2. ASSUME NEW ix \in 1..count PROVE c[ix] = c[ix - 1] + S(txs[ix])
  <2>1. txs[ix] \in AllTx /\ Holds(m, c[ix - 1], txs[ix])
    BY <1>1
  <2>2. c[ix - 1] \in Nat
    BY <1>1, ix - 1 \in 0..count DEF Walk
  <2>3. tx_compute_size(m, c[ix - 1]) = SizeOf(txs[ix])
    BY <2>1, <2>2, HoldsSize
  <2>4. S(txs[ix]) = SizeOf(txs[ix])
    BY <2>1 DEF SizeOf
  <2>. HIDE DEF S
  <2>. QED  BY <1>1, <2>3, <2>4 DEF Walk
<1>3. Record!RecordSize(txs) = (CHOOSE z : Run(z))[Len(txs)]
  BY Zenon DEF Record!RecordSize
<1>. HIDE DEF S
<1>4. Run(c)
  <2>. DEFINE v == [j \in 0..Len(txs) |->
                       IF j = 0 THEN SIZE_BLOCK_HEADER ELSE c[j - 1] + S(txs[j])]
  <2>1. ASSUME NEW j \in 0..count PROVE c[j] = v[j]
    <3>1. j = 0 \/ j \in 1..count
      BY <1>1
    <3>. QED  BY <1>1, <1>2, <3>1 DEF Walk, SIZE_BLOCK_HEADER
  <2>2. c \in [0..count -> Nat] /\ c = [j \in 0..count |-> c[j]]
    BY <1>1 DEF Walk
  <2>3. v = [j \in 0..count |-> v[j]]
    BY <1>1
  <2>4. c = v
    <3>. HIDE DEF v
    <3>. QED  BY <2>1, <2>2, <2>3
  <2>. QED  BY <2>4
<1>. DEFINE z == CHOOSE y : Run(y)
<1>5. Run(z)
  <2>. HIDE DEF Run
  <2>. QED  BY <1>4
<1>. HIDE DEF z
<1>6. z[0] = 83 /\ \A ix \in 1..count : z[ix] = z[ix - 1] + S(txs[ix])
  <2>. DEFINE v == [j \in 0..Len(txs) |->
                       IF j = 0 THEN SIZE_BLOCK_HEADER ELSE z[j - 1] + S(txs[j])]
  <2>1. z = v
    BY <1>5
  <2>2. v[0] = 83 /\ \A ix \in 1..count : v[ix] = z[ix - 1] + S(txs[ix])
    BY <1>1 DEF SIZE_BLOCK_HEADER
  <2>. HIDE DEF v
  <2>. QED  BY <2>1, <2>2
<1>7. \A ix \in 0..count : z[ix] = c[ix]
  <2>1. z[0] = c[0]
    BY <1>1, <1>6 DEF Walk
  <2>2. ASSUME NEW ix \in 1..count, z[ix - 1] = c[ix - 1] PROVE z[ix] = c[ix]
    BY <1>2, <1>6, <2>2
  <2>3. count \in Nat
    BY <1>1
  <2>. QED  BY <2>1, <2>2, <2>3, WalksAgree
<1>8. count \in 0..count
  BY <1>1
<1>9. Record!RecordSize(txs) = z[count]
  BY <1>1, <1>3 DEF z
<1>. QED  BY <1>7, <1>8, <1>9

\* The count of the transactions that fit into a block is a uint.
CountFits == MAX_BLOCK_SIZE <= Radix * Place(3)

\* What is written of a transaction that fits: its bytes behind the last one,
\* and a count that is one higher.  Nothing else changes.
LEMMA AddedBytes ==
    ASSUME "byte_order" \in Repaired, CountFits, NEW m \in ByteBuffers,
           NEW t \in AllTx, NEW size \in Nat,
           ReadUInt(m, 79) + 83 <= size, size + SizeOf(t) < MAX_BLOCK_SIZE
    PROVE  /\ AddedTx(m, size, t) \in ByteBuffers
           /\ Same(AddedTx(m, size, t), m, 0, 79)
           /\ Same(AddedTx(m, size, t), m, 83, size)
           /\ Holds(AddedTx(m, size, t), size, t)
           /\ ReadUInt(AddedTx(m, size, t), 79) = ReadUInt(m, 79) + 1
<1>. DEFINE r == TxData[t]
            a == Written(m, size, r)
            count == ReadUInt(m, 79)
            x == (count + 1) % (Radix * Place(3))
            s == uitob(x)
            n == Written(a, 79, s)
<1>1. /\ count \in Nat /\ SizeOf(t) \in Nat /\ SizeOf(t) >= 10
      /\ MAX_BLOCK_SIZE \in Nat /\ MAX_BLOCK_SIZE > 83
  BY WordsRead, BufTx, BufFacts
<1>2. r \in Seq(Int) /\ Len(r) = SizeOf(t)
  BY TxBytes
<1>3. x = count + 1 /\ x \in UInt
  <2>. DEFINE d == Radix * Place(3)
  <2>1. x \in UInt
    BY <1>1, CountUp
  <2>2. d \in Nat
    BY BufFacts, BufPlaces
  <2>3. MAX_BLOCK_SIZE <= d
    BY DEF CountFits
  <2>4. x = (count + 1) % d
    OBVIOUS
  <2>5. count + 83 <= size
    OBVIOUS
  <2>. HIDE DEF d, x, count
  <2>6. count + 1 < d
    BY <1>1, <2>2, <2>3, <2>5
  <2>7. (count + 1) % d = count + 1
    BY <1>1, <2>2, <2>6
  <2>. QED  BY <2>1, <2>4, <2>7
<1>4. AddedTx(m, size, t) = n
  BY DEF AddedTx, POS_BLOCK_TX_COUNT
<1>. HIDE DEF r
<1>5. a \in ByteBuffers /\ Stored(a, size, r)
  <2>1. Room(size, r)
    BY <1>1, <1>2 DEF Room
  <2>. QED  BY <2>1, PutIs
<1>6. Same(a, m, 0, size)
  BY <1>2, WrittenSame
<1>. HIDE DEF a
<1>7. s \in Seq(Int) /\ Len(s) = 4
  <2>1. x \in Nat
    BY <1>3 DEF UInt
  <2>. HIDE DEF x
  <2>. QED  BY <2>1, BytesMade
<1>. HIDE DEF s
<1>8. n \in ByteBuffers /\ Stored(n, 79, s)
  <2>1. Room(79, s)
    BY <1>1, <1>7 DEF Room
  <2>. QED  BY <1>5, <2>1, PutIs
<1>9. Same(n, a, 0, 79) /\ Same(n, a, 83, MAX_BLOCK_SIZE)
  <2>1. 79 + Len(s) <= 83
    BY <1>7
  <2>2. Same(n, a, 83, MAX_BLOCK_SIZE)
    BY <1>1, <1>5, <1>7, <2>1, WrittenSame
  <2>3. Same(n, a, 0, 79)
    BY <1>5, <1>7, WrittenSame
  <2>. QED  BY <2>2, <2>3
<1>. HIDE DEF n
<1>10. size >= 83 /\ size + Len(r) <= MAX_BLOCK_SIZE /\ size <= MAX_BLOCK_SIZE
  <2>1. count + 83 <= size
    OBVIOUS
  <2>. HIDE DEF count
  <2>. QED  BY <1>1, <1>2, <2>1
<1>11. Same(n, m, 0, 79) /\ Same(n, m, 83, size)
  <2>1. \A q \in Addr : q \in Nat
    BY BufFacts
  <2>2. ASSUME NEW q \in Addr, q < 79 PROVE n[q] = m[q]
    BY <1>6, <1>9, <1>10, <2>1, <2>2 DEF Same
  <2>3. ASSUME NEW q \in Addr, q >= 83, q < size PROVE n[q] = m[q]
    BY <1>1, <1>6, <1>9, <1>10, <2>1, <2>3 DEF Same
  <2>. QED  BY <2>2, <2>3 DEF Same
<1>12. Holds(n, size, t)
  <2>1. Len(r) \in Nat /\ 83 <= size
    BY <1>2, <1>10
  <2>2. Stored(n, size, r)
    BY <1>1, <1>5, <1>9, <1>10, <2>1, StoredSame
  <2>. QED  BY <1>10, <2>2, HoldsIs DEF r
<1>13. ReadUInt(n, 79) = count + 1
  <2>1. ReadUInt(n, 79) = x
    BY <1>3, <1>8, UIntBack DEF s
  <2>. QED  BY <1>3, <2>1
<1>. QED  BY <1>4, <1>8, <1>11, <1>12, <1>13

LEMMA BodyAdded ==
    ASSUME "byte_order" \in Repaired, CountFits, NEW m \in ByteBuffers,
           NEW t \in AllTx, NEW count, count = ReadUInt(m, 79), NEW c, NEW txs,
           BodyOf(m, count, c, txs), c[count] + SizeOf(t) < MAX_BLOCK_SIZE
    PROVE  \E d : BodyOf(AddedTx(m, c[count], t), count + 1, d, Append(txs, t))
<1>. DEFINE size == c[count]
            n == AddedTx(m, size, t)
            d == [ix \in 0..(count + 1) |-> IF ix <= count THEN c[ix] ELSE size + SizeOf(t)]
            all == Append(txs, t)
<1>1. /\ count \in Nat /\ Walk(c, m, count)
      /\ txs \in Seq(AllTx) /\ Len(txs) = count
      /\ \A ix \in 1..count : Holds(m, c[ix - 1], txs[ix])
  BY DEF BodyOf
<1>2. /\ c \in [0..count -> Nat] /\ c[0] = 83
      /\ \A ix \in 1..count : c[ix] = c[ix - 1] + tx_compute_size(m, c[ix - 1])
  BY <1>1 DEF Walk
<1>3. /\ count + 83 <= size /\ size \in Nat /\ size + SizeOf(t) < MAX_BLOCK_SIZE
      /\ \A ix \in 0..count : c[ix] \in Nat /\ c[ix] >= 83 /\ c[ix] <= size
  <2>1. count \in 0..count
    BY <1>1
  <2>2. count + 83 <= size
    BY DEF BodyOf
  <2>3. \A ix \in 0..count : c[ix] \in Nat /\ c[ix] >= 83 /\ c[ix] <= size
    BY <1>1, WalkGrows
  <2>. QED  BY <2>1, <2>2, <2>3
<1>4. /\ SizeOf(t) \in Nat /\ SizeOf(t) >= 10 /\ MAX_BLOCK_SIZE \in Nat
  BY BufTx, BufFacts
<1>. HIDE DEF size
<1>5. /\ Same(n, m, 83, size) /\ Holds(n, size, t)
  BY <1>3, AddedBytes
<1>. HIDE DEF n
<1>6. ASSUME NEW ix \in 1..count
      PROVE  /\ Holds(n, c[ix - 1], txs[ix])
             /\ c[ix] = c[ix - 1] + tx_compute_size(n, c[ix - 1])
  <2>. DEFINE u == txs[ix]
              p == c[ix - 1]
  <2>1. u \in AllTx /\ Holds(m, p, u)
    BY <1>1
  <2>2. p \in Nat /\ p >= 83 /\ c[ix] \in Nat /\ c[ix] <= size
    BY <1>1, <1>3, ix - 1 \in 0..count, ix \in 0..count
  <2>3. c[ix] = p + tx_compute_size(m, p)
    BY <1>2
  <2>. HIDE DEF u, p
  <2>4. tx_compute_size(m, p) = SizeOf(u)
    BY <2>1, <2>2, HoldsSize
  <2>5. Len(TxData[u]) = SizeOf(u) /\ SizeOf(u) \in Nat
    BY <2>1, TxBytes, BufTx
  <2>6. p + Len(TxData[u]) <= MAX_BLOCK_SIZE /\ Stored(m, p, TxData[u])
    BY <2>1, HoldsIs
  <2>7. p + Len(TxData[u]) <= size
    BY <2>2, <2>3, <2>4, <2>5
  <2>8. Len(TxData[u]) \in Nat /\ 83 <= p
    BY <2>2, <2>5
  <2>9. Stored(n, p, TxData[u])
    BY <1>3, <1>5, <2>2, <2>6, <2>7, <2>8, StoredSame
  <2>10. Holds(n, p, u)
    BY <2>6, <2>9, HoldsIs
  <2>11. tx_compute_size(n, p) = SizeOf(u)
    BY <2>1, <2>2, <2>10, HoldsSize
  <2>. QED  BY <2>3, <2>4, <2>10, <2>11 DEF u, p
<1>7. tx_compute_size(n, size) = SizeOf(t)
  BY <1>3, <1>5, HoldsSize
<1>8. /\ d \in [0..(count + 1) -> Nat]
      /\ \A ix \in 0..count : d[ix] = c[ix]
      /\ d[count + 1] = size + SizeOf(t)
  <2>1. ASSUME NEW ix \in 0..(count + 1), ix <= count PROVE c[ix] \in Nat
    <3>1. ix \in 0..count
      BY <1>1, <2>1
    <3>. QED  BY <1>3, <3>1
  <2>2. size + SizeOf(t) \in Nat
    BY <1>3, <1>4
  <2>. QED  BY <1>1, <2>1, <2>2
<1>9. /\ all \in Seq(AllTx) /\ Len(all) = count + 1
      /\ \A ix \in 1..count : all[ix] = txs[ix]
      /\ all[count + 1] = t
  BY <1>1
<1>. HIDE DEF d, all
<1>10. ASSUME NEW ix \in 1..(count + 1)
       PROVE  /\ d[ix] = d[ix - 1] + tx_compute_size(n, d[ix - 1])
              /\ Holds(n, d[ix - 1], all[ix])
  <2>1. CASE ix \in 1..count
    <3>1. ix \in 0..count /\ ix - 1 \in 0..count
      BY <1>1, <2>1
    <3>2. d[ix] = c[ix] /\ d[ix - 1] = c[ix - 1] /\ all[ix] = txs[ix]
      BY <1>8, <1>9, <2>1, <3>1
    <3>. QED  BY <1>6, <2>1, <3>2
  <2>2. CASE ix = count + 1
    <3>1. ix - 1 = count /\ count \in 0..count
      BY <1>1, <2>2
    <3>2. d[ix] = size + SizeOf(t) /\ d[ix - 1] = size /\ all[ix] = t
      BY <1>8, <1>9, <2>2, <3>1 DEF size
    <3>. QED  BY <1>5, <1>7, <3>2
  <2>. QED  BY <1>1, <2>1, <2>2
<1>11. d[0] = 83
  BY <1>1, <1>2, <1>8, 0 \in 0..count
<1>12. Walk(d, n, count + 1)
  BY <1>8, <1>10, <1>11 DEF Walk
<1>13. count + 1 \in Nat /\ (count + 1) + 83 <= d[count + 1] /\ d[count + 1] <= MAX_BLOCK_SIZE
  BY <1>1, <1>3, <1>4, <1>8
<1>14. BodyOf(n, count + 1, d, all)
  BY <1>9, <1>10, <1>12, <1>13 DEF BodyOf
<1>. QED  BY <1>14 DEF n, all, size

------------------------------------------------------------------------------
(* The record.                                                             *)

\* The record a reader makes of buffer m.
BlockOf(m) ==
    [time   |-> ReadUInt(m, POS_BLOCK_TIME),
     height |-> ReadUInt(m, POS_BLOCK_HEIGHT),
     prev   |-> ReadHash(m, POS_BLOCK_PREV_HASH),
     target |-> ReadTarget(m),
     root   |-> ReadHash(m, POS_BLOCK_MERKLE_ROOT),
     nonce  |-> ReadUInt(m, POS_BLOCK_NONCE),
     txs    |-> ReadTxs(m)]

\* Once a header has been begun there is a body, be it empty.
HasBody(m) == \E c, txs : BodyOf(m, ReadUInt(m, 79), c, txs)

RecordInv ==
    /\ mem \in ByteBuffers
    /\ mem[0] = Junk \/ Numbered(mem)
    /\ point # "header" => Numbered(mem) /\ HasBody(mem)

LEMMA BlockRead ==
    ASSUME Numbered(mem)
    PROVE  ReadBlock = BlockOf(mem) /\ ReadBlock # <<>>
<1>1. 0 \in Numbers
  BY NumbersAre
<1>2. mem[0] # Junk
  BY <1>1, BufFacts DEF Numbered
<1>3. ReadBlock = BlockOf(mem)
  BY <1>2 DEF ReadBlock, BlockOf, POS_BLOCK_VERSION
<1>4. BlockOf(mem) # <<>>
  <2>1. "time" \in DOMAIN BlockOf(mem)
    BY DEF BlockOf
  <2>2. "time" \notin DOMAIN <<>>
    OBVIOUS
  <2>. QED  BY <2>1, <2>2
<1>. QED  BY <1>3, <1>4

LEMMA BlockReadNext ==
    ASSUME Numbered(mem)'
    PROVE  ReadBlock' = BlockOf(mem')
<1>1. 0 \in Numbers
  BY NumbersAre
<1>2. mem'[0] # Junk
  BY <1>1, BufFacts DEF Numbered
<1>. QED  BY <1>2 DEF ReadBlock, BlockOf, POS_BLOCK_VERSION

\* A field is read from its own bytes.
LEMMA FieldsSame ==
    ASSUME "target_byte" \in Repaired, NEW m, NEW n
    PROVE  /\ Same(n, m, 2, 6) => BlockOf(n).time = BlockOf(m).time
           /\ Same(n, m, 6, 10) => BlockOf(n).height = BlockOf(m).height
           /\ Same(n, m, 10, 42) => BlockOf(n).prev = BlockOf(m).prev
           /\ Same(n, m, 42, 74) => BlockOf(n).root = BlockOf(m).root
           /\ Same(n, m, 74, 75) => BlockOf(n).target = BlockOf(m).target
           /\ Same(n, m, 75, 79) => BlockOf(n).nonce = BlockOf(m).nonce
           /\ Same(n, m, 79, MAX_BLOCK_SIZE) => BlockOf(n).txs = BlockOf(m).txs
<1>1. MAX_BLOCK_SIZE \in Nat /\ MAX_BLOCK_SIZE > 83
  BY BufFacts
<1>2. ASSUME NEW p \in Nat, NEW hi \in Nat, p + 4 = hi, hi <= 83, Same(n, m, p, hi)
      PROVE  ReadUInt(n, p) = ReadUInt(m, p)
  BY <1>1, <1>2, UIntSame
<1>3. ASSUME NEW p \in Nat, NEW hi \in Nat, p + 32 = hi, hi <= 83, Same(n, m, p, hi)
      PROVE  ReadHash(n, p) = ReadHash(m, p)
  BY <1>3, HashSame
<1>4. Same(n, m, 2, 6) => ReadUInt(n, 2) = ReadUInt(m, 2)
  BY <1>2
<1>5. Same(n, m, 6, 10) => ReadUInt(n, 6) = ReadUInt(m, 6)
  BY <1>2
<1>6. Same(n, m, 75, 79) => ReadUInt(n, 75) = ReadUInt(m, 75)
  BY <1>2
<1>7. Same(n, m, 10, 42) => ReadHash(n, 10) = ReadHash(m, 10)
  BY <1>3
<1>8. Same(n, m, 42, 74) => ReadHash(n, 42) = ReadHash(m, 42)
  BY <1>3
<1>9. Same(n, m, 74, 75) => ReadTarget(n) = ReadTarget(m)
  <2>1. 74 \in Addr /\ 74 >= 74 /\ 74 < 75
    BY <1>1, BufFacts
  <2>. QED  BY <2>1 DEF Same, ReadTarget, POS_BLOCK_TARGET
<1>10. Same(n, m, 79, MAX_BLOCK_SIZE) => ReadTxs(n) = ReadTxs(m)
  BY BodySame
<1>. QED
  BY <1>4, <1>5, <1>6, <1>7, <1>8, <1>9, <1>10
  DEF BlockOf, POS_BLOCK_TIME, POS_BLOCK_HEIGHT, POS_BLOCK_PREV_HASH,
      POS_BLOCK_MERKLE_ROOT, POS_BLOCK_NONCE

\* A write to one field, and what it leaves alone.
LEMMA WriteAt ==
    ASSUME NEW m \in ByteBuffers, NEW p \in Nat, NEW hi \in Nat, NEW s \in Seq(Int),
           p + Len(s) = hi, hi <= 83
    PROVE  /\ Written(m, p, s) \in ByteBuffers
           /\ Stored(Written(m, p, s), p, s)
           /\ \A lo, h \in Nat : h <= p \/ hi <= lo => Same(Written(m, p, s), m, lo, h)
<1>1. Room(p, s)
  BY BufFacts DEF Room
<1>. QED  BY <1>1, PutIs, WrittenSame

LEMMA TimeWritten ==
    ASSUME "byte_order" \in Repaired, "target_byte" \in Repaired,
           NEW m \in ByteBuffers, NEW now \in UInt
    PROVE  BlockOf(Written(m, 2, uitob(now))) = [BlockOf(m) EXCEPT !.time = now]
<1>. DEFINE s == uitob(now)
            n == Written(m, 2, s)
<1>1. s \in Seq(Int) /\ 2 + Len(s) = 6
  <2>1. now \in Nat
    BY DEF UInt
  <2>2. s \in Seq(Int) /\ Len(s) = 4
    BY <2>1, BytesMade
  <2>. HIDE DEF s
  <2>. QED  BY <2>2
<1>2. MAX_BLOCK_SIZE \in Nat
  BY BufFacts
<1>3. /\ Stored(n, 2, s)
      /\ \A lo, h \in Nat : h <= 2 \/ 6 <= lo => Same(n, m, lo, h)
  <2>. HIDE DEF s
  <2>1. 2 \in Nat /\ 6 \in Nat /\ 6 <= 83
    OBVIOUS
  <2>. QED  BY <1>1, <2>1, WriteAt
<1>4. ReadUInt(n, 2) = now
  BY <1>3, UIntBack
<1>. HIDE DEF n
<1>5. /\ Same(n, m, 6, 10) /\ Same(n, m, 10, 42) /\ Same(n, m, 42, 74) /\ Same(n, m, 74, 75)
      /\ Same(n, m, 75, 79) /\ Same(n, m, 79, MAX_BLOCK_SIZE)
  BY <1>2, <1>3
<1>6. /\ BlockOf(n).time = now /\ BlockOf(n).height = BlockOf(m).height
      /\ BlockOf(n).prev = BlockOf(m).prev /\ BlockOf(n).root = BlockOf(m).root
      /\ BlockOf(n).target = BlockOf(m).target /\ BlockOf(n).nonce = BlockOf(m).nonce
      /\ BlockOf(n).txs = BlockOf(m).txs
  <2>1. BlockOf(n).time = now
    BY <1>4 DEF BlockOf, POS_BLOCK_TIME
  <2>. QED  BY <1>5, <2>1, FieldsSame
<1>7. BlockOf(n) = [BlockOf(m) EXCEPT !.time = now]
  BY <1>6 DEF BlockOf
<1>. QED  BY <1>7 DEF n

LEMMA NonceWritten ==
    ASSUME "byte_order" \in Repaired, "target_byte" \in Repaired,
           NEW m \in ByteBuffers, NEW x \in UInt
    PROVE  /\ BlockOf(Written(m, 75, uitob(x))) = [BlockOf(m) EXCEPT !.nonce = x]
           /\ Same(Written(m, 75, uitob(x)), m, 79, MAX_BLOCK_SIZE)
<1>. DEFINE s == uitob(x)
            n == Written(m, 75, s)
<1>1. s \in Seq(Int) /\ 75 + Len(s) = 79
  <2>1. x \in Nat
    BY DEF UInt
  <2>2. s \in Seq(Int) /\ Len(s) = 4
    BY <2>1, BytesMade
  <2>. HIDE DEF s
  <2>. QED  BY <2>2
<1>2. MAX_BLOCK_SIZE \in Nat
  BY BufFacts
<1>3. /\ Stored(n, 75, s)
      /\ \A lo, h \in Nat : h <= 75 \/ 79 <= lo => Same(n, m, lo, h)
  <2>. HIDE DEF s
  <2>1. 75 \in Nat /\ 79 \in Nat /\ 79 <= 83
    OBVIOUS
  <2>. QED  BY <1>1, <2>1, WriteAt
<1>4. ReadUInt(n, 75) = x
  BY <1>3, UIntBack
<1>. HIDE DEF n
<1>5. /\ Same(n, m, 2, 6) /\ Same(n, m, 6, 10) /\ Same(n, m, 10, 42) /\ Same(n, m, 42, 74)
      /\ Same(n, m, 74, 75) /\ Same(n, m, 79, MAX_BLOCK_SIZE)
  BY <1>2, <1>3
<1>6. /\ BlockOf(n).nonce = x /\ BlockOf(n).height = BlockOf(m).height
      /\ BlockOf(n).prev = BlockOf(m).prev /\ BlockOf(n).root = BlockOf(m).root
      /\ BlockOf(n).target = BlockOf(m).target /\ BlockOf(n).time = BlockOf(m).time
      /\ BlockOf(n).txs = BlockOf(m).txs
  <2>1. BlockOf(n).nonce = x
    BY <1>4 DEF BlockOf, POS_BLOCK_NONCE
  <2>. QED  BY <1>5, <2>1, FieldsSame
<1>7. BlockOf(n) = [BlockOf(m) EXCEPT !.nonce = x]
  BY <1>6 DEF BlockOf
<1>. QED  BY <1>5, <1>7 DEF n

\* The transaction a reader finds last is the one that was added, behind the
\* ones that were there.
LEMMA TxWritten ==
    ASSUME "byte_order" \in Repaired, "target_byte" \in Repaired,
           TxsMarked, CountFits, NEW m \in ByteBuffers, NEW t \in AllTx, NEW c, NEW txs,
           BodyOf(m, ReadUInt(m, 79), c, txs),
           c[ReadUInt(m, 79)] + SizeOf(t) < MAX_BLOCK_SIZE
    PROVE  LET n == AddedTx(m, c[ReadUInt(m, 79)], t)
           IN  /\ n \in ByteBuffers
               /\ HasBody(n)
               /\ BlockOf(n) = [BlockOf(m) EXCEPT !.txs = Append(@, t)]
<1>. DEFINE count == ReadUInt(m, 79)
            size == c[count]
            n == AddedTx(m, size, t)
<1>1. size \in Nat /\ count + 83 <= size /\ size + SizeOf(t) < MAX_BLOCK_SIZE
  <2>1. count \in Nat /\ c \in [0..count -> Nat] /\ count + 83 <= size
    BY DEF BodyOf, Walk
  <2>2. count \in 0..count
    <3>. HIDE DEF count
    <3>. QED  BY <2>1
  <2>. QED  BY <2>1, <2>2
<1>2. /\ n \in ByteBuffers /\ Same(n, m, 0, 79)
      /\ ReadUInt(n, 79) = count + 1
  <2>. HIDE DEF size
  <2>. QED  BY <1>1, AddedBytes
<1>3. PICK d : BodyOf(n, ReadUInt(n, 79), d, Append(txs, t))
  BY <1>2, BodyAdded
<1>4. ReadTxs(m) = txs
  BY BodyRead
<1>. HIDE DEF n
<1>5. ReadTxs(n) = Append(txs, t)
  BY <1>3, BodyRead
<1>6. /\ Same(n, m, 2, 6) /\ Same(n, m, 6, 10) /\ Same(n, m, 10, 42) /\ Same(n, m, 42, 74)
      /\ Same(n, m, 74, 75) /\ Same(n, m, 75, 79)
  BY <1>2, BufFacts DEF Same
<1>7. /\ BlockOf(n).nonce = BlockOf(m).nonce /\ BlockOf(n).height = BlockOf(m).height
      /\ BlockOf(n).prev = BlockOf(m).prev /\ BlockOf(n).root = BlockOf(m).root
      /\ BlockOf(n).target = BlockOf(m).target /\ BlockOf(n).time = BlockOf(m).time
      /\ BlockOf(n).txs = Append(BlockOf(m).txs, t)
  <2>1. BlockOf(n).txs = Append(BlockOf(m).txs, t)
    BY <1>4, <1>5 DEF BlockOf
  <2>. QED  BY <1>6, <2>1, FieldsSame
<1>8. BlockOf(n) = [BlockOf(m) EXCEPT !.txs = Append(@, t)]
  BY <1>7 DEF BlockOf
<1>9. HasBody(n)
  BY <1>3 DEF HasBody
<1>. QED  BY <1>2, <1>8, <1>9 DEF n

\* A header is begun with the fields it is given, and no transactions.
LEMMA HeaderRecorded ==
    ASSUME "byte_order" \in Repaired, "target_byte" \in Repaired,
           NEW m \in ByteBuffers, NEW h \in Headers
    PROVE  /\ HasBody(block_add_header(m, h))
           /\ BlockOf(block_add_header(m, h)) =
                  [time |-> h.time, height |-> h.height, prev |-> h.prev,
                   target |-> h.target, root |-> 0, nonce |-> 0, txs |-> <<>>]
<1>. DEFINE n == block_add_header(m, h)
<1>. USE DEF POS_BLOCK_VERSION, POS_BLOCK_TIME, POS_BLOCK_HEIGHT,
             POS_BLOCK_PREV_HASH, POS_BLOCK_MERKLE_ROOT, POS_BLOCK_TARGET,
             POS_BLOCK_NONCE, POS_BLOCK_TX_COUNT
<1>1. /\ Stored(n, 2, uitob(h.time)) /\ Stored(n, 6, uitob(h.height))
      /\ Stored(n, 10, HashBytes(h.prev)) /\ Stored(n, 42, HashBytes(0))
      /\ Stored(n, 74, <<h.target>>) /\ Stored(n, 75, uitob(0))
      /\ Stored(n, 79, uitob(0))
  BY HeaderWritten
<1>. HIDE DEF n
<1>2. h.time \in UInt /\ h.height \in UInt
  BY WorkBlockConstants, BytesConstants
<1>3. 0 \in UInt
  <2>1. Radix * Place(3) \in Nat \ {0}
    <3>1. \A x, y \in Nat \ {0} : x * y \in Nat \ {0}
      OBVIOUS
    <3>. QED  BY <3>1, BufFacts, BufPlaces
  <2>. QED  BY <2>1 DEF UInt
<1>4. /\ ReadUInt(n, 2) = h.time /\ ReadUInt(n, 6) = h.height
      /\ ReadUInt(n, 75) = 0 /\ ReadUInt(n, 79) = 0
  BY <1>1, <1>2, <1>3, UIntBack
<1>5. ReadHash(n, 10) = h.prev /\ ReadHash(n, 42) = 0
  BY <1>1, HashBack
<1>6. ReadTarget(n) = h.target
  <2>1. 1 \in 1..Len(<<h.target>>) /\ 74 + 1 - 1 = 74 /\ <<h.target>>[1] = h.target
    OBVIOUS
  <2>2. n[74] = h.target
    BY <1>1, <2>1 DEF Stored
  <2>. QED  BY <2>2 DEF ReadTarget
<1>7. BodyOf(n, 0, [ix \in 0..0 |-> 83], <<>>)
  BY BufFacts DEF BodyOf, Walk
<1>8. HasBody(n)
  BY <1>4, <1>7 DEF HasBody
<1>9. ReadTxs(n) = <<>>
  <2>1. Counted(n) = 0
    BY <1>4, CountedIs, BufFacts
  <2>. QED  BY <2>1, ReadTxsIs
<1>. QED  BY <1>4, <1>5, <1>6, <1>8, <1>9 DEF BlockOf, n

\* The statements whose corrections the record depends on.
ReadsCorrected ==
    {"byte_order", "count_address", "count_byte", "target_byte"} \subseteq Repaired

\* A step keeps the invariant and is a step of the record, or leaves it alone.
Recorded == RecordInv' /\ [Record!RecordNext]_ReadBlock

LEMMA RecordAdd ==
    ASSUME ReadsCorrected, TxsMarked, CountFits, RecordInv,
           point # "header", point' # "header", NEW t \in AllTx, block_add_tx(t)
    PROVE  Recorded
<1>. DEFINE count == ReadUInt(mem, 79)
<1>1. /\ "byte_order" \in Repaired /\ "count_address" \in Repaired
      /\ "count_byte" \in Repaired /\ "target_byte" \in Repaired
  BY DEF ReadsCorrected
<1>2. mem \in ByteBuffers /\ Numbered(mem)
  BY DEF RecordInv
<1>3. PICK c, txs : BodyOf(mem, count, c, txs)
  BY DEF RecordInv, HasBody
<1>4. ReadTxs(mem) = txs /\ Cursors(mem, count) = c
  BY <1>1, <1>3, BodyRead
<1>5. SizeCounts(mem) = {count}
  BY <1>1 DEF SizeCounts, POS_BLOCK_TX_COUNT
<1>. DEFINE size == c[count]
<1>6. block_compute_size(mem, count) = size
  BY <1>4 DEF block_compute_size
<1>7. IF Fits(size, t)
      THEN mem' = AddedTx(mem, size, t) /\ UNCHANGED alive
      ELSE alive' = FALSE /\ UNCHANGED mem
  <2>1. PICK ix \in SizeCounts(mem) :
            LET z == block_compute_size(mem, ix)
            IN  IF Fits(z, t)
                THEN mem' = AddedTx(mem, z, t) /\ UNCHANGED alive
                ELSE alive' = FALSE /\ UNCHANGED mem
    BY DEF block_add_tx
  <2>2. ix = count
    BY <1>5, <2>1
  <2>. QED  BY <1>6, <2>1, <2>2
<1>8. CASE Fits(size, t)
  <2>1. size + SizeOf(t) < MAX_BLOCK_SIZE
    BY <1>8 DEF Fits, SizeOf
  <2>2. mem' = AddedTx(mem, size, t)
    BY <1>7, <1>8
  <2>3. /\ mem' \in ByteBuffers /\ HasBody(mem')
        /\ BlockOf(mem') = [BlockOf(mem) EXCEPT !.txs = Append(@, t)]
    BY <1>1, <1>2, <1>3, <2>1, <2>2, TxWritten
  <2>4. Numbered(mem)'
    <3>1. size \in Nat /\ size >= 83
      BY <1>5, <1>6, SizeBehind
    <3>. QED  BY <1>2, <2>2, <3>1, AddedIs DEF Numbered
  <2>5. RecordInv'
    BY <2>3, <2>4 DEF RecordInv, HasBody, Numbered
  <2>6. Record!RecordSize(txs) = size
    BY <1>1, <1>3, RecordSizeIs
  <2>7. ReadBlock = BlockOf(mem) /\ ReadBlock # <<>> /\ ReadBlock' = BlockOf(mem')
    BY <1>2, <2>4, BlockRead, BlockReadNext
  <2>8. ReadBlock.txs = txs
    BY <1>4, <2>7 DEF BlockOf
  <2>9. Record!RecordSize(ReadBlock.txs) + SizeOf(t) < MAX_BLOCK_SIZE
    BY <2>1, <2>6, <2>8
  <2>10. ReadBlock' = [ReadBlock EXCEPT !.txs = Append(@, t)]
    BY <2>3, <2>7
  <2>11. Record!RecordNext
    BY <2>7, <2>9, <2>10 DEF Record!RecordNext, Record!Successors, SizeOf
  <2>. QED  BY <2>5, <2>11 DEF Recorded
<1>9. CASE ~ Fits(size, t)
  <2>1. mem' = mem
    BY <1>7, <1>9
  <2>2. ReadBlock' = ReadBlock
    BY <2>1 DEF ReadBlock
  <2>3. RecordInv'
    BY <2>1 DEF RecordInv, HasBody, Numbered
  <2>. QED  BY <2>2, <2>3 DEF Recorded
<1>. QED  BY <1>8, <1>9

\* The header alone is written.
LEMMA HeaderStep ==
    ASSUME RecordInv, point # "header", mem' \in ByteBuffers, Numbered(mem)',
           Same(mem', mem, 79, MAX_BLOCK_SIZE)
    PROVE  RecordInv' /\ ReadBlock = BlockOf(mem) /\ ReadBlock # <<>>
           /\ ReadBlock' = BlockOf(mem')
<1>1. Numbered(mem)
  BY DEF RecordInv
<1>2. PICK c, txs : BodyOf(mem, ReadUInt(mem, 79), c, txs)
  BY DEF RecordInv, HasBody
<1>3. ReadUInt(mem', 79) = ReadUInt(mem, 79)
  <2>1. MAX_BLOCK_SIZE \in Nat /\ 79 + 4 <= MAX_BLOCK_SIZE
    BY BufFacts
  <2>. QED  BY <2>1, UIntSame
<1>4. BodyOf(mem', ReadUInt(mem', 79), c, txs)
  BY <1>2, <1>3, BodyKept
<1>5. RecordInv'
  BY <1>4 DEF RecordInv, HasBody, Numbered
<1>. QED  BY <1>1, <1>5, BlockRead, BlockReadNext

LEMMA RecordStep ==
    ASSUME ReadsCorrected, TxsMarked, CountFits, RecordInv, [BlockNext]_blockVars
    PROVE  Recorded
<1>1. "byte_order" \in Repaired /\ "target_byte" \in Repaired
  BY DEF ReadsCorrected
<1>2. mem \in ByteBuffers /\ (point # "header" => Numbered(mem))
  BY DEF RecordInv
<1>3. ASSUME mem' = mem, point' # "header" => point # "header" PROVE Recorded
  <2>1. ReadBlock' = ReadBlock
    BY <1>3 DEF ReadBlock
  <2>2. RecordInv'
    BY <1>3 DEF RecordInv, HasBody, Numbered
  <2>. QED  BY <2>1, <2>2 DEF Recorded
<1>4. ASSUME NEW h \in Headers, BeginBlock(h) PROVE Recorded
  <2>1. mem' = block_add_header(mem, h) /\ point' = "coinbase"
    BY <1>4 DEF BeginBlock, Goto
  <2>2. mem' \in ByteBuffers /\ Numbered(mem)'
    BY <1>2, <2>1, HeaderWritten, HeaderNumbered DEF Numbered
  <2>3. HasBody(mem') /\ BlockOf(mem') = [time |-> h.time, height |-> h.height, prev |-> h.prev,
            target |-> h.target, root |-> 0, nonce |-> 0, txs |-> <<>>]
    BY <1>1, <1>2, <2>1, HeaderRecorded
  <2>4. RecordInv'
    BY <2>2, <2>3 DEF RecordInv, HasBody, Numbered
  <2>5. ReadBlock' = BlockOf(mem')
    BY <2>2, BlockReadNext
  <2>6. Record!RecordNext
    BY <2>3, <2>5 DEF Record!RecordNext, Record!Begun
  <2>. QED  BY <2>4, <2>6 DEF Recorded
<1>5. ASSUME AddCoinbase PROVE Recorded
  <2>1. point = "coinbase" /\ block_add_tx(Coinbase) /\ point' = "check"
    BY <1>5 DEF AddCoinbase, Goto
  <2>2. Coinbase \in AllTx /\ point # "header" /\ point' # "header"
    BY <2>1 DEF AllTx
  <2>. QED  BY <2>1, <2>2, RecordAdd
<1>6. ASSUME NEW t \in Tx, FillTx(t) PROVE Recorded
  <2>1. point = "fill" /\ block_add_tx(t) /\ point' = "fill"
    BY <1>6 DEF FillTx
  <2>2. t \in AllTx /\ point # "header" /\ point' # "header"
    BY <2>1 DEF AllTx
  <2>. QED  BY <2>1, <2>2, RecordAdd
<1>7. ASSUME Check \/ FillDone \/ EndMine \/ UNCHANGED blockVars PROVE Recorded
  BY <1>3, <1>7 DEF Check, FillDone, EndMine, blockVars, Goto
<1>9. ASSUME NEW now \in Times, UpdateTime(now) PROVE Recorded
  <2>. DEFINE s == uitob(now)
  <2>1. point = "time" /\ mem' = Written(mem, 2, s)
    BY <1>9 DEF UpdateTime, POS_BLOCK_TIME
  <2>2. now \in UInt /\ now \in Nat
    BY WorkBlockConstants, BytesConstants DEF UInt
  <2>3. s \in Seq(Int) /\ s \in Seq(Byte) /\ Len(s) = 4
    BY <2>2, BytesMade
  <2>4. BlockOf(mem') = [BlockOf(mem) EXCEPT !.time = now]
    BY <1>1, <1>2, <2>1, <2>2, TimeWritten
  <2>. HIDE DEF s
  <2>5. mem' \in ByteBuffers /\ Numbered(mem)'
    BY <1>2, <2>1, <2>3, WrittenIs, NumbersKept DEF Numbered
  <2>6. Same(mem', mem, 79, MAX_BLOCK_SIZE)
    <3>1. 2 + Len(s) <= 79 /\ MAX_BLOCK_SIZE \in Nat
      BY <2>3, BufFacts
    <3>. QED  BY <1>2, <2>1, <2>3, <3>1, WrittenSame
  <2>7. /\ RecordInv' /\ ReadBlock = BlockOf(mem) /\ ReadBlock # <<>>
        /\ ReadBlock' = BlockOf(mem')
    BY <2>1, <2>5, <2>6, HeaderStep
  <2>8. ReadBlock' = [ReadBlock EXCEPT !.time = now]
    BY <2>4, <2>7
  <2>9. Record!RecordNext
    BY <2>7, <2>8 DEF Record!RecordNext, Record!Successors
  <2>. QED  BY <2>7, <2>9 DEF Recorded
<1>10. ASSUME TryNonce PROVE Recorded
  <2>. DEFINE x == (ReadUInt(mem, 75) + 1) % (Radix * Place(3))
              s == uitob(x)
  <2>1. point = "mine" /\ mem' = Written(mem, 75, s)
    BY <1>10 DEF TryNonce, block_inc_nonce, POS_BLOCK_NONCE
  <2>2. x \in UInt /\ x \in Nat
    BY CountUp, WordsRead
  <2>3. x = (BlockOf(mem).nonce + 1) % (Radix * Place(3))
    BY DEF BlockOf, POS_BLOCK_NONCE
  <2>. HIDE DEF x
  <2>4. s \in Seq(Int) /\ s \in Seq(Byte) /\ Len(s) = 4
    BY <2>2, BytesMade
  <2>5. /\ BlockOf(mem') = [BlockOf(mem) EXCEPT !.nonce = x]
        /\ Same(mem', mem, 79, MAX_BLOCK_SIZE)
    BY <1>1, <1>2, <2>1, <2>2, NonceWritten
  <2>. HIDE DEF s
  <2>6. mem' \in ByteBuffers /\ Numbered(mem)'
    BY <1>2, <2>1, <2>4, WrittenIs, NumbersKept DEF Numbered
  <2>7. /\ RecordInv' /\ ReadBlock = BlockOf(mem) /\ ReadBlock # <<>>
        /\ ReadBlock' = BlockOf(mem')
    BY <2>1, <2>5, <2>6, HeaderStep
  <2>8. ReadBlock' = [ReadBlock EXCEPT !.nonce = (@ + 1) % (Radix * Place(3))]
    BY <2>3, <2>5, <2>7
  <2>9. Record!RecordNext
    BY <2>7, <2>8 DEF Record!RecordNext, Record!Successors
  <2>. QED  BY <2>7, <2>9 DEF Recorded
<1>. QED
  BY <1>4, <1>5, <1>6, <1>7, <1>9, <1>10 DEF BlockNext

\* The buffer of bytes is the record the miner takes it for, for any radix,
\* any sizes and any headers and transactions: every write lands in its own
\* field, the nonce counts through all its values, no byte of an earlier block
\* shows and no transaction is written over.  The four statements that read
\* wrongly are corrected, every transaction has an input or an output, and
\* the count of a full block fits its field.
THEOREM WorkBlockIsRecord ==
    ASSUME ReadsCorrected, TxsMarked, CountFits
    PROVE  BlockSpec => ImplementsRecord
<1>1. BlockInit => RecordInv /\ Record!RecordInit
  <2>. SUFFICES ASSUME BlockInit PROVE RecordInv /\ Record!RecordInit
    OBVIOUS
  <2>1. mem = [a \in Addr |-> Junk] /\ point = "header"
    BY DEF BlockInit
  <2>2. Junk \in Int /\ 0 \in Addr
    BY BufFacts
  <2>3. mem \in ByteBuffers /\ mem[0] = Junk
    BY <2>1, <2>2 DEF ByteBuffers
  <2>4. ReadBlock = <<>>
    BY <2>3 DEF ReadBlock, POS_BLOCK_VERSION
  <2>. QED  BY <2>1, <2>3, <2>4 DEF RecordInv, Record!RecordInit
<1>2. RecordInv /\ [BlockNext]_blockVars =>
          RecordInv' /\ [Record!RecordNext]_ReadBlock
  BY RecordStep DEF Recorded
<1>. QED  BY <1>1, <1>2, PTL DEF BlockSpec, ImplementsRecord, Record!RecordSpec

==============================================================================
