-------------------------- MODULE AlgorithmsProofs ---------------------------
(***************************************************************************)
(* What the pure functions compute for every value of the constants, once  *)
(* the statements that defeat them are corrected, and that the streaming   *)
(* of sha256 hashes the padded message.  Induction is done throughout by   *)
(* the least counterexample (LeastNumber).                                 *)
(***************************************************************************)
EXTENDS Algorithms, Sha256, FiniteSetTheorems, SequenceTheorems, WellFoundedInduction, TLAPS

------------------------------------------------------------------------------
(* Numbers.                                                                *)

LEMMA LeastNumber ==
    ASSUME NEW T, T \subseteq Nat, T # {}
    PROVE  \E x \in T : \A y \in T : x <= y
<1>. DEFINE R == OpToRel(<, Nat)
<1>1. IsWellFoundedOn(R, Nat)
  BY NatLessThanWellFounded
<1>2. PICK x \in T : \A y \in T : ~ (<<y, x>> \in R)
  <2>. HIDE DEF R
  <2>. QED  BY <1>1, WFMin
<1>3. \A y \in T : ~ (y < x)
  BY <1>2 DEF OpToRel
<1>. QED  BY <1>3

LEMMA Quotient ==
    ASSUME NEW a \in Nat, NEW d \in Nat \ {0}
    PROVE  /\ a \div d \in Nat
           /\ d * (a \div d) <= a
           /\ a < d * (a \div d) + d
  OBVIOUS

LEMMA ProductLeq ==
    ASSUME NEW a \in Nat, NEW x \in Nat, NEW y \in Nat, x <= y
    PROVE  a * x <= a * y
  OBVIOUS

LEMMA CancelLess ==
    ASSUME NEW d \in Nat \ {0}, NEW x \in Nat, NEW y \in Nat, d * x < d * y
    PROVE  x < y
<1>. SUFFICES ASSUME y <= x PROVE FALSE
  OBVIOUS
<1>1. d * y <= d * x
  BY ProductLeq
<1>. QED  BY <1>1

------------------------------------------------------------------------------
(* The level arrays.                                                       *)

Levels == [slots : [Level!Slot -> Hash \cup {Junk}], length : 0..LevelCap]

\* No hash is listed twice.
Apart(l) ==
    \A i, j \in Level!Slot :
        i < l.length /\ j < l.length /\ l.slots[i] = l.slots[j] => i = j

LevelsCorrected == Level!LevelStatements \subseteq Repaired

\* array_add lists a hash that is not listed yet, if there is room.
LEMMA AddIs ==
    ASSUME LevelsCorrected, NEW l \in Levels, Apart(l), NEW h \in Hash
    PROVE  /\ l.length >= LevelCap \/ h \in Level!Listed(l) =>
                  Level!array_add(l, h) = l
           /\ l.length < LevelCap /\ h \notin Level!Listed(l) =>
                  /\ Level!array_add(l, h) \in Levels
                  /\ Apart(Level!array_add(l, h))
                  /\ Level!Listed(Level!array_add(l, h)) = Level!Listed(l) \cup {h}
                  /\ Level!array_add(l, h).length = l.length + 1
<1>. DEFINE full == l.length >= LevelCap
            found == \E i \in Level!Slot : i < l.length /\ l.slots[i] = h
            m == [slots  |-> [i \in Level!Slot |-> IF i = l.length THEN h ELSE l.slots[i]],
                  length |-> l.length + 1]
<1>1. Level!array_add(l, h) = IF full \/ found THEN l ELSE m
  BY DEF LevelsCorrected, Level!LevelStatements, Level!array_add, Level!Overflows,
         Level!Looked, Level!Matches, Level!Stored
<1>2. found <=> h \in Level!Listed(l)
  BY DEF Level!Listed
<1>3. l.length \in Nat /\ LevelCap \in Nat
  BY AlgorithmsConstants DEF Levels
<1>4. ASSUME ~ full, ~ found
      PROVE  /\ m \in Levels /\ Apart(m) /\ m.length = l.length + 1
             /\ Level!Listed(m) = Level!Listed(l) \cup {h}
  <2>1. l.length \in Level!Slot
    BY <1>3, <1>4 DEF Level!Slot
  <2>2. m.slots \in [Level!Slot -> Hash \cup {Junk}] /\ m.length \in 0..LevelCap
    BY <1>3, <1>4 DEF Levels
  <2>3. \A i \in Level!Slot : m.slots[i] = IF i = l.length THEN h ELSE l.slots[i]
    OBVIOUS
  <2>4. \A i \in Level!Slot : i < m.length <=> i < l.length \/ i = l.length
    BY <1>3 DEF Level!Slot
  <2>5. Apart(m)
    BY <1>3, <1>4, <2>3, <2>4 DEF Apart, Level!Slot
  <2>6. Level!Listed(m) = Level!Listed(l) \cup {h}
    <3>1. ASSUME NEW x \in Level!Listed(m) PROVE x \in Level!Listed(l) \cup {h}
      BY <2>3, <2>4, <3>1 DEF Level!Listed
    <3>2. ASSUME NEW x \in Level!Listed(l) PROVE x \in Level!Listed(m)
      <4>1. PICK i \in Level!Slot : i < l.length /\ x = l.slots[i]
        BY <3>2 DEF Level!Listed
      <4>2. i # l.length
        BY <1>3, <4>1 DEF Level!Slot
      <4>3. i < m.length /\ m.slots[i] = x
        BY <2>3, <2>4, <4>1, <4>2
      <4>. HIDE DEF m
      <4>. QED  BY <4>3 DEF Level!Listed
    <3>3. h \in Level!Listed(m)
      <4>1. l.length < m.length /\ m.slots[l.length] = h
        BY <2>1, <2>3, <2>4
      <4>. HIDE DEF m
      <4>. QED  BY <2>1, <4>1 DEF Level!Listed
    <3>. QED  BY <3>1, <3>2, <3>3
  <2>. QED  BY <2>2, <2>5, <2>6 DEF Levels
<1>5. full <=> ~ l.length < LevelCap
  BY <1>3
<1>. HIDE DEF m, full, found
<1>. QED  BY <1>1, <1>2, <1>4, <1>5 DEF full

\* The loop of array_del, one slot.
DelStep(p, h, i) ==
    IF Level!Looked(p, i - 1) /\ Level!Matches(p.slots[i - 1], h)
    THEN Level!Without(p, i - 1) ELSE p

\* f is a run of that loop.
DelRun(f, l, h) ==
    f = [i \in 0..LevelCap |-> IF i = 0 THEN l ELSE DelStep(f[i - 1], h, i)]

\* There is only one.
LEMMA DelRunUnique ==
    ASSUME NEW l, NEW h, NEW f, DelRun(f, l, h), NEW g, DelRun(g, l, h)
    PROVE  f = g
<1>. DEFINE T == {i \in 0..LevelCap : f[i] # g[i]}
<1>1. f = [i \in 0..LevelCap |-> f[i]] /\ g = [i \in 0..LevelCap |-> g[i]]
  BY DEF DelRun
<1>2. \A i \in 0..LevelCap :
        /\ f[i] = IF i = 0 THEN l ELSE DelStep(f[i - 1], h, i)
        /\ g[i] = IF i = 0 THEN l ELSE DelStep(g[i - 1], h, i)
  BY DEF DelRun
<1>3. T = {}
  <2>. SUFFICES ASSUME T # {} PROVE FALSE
    OBVIOUS
  <2>1. PICK x \in T : \A y \in T : x <= y
    <3>1. T \subseteq Nat
      OBVIOUS
    <3>. HIDE DEF T
    <3>. QED  BY <3>1, LeastNumber
  <2>2. x \in 0..LevelCap /\ x # 0
    BY <1>2, <2>1
  <2>3. x - 1 \in 0..LevelCap /\ ~ x <= x - 1
    BY <2>2, AlgorithmsConstants
  <2>4. f[x - 1] = g[x - 1]
    BY <2>1, <2>3
  <2>. QED  BY <1>2, <2>1, <2>2, <2>4
<1>. QED  BY <1>1, <1>3

LEMMA DelRunIs ==
    ASSUME LevelsCorrected, NEW l, NEW h, NEW g, DelRun(g, l, h)
    PROVE  Level!array_del(l, h) = [g[LevelCap] EXCEPT !.length = @]
<1>. DEFINE f == CHOOSE f : DelRun(f, l, h)
<1>1. f = g
  BY DelRunUnique
<1>2. Level!array_del(l, h) = [f[LevelCap] EXCEPT !.length = Level!Stored(l, @)]
  BY Zenon DEF Level!array_del, DelRun, DelStep
<1>3. \A n : Level!Stored(l, n) = n
  BY DEF Level!Stored, LevelsCorrected, Level!LevelStatements
<1>. HIDE DEF f
<1>. QED  BY <1>1, <1>2, <1>3

\* The hash in slot j leaves a level.
LEMMA WithoutIs ==
    ASSUME NEW l \in Levels, Apart(l), NEW j \in Level!Slot, j < l.length
    PROVE  /\ Level!Without(l, j) \in Levels
           /\ Apart(Level!Without(l, j))
           /\ Level!Without(l, j).length = l.length - 1
           /\ \A i \in Level!Slot : i # j =>
                  Level!Without(l, j).slots[i] = l.slots[i]
           /\ Level!Listed(Level!Without(l, j)) = Level!Listed(l) \ {l.slots[j]}
<1>. DEFINE last == l.length - 1
            w == Level!Without(l, j)
<1>1. /\ l.length \in Nat /\ l.length <= LevelCap /\ LevelCap \in Nat
      /\ l.slots \in [Level!Slot -> Hash \cup {Junk}]
      /\ UIntCount \in Nat /\ LevelCap < UIntCount /\ j \in Nat
      /\ l = [slots |-> l.slots, length |-> l.length]
  BY AlgorithmsConstants DEF Levels, Level!Slot
<1>2. last \in Level!Slot /\ last \in Nat /\ last < UIntCount /\ j <= last
  BY <1>1 DEF Level!Slot
<1>3. last % UIntCount = last
  BY <1>1, <1>2
<1>4. w = [slots  |-> IF j # last THEN [l.slots EXCEPT ![j] = l.slots[last]]
                      ELSE l.slots,
           length |-> last]
  <2>1. j # last => l.length > 1
    BY <1>1, <1>2
  <2>. QED  BY <1>2, <1>3, <2>1 DEF Level!Without
<1>5. w.length = last
  BY <1>4
<1>6. \A i \in Level!Slot :
        w.slots[i] = IF i = j /\ j # last THEN l.slots[last] ELSE l.slots[i]
  BY <1>1, <1>4
<1>7. w \in Levels
  <2>1. w.slots \in [Level!Slot -> Hash \cup {Junk}]
    BY <1>1, <1>2, <1>4
  <2>. QED  BY <1>1, <1>2, <1>4, <2>1 DEF Levels, Level!Slot
<1>8. \A i \in Level!Slot : i < last <=> i < l.length /\ i # last
  BY <1>1, <1>2 DEF Level!Slot
<1>9. last < l.length
  BY <1>1
<1>. HIDE DEF w, last
<1>10. Apart(w)
  <2>. SUFFICES ASSUME NEW a \in Level!Slot, NEW b \in Level!Slot,
                       a < w.length, b < w.length, w.slots[a] = w.slots[b]
                PROVE  a = b
    BY DEF Apart
  <2>1. a < l.length /\ a # last /\ b < l.length /\ b # last
    BY <1>5, <1>8
  <2>2. \A c, d \in Level!Slot :
          c < l.length /\ d < l.length /\ l.slots[c] = l.slots[d] => c = d
    BY DEF Apart
  <2>3. CASE a = j /\ b # j
    BY <1>2, <1>6, <1>9, <2>1, <2>2, <2>3
  <2>4. CASE a # j /\ b = j
    BY <1>2, <1>6, <1>9, <2>1, <2>2, <2>4
  <2>5. CASE a # j /\ b # j
    BY <1>6, <2>1, <2>2, <2>5
  <2>. QED  BY <2>3, <2>4, <2>5
<1>11. ASSUME NEW x \in Level!Listed(w)
       PROVE  x \in Level!Listed(l) /\ x # l.slots[j]
  <2>1. PICK i \in Level!Slot : i < w.length /\ x = w.slots[i]
    BY <1>11 DEF Level!Listed
  <2>2. i < l.length /\ i # last
    BY <1>5, <1>8, <2>1
  <2>3. CASE i = j /\ j # last
    BY <1>2, <1>6, <1>9, <2>1, <2>3 DEF Level!Listed, Apart
  <2>4. CASE ~ (i = j /\ j # last)
    BY <1>6, <2>1, <2>2, <2>4 DEF Level!Listed, Apart
  <2>. QED  BY <2>3, <2>4
<1>12. ASSUME NEW x \in Level!Listed(l), x # l.slots[j]
       PROVE  x \in Level!Listed(w)
  <2>1. PICK i \in Level!Slot : i < l.length /\ x = l.slots[i]
    BY <1>12 DEF Level!Listed
  <2>2. i # j
    BY <1>12, <2>1
  <2>3. CASE i = last
    <3>1. j < w.length /\ w.slots[j] = x
      BY <1>5, <1>6, <1>8, <2>1, <2>2, <2>3
    <3>. QED  BY <3>1 DEF Level!Listed
  <2>4. CASE i # last
    <3>1. i < w.length /\ w.slots[i] = x
      BY <1>5, <1>6, <1>8, <2>1, <2>2, <2>4
    <3>. QED  BY <3>1 DEF Level!Listed
  <2>. QED  BY <2>3, <2>4
<1>13. Level!Listed(w) = Level!Listed(l) \ {l.slots[j]}
  BY <1>11, <1>12
<1>. QED  BY <1>5, <1>6, <1>7, <1>10, <1>13 DEF w, last

\* array_del takes the hash off the list, and nothing else.
LEMMA DelIs ==
    ASSUME LevelsCorrected, NEW l \in Levels, Apart(l), NEW h \in Hash
    PROVE  /\ Level!array_del(l, h) \in Levels
           /\ Apart(Level!array_del(l, h))
           /\ Level!Listed(Level!array_del(l, h)) = Level!Listed(l) \ {h}
           /\ Level!array_del(l, h).length =
                  IF h \in Level!Listed(l) THEN l.length - 1 ELSE l.length
<1>1. \A p, i : /\ Level!Looked(p, i) = (i < p.length)
                /\ Level!Matches(p.slots[i], h) = (p.slots[i] = h)
  BY DEF LevelsCorrected, Level!LevelStatements, Level!Looked, Level!Matches
<1>2. LevelCap \in Nat /\ l.length \in Nat
  BY AlgorithmsConstants DEF Levels
<1>3. \A i \in 0..LevelCap : i # 0 => i - 1 \in Level!Slot /\ i - 1 \in 0..LevelCap
  BY <1>2 DEF Level!Slot
<1>4. \A m \in Levels : [m EXCEPT !.length = @] = m
  BY DEF Levels
<1>5. CASE h \notin Level!Listed(l)
  <2>. DEFINE g == [i \in 0..LevelCap |-> l]
  <2>1. \A i \in Level!Slot : ~ (i < l.length /\ l.slots[i] = h)
    BY <1>5 DEF Level!Listed
  <2>2. \A i \in 0..LevelCap : i # 0 => DelStep(l, h, i) = l
    BY <1>1, <1>3, <2>1 DEF DelStep
  <2>3. DelRun(g, l, h)
    BY <1>3, <2>2 DEF DelRun
  <2>4. g[LevelCap] = l
    BY <1>2
  <2>. HIDE DEF g
  <2>5. Level!array_del(l, h) = l
    BY <1>4, <2>3, <2>4, DelRunIs
  <2>. QED  BY <1>5, <2>5
<1>6. CASE h \in Level!Listed(l)
  <2>1. PICK j \in Level!Slot : j < l.length /\ l.slots[j] = h
    BY <1>6 DEF Level!Listed
  <2>. DEFINE w == Level!Without(l, j)
              g == [i \in 0..LevelCap |-> IF i <= j THEN l ELSE w]
  <2>2. /\ w \in Levels /\ Apart(w) /\ w.length = l.length - 1
        /\ \A i \in Level!Slot : i # j => w.slots[i] = l.slots[i]
        /\ Level!Listed(w) = Level!Listed(l) \ {h}
    BY <2>1, WithoutIs
  <2>. HIDE DEF w
  <2>3. j \in Nat /\ j < LevelCap
    BY <1>2 DEF Level!Slot
  <2>4. ASSUME NEW i \in 0..LevelCap
        PROVE  g[i] = IF i = 0 THEN l ELSE DelStep(g[i - 1], h, i)
    <3>1. CASE i = 0
      BY <2>3, <3>1
    <3>2. CASE i # 0 /\ i <= j
      <4>1. i - 1 \in Level!Slot /\ g[i - 1] = l /\ i - 1 # j /\ g[i] = l
        BY <1>3, <2>3, <3>2
      <4>2. ~ (i - 1 < l.length /\ l.slots[i - 1] = h)
        BY <2>1, <4>1 DEF Apart
      <4>3. DelStep(l, h, i) = l
        BY <1>1, <4>2 DEF DelStep
      <4>. QED  BY <3>2, <4>1, <4>3
    <3>3. CASE i = j + 1
      <4>1. g[i - 1] = l /\ g[i] = w /\ i - 1 = j
        <5>1. i - 1 = j /\ j <= j /\ ~ i <= j /\ j \in 0..LevelCap
          BY <1>2, <2>3, <3>3
        <5>2. g[j] = l /\ g[i] = w
          BY <5>1
        <5>. QED  BY <5>1, <5>2
      <4>2. DelStep(l, h, i) = w
        <5>1. Level!Looked(l, j) /\ Level!Matches(l.slots[j], h)
          BY <1>1, <2>1
        <5>. QED  BY <4>1, <5>1, Zenon DEF DelStep, w
      <4>. QED  BY <2>3, <3>3, <4>1, <4>2
    <3>4. CASE i > j + 1
      <4>1. /\ i - 1 \in Level!Slot /\ i - 1 # j /\ i # 0
            /\ g[i - 1] = w /\ g[i] = w
        BY <1>3, <2>3, <3>4
      <4>2. ~ (i - 1 < w.length /\ w.slots[i - 1] = h)
        <5>1. i - 1 < w.length => i - 1 < l.length
          BY <1>2, <2>2, <4>1 DEF Level!Slot
        <5>. QED  BY <2>1, <2>2, <4>1, <5>1 DEF Apart
      <4>3. DelStep(w, h, i) = w
        BY <1>1, <4>2 DEF DelStep
      <4>. QED  BY <4>1, <4>3
    <3>. QED  BY <2>3, <3>1, <3>2, <3>3, <3>4
  <2>5. DelRun(g, l, h)
    <3>1. g = [i \in 0..LevelCap |-> g[i]]
      OBVIOUS
    <3>. HIDE DEF g
    <3>. QED  BY <2>4, <3>1 DEF DelRun
  <2>6. g[LevelCap] = w
    BY <1>2, <2>3
  <2>. HIDE DEF g
  <2>7. Level!array_del(l, h) = w
    BY <1>4, <2>2, <2>5, <2>6, DelRunIs
  <2>. QED  BY <1>6, <2>2, <2>7
<1>. QED  BY <1>5, <1>6

\* The level is the set beside it.
LevelInv ==
    /\ level \in Levels
    /\ Apart(level)
    /\ Level!Listed(level) = listed
    /\ IsFiniteSet(listed)
    /\ level.length = Cardinality(listed)

LEMMA LevelInit ==
    ASSUME LevelsCorrected, Init
    PROVE  LevelInv
<1>1. level = [slots |-> [i \in Level!Slot |-> Junk], length |-> 0]
  BY DEF Init, Level!NewLevels, LevelsCorrected, Level!LevelStatements
<1>2. level \in Levels /\ level.length = 0
  BY <1>1, AlgorithmsConstants DEF Levels
<1>3. \A i \in Level!Slot : ~ i < level.length
  BY <1>2 DEF Level!Slot
<1>4. Level!Listed(level) = {} /\ Apart(level)
  BY <1>3 DEF Level!Listed, Apart
<1>. QED  BY <1>2, <1>4, FS_EmptySet DEF Init, LevelInv

LEMMA LevelStep ==
    ASSUME LevelsCorrected, LevelInv, [Next]_vars
    PROVE  LevelInv'
<1>. USE DEF LevelInv
<1>1. LevelCap \in Nat /\ level.length \in Nat /\ Cardinality(listed) \in Nat
  BY AlgorithmsConstants DEF Levels
<1>2. ASSUME NEW h \in Hash, AddHash(h)
      PROVE  LevelInv'
  <2>1. CASE level.length >= LevelCap
    <3>1. level' = level /\ listed' = listed
      BY <1>1, <1>2, <2>1, AddIs DEF AddHash
    <3>. QED  BY <3>1
  <2>2. CASE h \in listed
    <3>1. level' = level /\ listed' = listed
      BY <1>2, <2>2, AddIs DEF AddHash
    <3>. QED  BY <3>1
  <2>3. CASE level.length < LevelCap /\ h \notin listed
    <3>1. /\ level' \in Levels /\ Apart(level')
          /\ Level!Listed(level') = listed \cup {h}
          /\ level'.length = level.length + 1
          /\ listed' = listed \cup {h}
      BY <1>2, <2>3, AddIs DEF AddHash
    <3>2. IsFiniteSet(listed') /\ Cardinality(listed') = Cardinality(listed) + 1
      BY <2>3, <3>1, FS_AddElement
    <3>. QED  BY <3>1, <3>2
  <2>. QED  BY <1>1, <2>1, <2>2, <2>3
<1>3. ASSUME NEW h \in Hash, DelHash(h)
      PROVE  LevelInv'
  <2>1. /\ level' \in Levels /\ Apart(level')
        /\ Level!Listed(level') = listed \ {h}
        /\ level'.length = IF h \in listed THEN level.length - 1 ELSE level.length
        /\ listed' = listed \ {h}
    BY <1>3, DelIs DEF DelHash
  <2>2. /\ IsFiniteSet(listed')
        /\ Cardinality(listed') =
               IF h \in listed THEN Cardinality(listed) - 1 ELSE Cardinality(listed)
    BY <2>1, FS_RemoveElement
  <2>. QED  BY <2>1, <2>2
<1>4. CASE UNCHANGED <<level, listed>>
  BY <1>4
<1>. QED
  BY <1>2, <1>3, <1>4
  DEF Next, CallTrace, CallMult, CallCompare, CallHex, Return, Called, vars

\* For any hashes and any capacity, once its five statements are corrected, a
\* level of limbo is the capped set Ledger takes it for after any sequence of
\* array_add and array_del: each hash is listed once, none is lost when the
\* last moves into a hole while array_del iterates, and the length counts them.
THEOREM LevelsAreCappedSets ==
    ASSUME LevelsCorrected
    PROVE  Spec => []LevelIsCappedSet
<1>1. Init => LevelInv
  BY LevelInit
<1>2. LevelInv /\ [Next]_vars => LevelInv'
  BY LevelStep
<1>3. LevelInv => LevelIsCappedSet
  BY DEF LevelInv, LevelIsCappedSet
<1>. QED  BY <1>1, <1>2, <1>3, PTL DEF Spec

------------------------------------------------------------------------------
(* The trace of a branch.                                                  *)

TraceCorrected == Trace!TraceStatements \subseteq Repaired

LEMMA BranchTyped ==
    ASSUME NEW c \in Branches
    PROVE  /\ c.start \in Nat /\ c.height \in Nat /\ c.fork \in Nat
           /\ c.check \in BOOLEAN
  BY DEF Branches

\* The loop of valid_connectable_to_chain at block j, when the blocks below
\* answer `below`.
TraceAt(c, j, below) ==
    IF j \in c.missing THEN 0
    ELSE IF c.check /\ j \in c.invalid THEN -1
    ELSE IF c.fork + j + REASONABLE_CONFIRMATIONS <= c.height THEN 0
    ELSE IF j = 0 THEN 1 ELSE below

\* f is a run of it.
TraceRun(f, c) ==
    f = [j \in 0..c.start |->
            CASE j \in c.missing -> IF "missing_block" \in Repaired THEN 0
                                                                    ELSE Trace!Never
              [] j \notin c.missing /\ Trace!Refused(c, j) -> Trace!RefusedAnswer
              [] OTHER -> IF ~ Trace!Recent(c, c.fork + j) THEN 0
                          ELSE IF j = 0 THEN 1 ELSE f[j - 1]]

LEMMA TraceRunIs ==
    ASSUME TraceCorrected, NEW c \in Branches, NEW f
    PROVE  TraceRun(f, c) <=> f = [j \in 0..c.start |-> TraceAt(c, j, f[j - 1])]
<1>1. \A j : Trace!Refused(c, j) <=> c.check /\ j \in c.invalid
  BY BranchTyped DEF TraceCorrected, Trace!TraceStatements, Trace!Refused
<1>2. Trace!RefusedAnswer = -1 /\ "missing_block" \in Repaired
  BY DEF TraceCorrected, Trace!TraceStatements, Trace!RefusedAnswer
<1>3. \A j \in 0..c.start :
        Trace!Recent(c, c.fork + j) <=>
            ~ c.fork + j + REASONABLE_CONFIRMATIONS <= c.height
  BY BranchTyped, AlgorithmsConstants
  DEF TraceCorrected, Trace!TraceStatements, Trace!Recent
<1>4. \A j \in 0..c.start :
        TraceAt(c, j, f[j - 1]) =
            CASE j \in c.missing -> IF "missing_block" \in Repaired THEN 0
                                                                    ELSE Trace!Never
              [] j \notin c.missing /\ Trace!Refused(c, j) -> Trace!RefusedAnswer
              [] OTHER -> IF ~ Trace!Recent(c, c.fork + j) THEN 0
                          ELSE IF j = 0 THEN 1 ELSE f[j - 1]
  BY <1>1, <1>2, <1>3 DEF TraceAt
<1>. QED  BY <1>4 DEF TraceRun

LEMMA TraceRunUnique ==
    ASSUME TraceCorrected, NEW c \in Branches,
           NEW f, TraceRun(f, c), NEW g, TraceRun(g, c)
    PROVE  f = g
<1>. DEFINE T == {j \in 0..c.start : f[j] # g[j]}
<1>1. /\ f = [j \in 0..c.start |-> TraceAt(c, j, f[j - 1])]
      /\ g = [j \in 0..c.start |-> TraceAt(c, j, g[j - 1])]
  BY TraceRunIs
<1>2. f = [j \in 0..c.start |-> f[j]] /\ g = [j \in 0..c.start |-> g[j]]
  BY <1>1
<1>3. T = {}
  <2>. SUFFICES ASSUME T # {} PROVE FALSE
    OBVIOUS
  <2>1. PICK x \in T : \A y \in T : x <= y
    <3>1. T \subseteq Nat
      OBVIOUS
    <3>. HIDE DEF T
    <3>. QED  BY <3>1, LeastNumber
  <2>2. f[x] = TraceAt(c, x, f[x - 1]) /\ g[x] = TraceAt(c, x, g[x - 1])
    BY <1>1, <2>1
  <2>3. x # 0
    BY <2>1, <2>2 DEF TraceAt
  <2>4. x - 1 \in 0..c.start /\ ~ x <= x - 1
    BY <2>1, <2>3, BranchTyped
  <2>5. f[x - 1] = g[x - 1]
    BY <2>1, <2>4
  <2>. QED  BY <2>1, <2>2, <2>5
<1>. QED  BY <1>2, <1>3

\* The blocks up to j that end a trace, and the answer of the highest.
StopsTo(c, j) == {k \in 0..j : \/ k \in c.missing \/ Trace!Old(c, k)
                               \/ c.check /\ k \in c.invalid}
ConnectsTo(c, j) ==
    IF StopsTo(c, j) = {} THEN 1
    ELSE LET first == CHOOSE k \in StopsTo(c, j) : \A i \in StopsTo(c, j) : i <= k
         IN  IF c.check /\ first \in c.invalid \ c.missing THEN -1 ELSE 0

\* Block by block, the loop computes that answer.
LEMMA ConnectsStep ==
    ASSUME NEW c \in Branches, NEW j \in 0..c.start
    PROVE  ConnectsTo(c, j) = TraceAt(c, j, ConnectsTo(c, j - 1))
<1>. DEFINE stop == \/ j \in c.missing \/ Trace!Old(c, j)
                    \/ c.check /\ j \in c.invalid
<1>1. j \in Nat /\ c.check \in BOOLEAN
  BY BranchTyped
<1>2. Trace!Old(c, j) <=> c.fork + j + REASONABLE_CONFIRMATIONS <= c.height
  BY <1>1, BranchTyped, AlgorithmsConstants DEF Trace!Old
<1>3. CASE stop
  <2>1. j \in StopsTo(c, j) /\ \A i \in StopsTo(c, j) : i <= j /\ i \in Nat
    <3>1. j \in 0..j /\ \A i \in 0..j : i <= j /\ i \in Nat
      BY <1>1
    <3>. QED  BY <1>3, <3>1, Zenon DEF StopsTo
  <2>2. (CHOOSE k \in StopsTo(c, j) : \A i \in StopsTo(c, j) : i <= k) = j
    <3>. DEFINE S == StopsTo(c, j)
                m == CHOOSE k \in S : \A i \in S : i <= k
    <3>1. m \in S /\ \A i \in S : i <= m
      BY <2>1
    <3>. HIDE DEF m, S
    <3>2. m <= j /\ j <= m /\ m \in Nat
      BY <2>1, <3>1 DEF S
    <3>3. m = j
      BY <1>1, <3>2
    <3>. QED  BY <3>3 DEF m, S
  <2>3. ConnectsTo(c, j) = IF c.check /\ j \in c.invalid \ c.missing THEN -1 ELSE 0
    BY <2>1, <2>2, Zenon DEF ConnectsTo
  <2>. QED  BY <1>2, <1>3, <2>3 DEF TraceAt
<1>4. CASE ~ stop /\ j = 0
  <2>1. StopsTo(c, j) = {}
    BY <1>4 DEF StopsTo
  <2>. QED  BY <1>2, <1>4, <2>1 DEF ConnectsTo, TraceAt
<1>5. CASE ~ stop /\ j # 0
  <2>1. \A k : k \in 0..j <=> k \in 0..(j - 1) \/ k = j
    BY <1>1, <1>5
  <2>2. StopsTo(c, j) = StopsTo(c, j - 1)
    BY <1>5, <2>1 DEF StopsTo
  <2>3. ConnectsTo(c, j) = ConnectsTo(c, j - 1)
    BY <2>2 DEF ConnectsTo
  <2>. QED  BY <1>2, <1>5, <2>3 DEF TraceAt
<1>. QED  BY <1>3, <1>4, <1>5

LEMMA TraceIs ==
    ASSUME TraceCorrected, NEW c \in Branches
    PROVE  Trace!valid_connectable_to_chain(c) = Trace!Connects(c)
<1>. DEFINE f == CHOOSE f : TraceRun(f, c)
            g == [j \in 0..c.start |-> ConnectsTo(c, j)]
<1>1. TraceRun(g, c)
  <2>1. ASSUME NEW j \in 0..c.start
        PROVE  g[j] = TraceAt(c, j, g[j - 1])
    <3>1. CASE j = 0
      BY <3>1, ConnectsStep DEF TraceAt
    <3>2. CASE j # 0
      <4>1. j - 1 \in 0..c.start
        BY <3>2, BranchTyped
      <4>. QED  BY <4>1, ConnectsStep
    <3>. QED  BY <3>1, <3>2
  <2>2. g = [j \in 0..c.start |-> g[j]]
    OBVIOUS
  <2>. HIDE DEF g
  <2>3. g = [j \in 0..c.start |-> TraceAt(c, j, g[j - 1])]
    BY <2>1, <2>2
  <2>. QED  BY <2>3, TraceRunIs
<1>2. f = g
  <2>. HIDE DEF g
  <2>1. TraceRun(f, c)
    BY <1>1
  <2>. HIDE DEF f
  <2>. QED  BY <1>1, <2>1, TraceRunUnique
<1>3. Trace!valid_connectable_to_chain(c) = f[c.start]
  BY Zenon DEF Trace!valid_connectable_to_chain, TraceRun
<1>4. g[c.start] = ConnectsTo(c, c.start)
  BY BranchTyped
<1>5. ConnectsTo(c, c.start) = Trace!Connects(c)
  <2>1. StopsTo(c, c.start) = Trace!Stops(c)
    BY Zenon DEF StopsTo, Trace!Stops
  <2>. QED  BY <2>1, Zenon DEF ConnectsTo, Trace!Connects
<1>. HIDE DEF f, g
<1>. QED  BY <1>2, <1>3, <1>4, <1>5

TraceCalled ==
    call.op = "trace" =>
        /\ call.arg \in Branches
        /\ call.ret = Trace!valid_connectable_to_chain(call.arg)

\* For chains of any height and branches of any length, once its three
\* statements are corrected, valid_connectable_to_chain answers what
\* validation.h says of the highest block that ends the trace, also while the
\* chain is lower than REASONABLE_CONFIRMATIONS.
THEOREM TracesAnswer ==
    ASSUME TraceCorrected
    PROVE  Spec => []TraceAnswers
<1>1. Init => TraceCalled
  BY DEF Init, NoCall, TraceCalled
<1>2. ASSUME TraceCalled, [Next]_vars
      PROVE  TraceCalled'
  <2>1. CASE \E c \in Branches : CallTrace(c)
    BY <2>1 DEF CallTrace, Called, TraceCalled
  <2>2. CASE \/ \E h \in Hash : AddHash(h) \/ DelHash(h)
             \/ \E m, n \in 1..MaxDigits, past \in Big!Byte : CallMult(m, n, past)
             \/ \E n \in 1..MaxDigits : CallCompare(n)
             \/ \E b \in 0..255 : CallHex(b)
             \/ Return
    <3>1. call'.op # "trace"
      BY <2>2 DEF AddHash, DelHash, CallMult, CallCompare, CallHex, Return,
                  Called, NoCall
    <3>. QED  BY <3>1 DEF TraceCalled
  <2>3. CASE UNCHANGED vars
    <3>1. call' = call
      BY <2>3 DEF vars
    <3>. QED  BY <1>2, <3>1, Zenon DEF TraceCalled
  <2>. QED  BY <1>2, <2>1, <2>2, <2>3 DEF Next
<1>3. TraceCalled => TraceAnswers
  BY TraceIs DEF TraceCalled, TraceAnswers
<1>. QED  BY <1>1, <1>2, <1>3, PTL DEF Spec

------------------------------------------------------------------------------
(* Functions that are defined by recursion.                                *)

\* f starts with s and takes a step of F at each of the first n numbers.
Steps(f, s, F, n) == f[0] = s /\ \A i \in Nat : i < n => f[i + 1] = F[i][f[i]]
Runs(f, s, F) == f[0] = s /\ \A i \in Nat : f[i + 1] = F[i][f[i]]

\* Two functions that take the same steps agree on what they reach.
LEMMA StepsAgree ==
    ASSUME NEW s, NEW F, NEW n \in Nat, NEW f, NEW g,
           Steps(f, s, F, n), Steps(g, s, F, n)
    PROVE  \A i \in 0..n : f[i] = g[i]
<1>. DEFINE T == {i \in 0..n : f[i] # g[i]}
<1>. SUFFICES ASSUME T # {} PROVE FALSE
  OBVIOUS
<1>1. PICK x \in T : \A y \in T : x <= y
  <2>1. T \subseteq Nat
    OBVIOUS
  <2>. HIDE DEF T
  <2>. QED  BY <2>1, LeastNumber
<1>2. x # 0
  BY <1>1 DEF Steps
<1>3. x - 1 \in Nat /\ x - 1 < n /\ (x - 1) + 1 = x /\ x - 1 \in 0..n /\ ~ x <= x - 1
  BY <1>1, <1>2
<1>4. f[x - 1] = g[x - 1]
  BY <1>1, <1>3
<1>5. f[x] = F[x - 1][f[x - 1]] /\ g[x] = F[x - 1][g[x - 1]]
  BY <1>3 DEF Steps
<1>. QED  BY <1>1, <1>4, <1>5

\* Any number of steps can be taken.
LEMMA StepsExist ==
    ASSUME NEW S, NEW s \in S, NEW F \in [Nat -> [S -> S]], NEW n \in Nat
    PROVE  \E f \in [Nat -> S] : Steps(f, s, F, n)
<1>. DEFINE T == {m \in Nat : ~ \E f \in [Nat -> S] : Steps(f, s, F, m)}
<1>. SUFFICES ASSUME T # {} PROVE FALSE
  OBVIOUS
<1>1. PICK x \in T : \A y \in T : x <= y
  <2>1. T \subseteq Nat
    OBVIOUS
  <2>. HIDE DEF T
  <2>. QED  BY <2>1, LeastNumber
<1>2. x # 0
  <2>1. [m \in Nat |-> s] \in [Nat -> S] /\ Steps([m \in Nat |-> s], s, F, 0)
    BY DEF Steps
  <2>. QED  BY <1>1, <2>1
<1>3. x \in Nat /\ x - 1 \in Nat /\ ~ x <= x - 1
  BY <1>1, <1>2
<1>4. PICK f \in [Nat -> S] : Steps(f, s, F, x - 1)
  BY <1>1, <1>3
<1>. DEFINE g == [f EXCEPT ![x] = F[x - 1][f[x - 1]]]
<1>5. F[x - 1][f[x - 1]] \in S
  BY <1>3, <1>4
<1>6. g \in [Nat -> S] /\ g[x] = F[x - 1][f[x - 1]] /\ \A i \in Nat : i # x => g[i] = f[i]
  BY <1>3, <1>5
<1>. HIDE DEF g
<1>7. g[0] = s
  BY <1>2, <1>3, <1>4, <1>6 DEF Steps
<1>8. ASSUME NEW i \in Nat, i < x
      PROVE  g[i + 1] = F[i][g[i]]
  <2>1. g[i] = f[i]
    BY <1>3, <1>6, <1>8
  <2>2. CASE i = x - 1
    BY <1>3, <1>6, <2>1, <2>2
  <2>3. CASE i # x - 1
    <3>1. i < x - 1 /\ i + 1 # x /\ i + 1 \in Nat
      BY <1>3, <1>8, <2>3
    <3>2. f[i + 1] = F[i][f[i]]
      BY <1>4, <3>1 DEF Steps
    <3>. QED  BY <1>6, <2>1, <3>1, <3>2
  <2>. QED  BY <2>2, <2>3
<1>9. Steps(g, s, F, x)
  BY <1>7, <1>8 DEF Steps
<1>. QED  BY <1>1, <1>6, <1>9

\* The recursion has a solution.
LEMMA Recursion ==
    ASSUME NEW S, NEW s \in S, NEW F \in [Nat -> [S -> S]]
    PROVE  \E f \in [Nat -> S] : Runs(f, s, F)
<1>. DEFINE run(n) == CHOOSE f \in [Nat -> S] : Steps(f, s, F, n)
            g == [n \in Nat |-> run(n)[n]]
<1>1. ASSUME NEW n \in Nat PROVE run(n) \in [Nat -> S] /\ Steps(run(n), s, F, n)
  BY StepsExist
<1>. HIDE DEF run
<1>2. g \in [Nat -> S]
  BY <1>1
<1>3. g[0] = s
  BY <1>1 DEF Steps
<1>4. ASSUME NEW i \in Nat PROVE g[i + 1] = F[i][g[i]]
  <2>1. Steps(run(i + 1), s, F, i)
    BY <1>1 DEF Steps
  <2>2. run(i + 1)[i] = run(i)[i]
    <3>1. Steps(run(i), s, F, i) /\ i \in 0..i
      BY <1>1
    <3>. QED  BY <2>1, <3>1, StepsAgree
  <2>3. run(i + 1)[i + 1] = F[i][run(i + 1)[i]]
    BY <1>1 DEF Steps
  <2>. QED  BY <2>2, <2>3
<1>. QED  BY <1>2, <1>3, <1>4 DEF Runs

------------------------------------------------------------------------------
(* Powers of the radix.                                                    *)

\* P holds the powers of the radix.
Geometric(P) ==
    /\ P \in [Nat -> Nat \ {0}]
    /\ P[0] = 1
    /\ \A n \in Nat : P[n + 1] = Radix * P[n]

\* p is defined by the recursion of Place.
PowerRun(p) == p = [n \in Nat |-> IF n = 0 THEN 1 ELSE Radix * p[n - 1]]

\* The recursive definition of the powers of the radix has a solution, and
\* every solution has the values the recursion names.
LEMMA PowersExist ==
    ASSUME Radix \in Nat \ {0}
    PROVE  /\ \E p : PowerRun(p)
           /\ \A p : PowerRun(p) => Geometric(p)
<1>. DEFINE S == Nat \ {0}
            F == [i \in Nat |-> [x \in S |-> Radix * x]]
<1>1. F \in [Nat -> [S -> S]]
  <2>1. \A a \in S : Radix * a \in S
    OBVIOUS
  <2>. QED  BY <2>1
<1>2. PICK f \in [Nat -> S] : Runs(f, 1, F)
  <2>1. 1 \in S
    OBVIOUS
  <2>. HIDE DEF S, F
  <2>. QED  BY <1>1, <2>1, Recursion
<1>3. f[0] = 1 /\ \A i \in Nat : f[i + 1] = Radix * f[i]
  BY <1>2 DEF Runs
<1>4. PowerRun(f)
  <2>1. \A n \in Nat : f[n] = IF n = 0 THEN 1 ELSE Radix * f[n - 1]
    BY <1>2, <1>3
  <2>. QED  BY <1>2, <2>1 DEF PowerRun
<1>5. ASSUME NEW p, PowerRun(p) PROVE Geometric(p)
  <2>1. p[0] = 1 /\ \A n \in Nat : p[n + 1] = Radix * p[n]
    <3>1. \A n \in Nat : p[n] = IF n = 0 THEN 1 ELSE Radix * p[n - 1]
      BY <1>5 DEF PowerRun
    <3>2. p[0] = 1
      BY <3>1
    <3>3. ASSUME NEW n \in Nat PROVE p[n + 1] = Radix * p[n]
      <4>1. n + 1 \in Nat /\ n + 1 # 0 /\ (n + 1) - 1 = n
        OBVIOUS
      <4>. QED  BY <3>1, <4>1
    <3>. QED  BY <3>2, <3>3
  <2>2. \A n \in Nat : p[n] \in S
    <3>. DEFINE T == {n \in Nat : p[n] \notin S}
    <3>. SUFFICES ASSUME T # {} PROVE FALSE
      OBVIOUS
    <3>1. PICK x \in T : \A y \in T : x <= y
      <4>1. T \subseteq Nat
        OBVIOUS
      <4>. HIDE DEF T
      <4>. QED  BY <4>1, LeastNumber
    <3>2. x \in Nat /\ x # 0
      BY <2>1, <3>1
    <3>3. x - 1 \in Nat /\ (x - 1) + 1 = x /\ ~ x <= x - 1
      BY <3>2
    <3>4. p[x - 1] \in S
      BY <3>1, <3>3
    <3>5. p[x] = Radix * p[x - 1]
      BY <2>1, <3>3
    <3>. QED  BY <3>1, <3>4, <3>5
  <2>3. p \in [Nat -> S]
    <3>1. p = [n \in Nat |-> p[n]]
      BY <1>5 DEF PowerRun
    <3>. QED  BY <2>2, <3>1
  <2>. QED  BY <2>1, <2>3 DEF Geometric
<1>. QED  BY <1>4, <1>5

\* Powers multiply as their exponents add.
LEMMA PowerSum ==
    ASSUME Radix \in Nat \ {0}, NEW P, Geometric(P), NEW a \in Nat, NEW b \in Nat
    PROVE  P[a + b] = P[a] * P[b]
<1>. DEFINE T == {n \in Nat : P[a + n] # P[a] * P[n]}
<1>. SUFFICES ASSUME T # {} PROVE FALSE
  OBVIOUS
<1>1. PICK x \in T : \A y \in T : x <= y
  <2>1. T \subseteq Nat
    OBVIOUS
  <2>. HIDE DEF T
  <2>. QED  BY <2>1, LeastNumber
<1>2. P[a] \in Nat /\ P[0] = 1 /\ a + 0 = a
  BY DEF Geometric
<1>3. x \in Nat /\ x # 0
  BY <1>1, <1>2
<1>4. x - 1 \in Nat /\ (x - 1) + 1 = x /\ ~ x <= x - 1 /\ (a + (x - 1)) + 1 = a + x
      /\ a + (x - 1) \in Nat
  BY <1>3
<1>5. P[a + (x - 1)] = P[a] * P[x - 1]
  BY <1>1, <1>4
<1>6. P[a + x] = Radix * P[a + (x - 1)] /\ P[x] = Radix * P[x - 1] /\ P[x - 1] \in Nat
  BY <1>4 DEF Geometric
<1>7. Radix * (P[a] * P[x - 1]) = P[a] * (Radix * P[x - 1])
  BY <1>2, <1>6
<1>. QED  BY <1>1, <1>5, <1>6, <1>7

------------------------------------------------------------------------------
(* Digits.                                                                 *)

\* What a quotient is known by.
LEMMA QuotientIs ==
    ASSUME NEW n \in Nat, NEW d \in Nat \ {0}, NEW q \in Nat,
           d * q <= n, n < d * q + d
    PROVE  n \div d = q
<1>. DEFINE p == n \div d
<1>1. p \in Nat /\ d * p <= n /\ n < d * p + d
  BY Quotient
<1>. HIDE DEF p
<1>2. d * (p + 1) = d * p + d /\ d * (q + 1) = d * q + d
  BY <1>1
<1>3. d * p < d * (q + 1) /\ d * q < d * (p + 1)
  BY <1>1, <1>2
<1>4. p < q + 1 /\ q < p + 1
  BY <1>1, <1>3, CancelLess
<1>. QED  BY <1>1, <1>4 DEF p

\* A multiple of the divisor comes out of a quotient,
LEMMA QuotientPlus ==
    ASSUME NEW n \in Nat, NEW d \in Nat \ {0}, NEW h \in Nat
    PROVE  (d * h + n) \div d = h + n \div d
<1>. DEFINE p == n \div d
<1>1. p \in Nat /\ d * p <= n /\ n < d * p + d
  BY Quotient
<1>. HIDE DEF p
<1>2. d * (h + p) = d * h + d * p /\ d * h \in Nat /\ h + p \in Nat
  BY <1>1
<1>3. d * (h + p) <= d * h + n /\ d * h + n < d * (h + p) + d
  BY <1>1, <1>2
<1>4. d * h + n \in Nat
  BY <1>2
<1>. QED  BY <1>2, <1>3, <1>4, QuotientIs DEF p

\* and leaves no remainder.
LEMMA RemainderPlus ==
    ASSUME NEW n \in Nat, NEW d \in Nat \ {0}, NEW h \in Nat
    PROVE  (d * h + n) % d = n % d
<1>. DEFINE p == n \div d
            m == d * h + n
<1>1. p \in Nat /\ m \in Nat
  BY Quotient
<1>2. n % d = n - d * p
  OBVIOUS
<1>3. m % d = m - d * (m \div d)
  <2>. HIDE DEF m
  <2>. QED  BY <1>1
<1>4. m \div d = h + p
  BY QuotientPlus
<1>5. d * (h + p) = d * h + d * p /\ d * h \in Nat /\ d * p \in Nat
  <2>. HIDE DEF p
  <2>. QED  BY <1>1
<1>6. m % d = m - d * (h + p)
  BY <1>3, <1>4
<1>7. m - d * (h + p) = n - d * p
  <2>. HIDE DEF p
  <2>. QED  BY <1>1, <1>5
<1>. QED  BY <1>2, <1>6, <1>7

\* The upper digits of a number in two words are those of the high word,
LEMMA HighDigits ==
    ASSUME NEW w \in Nat \ {0}, NEW p \in Nat \ {0}, NEW high \in Nat, NEW low \in Nat, low < w,
           NEW n, NEW d, n = high * w + low, d = w * p
    PROVE  n \div d = high \div p
<1>. DEFINE q == high \div p
<1>1. q \in Nat /\ p * q <= high /\ high < p * q + p
  BY Quotient
<1>. HIDE DEF q
<1>2. n \in Nat /\ d \in Nat \ {0}
  OBVIOUS
<1>3. w * (p * q) <= w * high /\ w * (p * q) = d * q /\ w * high = high * w
  <2>1. p * q \in Nat
    BY <1>1
  <2>2. w * (p * q) <= w * high
    BY <1>1, <2>1, ProductLeq
  <2>3. w * (p * q) = d * q
    BY <1>1
  <2>4. w * high = high * w
    OBVIOUS
  <2>. QED  BY <2>2, <2>3, <2>4
<1>4. w * (high + 1) <= w * (p * q + p) /\ w * (p * q + p) = d * q + d
      /\ w * (high + 1) = high * w + w
  <2>1. p * q + p \in Nat /\ high + 1 <= p * q + p
    BY <1>1
  <2>2. w * (high + 1) <= w * (p * q + p)
    BY <2>1, ProductLeq
  <2>3. w * (p * q + p) = d * q + d
    BY <1>1
  <2>4. w * (high + 1) = high * w + w
    OBVIOUS
  <2>. QED  BY <2>2, <2>3, <2>4
<1>5. d * q <= n /\ n < d * q + d
  <2>1. d * q \in Nat /\ high * w \in Nat
    BY <1>1, <1>2
  <2>. QED  BY <1>2, <1>3, <1>4, <2>1
<1>6. n \div d = q
  BY <1>1, <1>2, <1>5, QuotientIs
<1>. QED  BY <1>6 DEF q

DigitAt(n, q, r) == (n \div q) % r
TwoWords(n, high, w, low) == n = high * w + low
Parts(w, q, r, p) == w = q * (r * p)

\* and the lower ones those of the low word.
LEMMA LowDigits ==
    ASSUME NEW r \in Nat \ {0}, NEW p \in Nat, NEW q \in Nat \ {0}, NEW high \in Nat, NEW low \in Nat,
           NEW w, Parts(w, q, r, p), NEW n, TwoWords(n, high, w, low)
    PROVE  DigitAt(n, q, r) = DigitAt(low, q, r)
<1>1. high * (q * (r * p)) = q * (high * (r * p)) /\ high * (r * p) = r * (high * p)
  OBVIOUS
<1>2. high * (r * p) \in Nat /\ high * p \in Nat /\ low \div q \in Nat
  BY Quotient
<1>3. (high * (q * (r * p)) + low) \div q = high * (r * p) + low \div q
  <2>. DEFINE h == high * (r * p)
  <2>1. (q * h + low) \div q = h + low \div q
    <3>. HIDE DEF h
    <3>1. h \in Nat
      BY <1>2 DEF h
    <3>. QED  BY <3>1, QuotientPlus
  <2>. QED  BY <1>1, <2>1
<1>4. (r * (high * p) + low \div q) % r = (low \div q) % r
  <2>. DEFINE h == high * p
              l == low \div q
  <2>1. h \in Nat /\ l \in Nat
    BY <1>2
  <2>. HIDE DEF h, l
  <2>2. (r * h + l) % r = l % r
    BY <2>1, RemainderPlus
  <2>. QED  BY <2>2 DEF h, l
<1>5. n \div q = r * (high * p) + low \div q
  BY <1>1, <1>3 DEF Parts, TwoWords
<1>. QED  BY <1>4, <1>5 DEF DigitAt

\* What a remainder is known by.
LEMMA RemainderIs ==
    ASSUME NEW a \in Int, NEW d \in Nat \ {0}, NEW q \in Int, NEW r \in 0..(d - 1), a = d * q + r
    PROVE  a % d = r
<1>. DEFINE p == a \div d
            s == a % d
<1>1. p \in Int /\ s \in 0..(d - 1) /\ a = d * p + s
  OBVIOUS
<1>. HIDE DEF p, s
<1>2. ~ (p + 1 <= q)
  <2>. SUFFICES ASSUME p + 1 <= q PROVE FALSE
    OBVIOUS
  <2>1. d * (q - p) >= d
    BY <1>1
  <2>2. d * (q - p) = d * q - d * p
    BY <1>1
  <2>3. d * q \in Int /\ d * p \in Int
    BY <1>1
  <2>. QED  BY <1>1, <2>1, <2>2, <2>3
<1>3. ~ (q + 1 <= p)
  <2>. SUFFICES ASSUME q + 1 <= p PROVE FALSE
    OBVIOUS
  <2>1. d * (p - q) >= d
    BY <1>1
  <2>2. d * (p - q) = d * p - d * q
    BY <1>1
  <2>3. d * q \in Int /\ d * p \in Int
    BY <1>1
  <2>. QED  BY <1>1, <2>1, <2>2, <2>3
<1>4. p = q
  BY <1>1, <1>2, <1>3
<1>5. d * q \in Int
  OBVIOUS
<1>6. s = r
  BY <1>1, <1>4, <1>5
<1>. QED  BY <1>6 DEF s

------------------------------------------------------------------------------
(* The streaming of sha256.                                                *)

\* What the sizes of sha256 give each other.
LEMMA ShaSizes ==
    /\ BlockLen \in Nat \ {0} /\ WordBytes \in Nat \ {0} /\ Bits \in Nat \ {0}
    /\ Radix \in Nat \ {0, 1} /\ MaxLen \in Nat
    /\ LengthAt \in Nat \ {0} /\ BlockLen = LengthAt + 2 * WordBytes
    /\ Geometric(Place)
    /\ Word = Place[WordBytes] /\ Word \in Nat \ {0}
    /\ BlockLen * Bits < Word /\ MaxLen * Bits < Word * Word
    /\ Stop \in Byte /\ 0 \in Byte /\ Data \subseteq Byte
<1>1. /\ BlockLen \in Nat /\ WordBytes \in Nat \ {0} /\ Bits \in Nat \ {0}
      /\ Radix \in Nat \ {0, 1} /\ MaxLen \in Nat
  BY Sha256Constants
<1>2. Geometric(Place)
  <2>1. PowerRun(Place)
    <3>1. \E p : PowerRun(p)
      BY <1>1, PowersExist
    <3>2. PowerRun(CHOOSE p : PowerRun(p))
      BY <3>1
    <3>3. Place = CHOOSE p : PowerRun(p)
      BY DEF Place, PowerRun
    <3>. QED  BY <3>2, <3>3
  <2>. QED  BY <1>1, <2>1, PowersExist
<1>3. Word = Place[WordBytes] /\ Word \in Nat \ {0}
  BY <1>1, <1>2 DEF Geometric, Word
<1>4. LengthAt \in Nat \ {0} /\ BlockLen = LengthAt + 2 * WordBytes
  BY <1>1, Sha256Constants DEF LengthAt
<1>5. BlockLen # 0
  BY <1>1, <1>4
<1>6. BlockLen * Bits < Word /\ MaxLen * Bits < Word * Word
  BY Sha256Constants
<1>7. Stop \in Byte
  BY <1>1 DEF Stop, Byte
<1>8. 0 \in Byte /\ Data \subseteq Byte
  BY <1>1, Sha256Constants DEF Byte
<1>. QED  BY <1>1, <1>2, <1>3, <1>4, <1>5, <1>6, <1>7, <1>8

\* Two words, the low one first.
WordPair == (0..(Word - 1)) \X (0..(Word - 1))

\* The number that two words hold.
Count(n) == n[2] * Word + n[1]

\* DBL_INT_ADD adds: the carry reaches the high word, and is not lost there
\* while the sum fits the two words.
LEMMA CarryAdds ==
    ASSUME NEW n \in WordPair, NEW c \in Nat, c < Word,
           Count(n) + c < Word * Word
    PROVE  /\ DBL_INT_ADD(n, c) \in WordPair
           /\ Count(DBL_INT_ADD(n, c)) = Count(n) + c
<1>. DEFINE w == Word
            lo == n[1]
            hi == n[2]
<1>1. w \in Nat \ {0}
  BY ShaSizes
<1>2. lo \in 0..(w - 1) /\ hi \in 0..(w - 1)
  BY DEF WordPair
<1>3. c < w /\ hi * w + lo + c < w * w
  BY DEF Count
<1>4. DBL_INT_ADD(n, c) =
        <<(lo + c) % w, IF lo > w - 1 - c THEN (hi + 1) % w ELSE hi>>
  BY DEF DBL_INT_ADD
<1>. HIDE DEF w, lo, hi
<1>5. CASE lo > w - 1 - c
  <2>1. (lo + c) % w = lo + c - w /\ lo + c - w \in 0..(w - 1)
    <3>1. lo + c = w * 1 + (lo + c - w) /\ lo + c - w \in 0..(w - 1) /\ lo + c \in Int
      BY <1>1, <1>2, <1>3, <1>5
    <3>. QED  BY <1>1, <3>1, RemainderIs
  <2>2. hi * w \in Nat /\ (hi + 1) * w = hi * w + w
    BY <1>1, <1>2
  <2>3. w * (hi + 1) < w * w
    <3>1. w * (hi + 1) = hi * w + w
      BY <1>1, <1>2
    <3>2. w * w \in Nat
      BY <1>1
    <3>. QED  BY <1>1, <1>2, <1>3, <1>5, <2>2, <3>1, <3>2
  <2>4. hi + 1 < w
    BY <1>1, <1>2, <2>3, CancelLess
  <2>5. (hi + 1) % w = hi + 1
    <3>1. w * 0 = 0
      BY <1>1
    <3>2. hi + 1 = w * 0 + (hi + 1) /\ hi + 1 \in 0..(w - 1) /\ hi + 1 \in Int
      BY <1>1, <1>2, <2>4, <3>1
    <3>. QED  BY <1>1, <3>2, RemainderIs
  <2>6. DBL_INT_ADD(n, c) = <<lo + c - w, hi + 1>>
    BY <1>4, <1>5, <2>1, <2>5
  <2>7. (hi + 1) * w + (lo + c - w) = hi * w + lo + c
    BY <1>1, <1>2, <2>2
  <2>. QED  BY <1>1, <1>2, <2>1, <2>4, <2>6, <2>7 DEF WordPair, Count, w, lo, hi
<1>6. CASE ~ (lo > w - 1 - c)
  <2>1. (lo + c) % w = lo + c /\ lo + c \in 0..(w - 1)
    <3>1. w * 0 = 0
      BY <1>1
    <3>2. lo + c = w * 0 + (lo + c) /\ lo + c \in 0..(w - 1) /\ lo + c \in Int
      BY <1>1, <1>2, <1>3, <1>6, <3>1
    <3>. QED  BY <1>1, <3>2, RemainderIs
  <2>2. DBL_INT_ADD(n, c) = <<lo + c, hi>>
    BY <1>4, <1>6, <2>1
  <2>3. hi * w + (lo + c) = hi * w + lo + c
    <3>1. hi * w \in Nat
      BY <1>1, <1>2
    <3>. QED  BY <1>2, <3>1
  <2>. QED  BY <1>1, <1>2, <2>1, <2>2, <2>3 DEF WordPair, Count, w, lo, hi
<1>. QED  BY <1>5, <1>6

\* The length field holds the digits of the high word, then of the low one.
LEMMA LengthDigits ==
    ASSUME NEW n \in WordPair, NEW j \in 1..(2 * WordBytes)
    PROVE  LengthField(Count(n))[j] =
             IF j <= WordBytes THEN Digit(n[2], j - 1)
             ELSE Digit(n[1], j - 1 - WordBytes)
<1>. DEFINE w == Word
            P == Place
            lo == n[1]
            hi == n[2]
            e == 2 * WordBytes - j
<1>1. /\ WordBytes \in Nat \ {0} /\ Radix \in Nat \ {0} /\ Geometric(P)
      /\ w = P[WordBytes] /\ w \in Nat \ {0}
  BY ShaSizes
<1>2. lo \in Nat /\ hi \in Nat /\ lo < w
  BY <1>1 DEF WordPair
<1>3. LengthField(Count(n))[j] = ((hi * w + lo) \div P[e]) % Radix
  BY DEF LengthField, Count
<1>. HIDE DEF w, P, lo, hi
<1>4. CASE j <= WordBytes
  <2>1. WordBytes - j \in Nat /\ e = WordBytes + (WordBytes - j)
    BY <1>1, <1>4
  <2>2. P[e] = w * P[WordBytes - j] /\ P[WordBytes - j] \in Nat \ {0}
    <3>1. P[WordBytes + (WordBytes - j)] = P[WordBytes] * P[WordBytes - j]
      BY <1>1, <2>1, PowerSum
    <3>. QED  BY <1>1, <2>1, <3>1 DEF Geometric
  <2>3. (hi * w + lo) \div P[e] = hi \div P[WordBytes - j]
    <3>. DEFINE p == P[WordBytes - j]
    <3>. HIDE DEF p
    <3>1. w \in Nat \ {0} /\ p \in Nat \ {0} /\ hi \in Nat /\ lo \in Nat /\ lo < w
      BY <1>1, <1>2, <2>2 DEF p
    <3>. DEFINE m == hi * w + lo
                d == P[e]
    <3>2. m = hi * w + lo /\ d = w * p
      BY <2>2 DEF p
    <3>. HIDE DEF m, d
    <3>3. m \div d = hi \div p
      BY <3>1, <3>2, HighDigits
    <3>. QED  BY <3>3 DEF p, m, d
  <2>4. WordBytes - 1 - (j - 1) = WordBytes - j
    BY <1>1
  <2>5. Digit(n[2], j - 1) = (hi \div P[WordBytes - j]) % Radix
    BY <2>4 DEF Digit, P, hi
  <2>. QED  BY <1>3, <1>4, <2>3, <2>5
<1>5. CASE ~ (j <= WordBytes)
  <2>. DEFINE f == j - WordBytes - 1
  <2>1. e \in Nat /\ f \in Nat /\ f + 1 \in Nat /\ WordBytes = e + (f + 1)
    BY <1>1, <1>5
  <2>2. w = P[e] * P[f + 1] /\ P[f + 1] = Radix * P[f] /\ P[e] \in Nat \ {0} /\ P[f] \in Nat
    <3>. HIDE DEF e, f
    <3>1. P[e + (f + 1)] = P[e] * P[f + 1]
      BY <1>1, <2>1, PowerSum
    <3>. QED  BY <1>1, <2>1, <3>1 DEF Geometric
  <2>3. ((hi * w + lo) \div P[e]) % Radix = (lo \div P[e]) % Radix
    <3>1. w = P[e] * (Radix * P[f])
      BY <2>2
    <3>. DEFINE p == P[f]
                q == P[e]
    <3>. HIDE DEF e, f, p, q
    <3>2. p \in Nat /\ q \in Nat \ {0} /\ hi \in Nat /\ lo \in Nat /\ Radix \in Nat \ {0}
      BY <1>1, <1>2, <2>2 DEF p, q
    <3>. DEFINE m == hi * w + lo
    <3>3. TwoWords(m, hi, w, lo) /\ Parts(w, q, Radix, p)
      BY <3>1 DEF TwoWords, Parts, p, q
    <3>. HIDE DEF m
    <3>4. DigitAt(m, q, Radix) = DigitAt(lo, q, Radix)
      BY <3>2, <3>3, LowDigits
    <3>. QED  BY <3>4 DEF DigitAt, m, q
  <2>4. WordBytes - 1 - (j - 1 - WordBytes) = e
    BY <1>1
  <2>5. Digit(n[1], j - 1 - WordBytes) = (lo \div P[e]) % Radix
    BY <2>4 DEF Digit, P, lo
  <2>. QED  BY <1>3, <1>5, <2>3, <2>5
<1>. QED  BY <1>4, <1>5

\* A sequence of n bytes.
ByteString(s, n) == s \in Seq(Byte) /\ Len(s) = n

\* A function on the first numbers is a string of bytes.
LEMMA BytesOf ==
    ASSUME NEW n \in Nat, NEW f \in [1..n -> Byte]
    PROVE  ByteString(f, n)
<1>1. f \in Seq(Byte)
  BY SeqDef
<1>2. Len(f) = n
  BY <1>1
<1>. QED  BY <1>1, <1>2 DEF ByteString

\* c is n bytes of a followed by m bytes of b.
Joined(c, a, n, b, m) ==
    /\ ByteString(c, n + m)
    /\ \A i \in 1..(n + m) : c[i] = IF i <= n THEN a[i] ELSE b[i - n]

\* What a concatenation consists of.
LEMMA BytesJoin ==
    ASSUME NEW a, NEW b, NEW n \in Nat, NEW m \in Nat, ByteString(a, n), ByteString(b, m)
    PROVE  Joined(a \o b, a, n, b, m)
<1>. USE DEF ByteString
<1>1. a \o b \in Seq(Byte) /\ Len(a \o b) = n + m
  BY ConcatProperties
<1>2. \A i \in 1..(n + m) : (a \o b)[i] = IF i <= n THEN a[i] ELSE b[i - n]
  BY ConcatProperties
<1>. QED  BY <1>1, <1>2 DEF Joined

\* Strings with the same bytes are the same.
LEMMA BytesSame ==
    ASSUME NEW a, NEW b, NEW n \in Nat, ByteString(a, n), ByteString(b, n), \A i \in 1..n : a[i] = b[i]
    PROVE  a = b
  BY SeqEqual DEF ByteString

\* A digit is a byte.
LEMMA DigitByte ==
    ASSUME NEW n \in Nat, NEW q \in Nat \ {0}
    PROVE  DigitAt(n, q, Radix) \in Byte
<1>1. Radix \in Nat \ {0} /\ n \div q \in Nat
  BY ShaSizes, Quotient
<1>. QED  BY <1>1 DEF DigitAt, Byte

\* The padding, byte by byte.
PadByte(m, z, i) ==
    IF i <= Len(m) THEN m[i]
    ELSE IF i = Len(m) + 1 THEN Stop
    ELSE IF i <= Len(m) + 1 + z THEN 0
    ELSE LengthField(Len(m) * Bits)[i - (Len(m) + 1 + z)]

\* s is m padded with z zeros.
PaddedBy(s, m, z) ==
    /\ ByteString(s, Len(m) + 1 + z + 2 * WordBytes)
    /\ \A i \in 1..(Len(m) + 1 + z + 2 * WordBytes) : s[i] = PadByte(m, z, i)

\* The padding of a message consists of these bytes.
LEMMA PaddingBytes ==
    ASSUME NEW m \in Seq(Byte), NEW z \in Nat,
           (LengthAt - 1 - Len(m)) % BlockLen = z
    PROVE  PaddedBy(Padding(m), m, z)
<1>. DEFINE l == Len(m)
            w == 2 * WordBytes
            S == <<Stop>>
            Z == Zeros(z)
            F == LengthField(Len(m) * Bits)
            a == m \o S
            b == a \o Z
            c == b \o F
<1>1. l \in Nat /\ w \in Nat
  BY ShaSizes
<1>2. ByteString(m, l)
  BY DEF ByteString
<1>3. ByteString(S, 1) /\ S[1] = Stop
  BY ShaSizes DEF ByteString
<1>4. ByteString(Z, z) /\ \A i \in 1..z : Z[i] = 0
  <2>1. Z \in [1..z -> Byte]
    BY ShaSizes DEF Zeros
  <2>2. \A i \in 1..z : Z[i] = 0
    BY DEF Zeros
  <2>. HIDE DEF Z
  <2>. QED  BY <2>1, <2>2, BytesOf
<1>5. ByteString(F, w)
  <2>1. F \in [1..w -> Byte]
    <3>1. ASSUME NEW i \in 1..w PROVE DigitAt(l * Bits, Place[w - i], Radix) \in Byte
      <4>1. l * Bits \in Nat /\ w - i \in Nat
        BY <1>1, ShaSizes
      <4>2. Place[w - i] \in Nat \ {0}
        BY <4>1, ShaSizes DEF Geometric
      <4>. HIDE DEF l, w
      <4>. QED  BY <4>1, <4>2, DigitByte
    <3>2. F = [i \in 1..w |-> DigitAt(l * Bits, Place[w - i], Radix)]
      BY DEF LengthField, DigitAt
    <3>. HIDE DEF F, l, w
    <3>. QED  BY <3>1, <3>2
  <2>. HIDE DEF F, w
  <2>. QED  BY <1>1, <2>1, BytesOf
<1>6. Padding(m) = c
  BY DEF Padding
<1>. HIDE DEF l, w, S, Z, F
<1>7. ByteString(a, l + 1) /\ \A i \in 1..(l + 1) : a[i] = IF i <= l THEN m[i] ELSE S[i - l]
  <2>1. Joined(a, m, l, S, 1)
    BY <1>1, <1>2, <1>3, BytesJoin
  <2>. QED  BY <2>1 DEF Joined
<1>. HIDE DEF a
<1>8. ByteString(b, l + 1 + z) /\ \A i \in 1..(l + 1 + z) : b[i] = IF i <= l + 1 THEN a[i] ELSE Z[i - (l + 1)]
  <2>1. Joined(b, a, l + 1, Z, z)
    BY <1>1, <1>4, <1>7, BytesJoin
  <2>. QED  BY <2>1 DEF Joined
<1>. HIDE DEF b
<1>9. /\ ByteString(c, l + 1 + z + w)
      /\ \A i \in 1..(l + 1 + z + w) : c[i] = IF i <= l + 1 + z THEN b[i] ELSE F[i - (l + 1 + z)]
  <2>1. Joined(c, b, l + 1 + z, F, w)
    BY <1>1, <1>5, <1>8, BytesJoin
  <2>. QED  BY <2>1 DEF Joined
<1>. HIDE DEF c
<1>10. ASSUME NEW i \in 1..(l + 1 + z + w)
       PROVE  c[i] = IF i <= l THEN m[i] ELSE IF i = l + 1 THEN Stop
                     ELSE IF i <= l + 1 + z THEN 0 ELSE F[i - (l + 1 + z)]
  <2>1. CASE i <= l
    BY <1>1, <1>7, <1>8, <1>9, <2>1
  <2>2. CASE i = l + 1
    BY <1>1, <1>3, <1>7, <1>8, <1>9, <2>2
  <2>3. CASE i > l + 1 /\ i <= l + 1 + z
    BY <1>1, <1>4, <1>8, <1>9, <2>3
  <2>4. CASE i > l + 1 + z
    BY <1>1, <1>9, <2>4
  <2>. QED  BY <1>1, <2>1, <2>2, <2>3, <2>4
<1>. QED  BY <1>6, <1>9, <1>10 DEF PaddedBy, PadByte, l, w, F

\* t is n bytes of h and then the bytes of the buffer d.
Filled(t, h, n, d) ==
    /\ ByteString(t, n + BlockLen)
    /\ \A i \in 1..(n + BlockLen) : t[i] = IF i <= n THEN h[i] ELSE d[i - n - 1]

\* sha256_transform is given the buffer after what it has had.
LEMMA BlockBytes ==
    ASSUME NEW d \in [Cells -> Byte], NEW h, NEW n \in Nat, ByteString(h, n)
    PROVE  Filled(sha256_transform(h, d), h, n, d)
<1>1. BlockLen \in Nat
  BY ShaSizes
<1>. DEFINE o == InOrder(d)
<1>2. o \in [1..BlockLen -> Byte] /\ \A i \in 1..BlockLen : o[i] = d[i - 1]
  BY <1>1 DEF InOrder, Cells
<1>3. sha256_transform(h, d) = h \o o
  BY DEF sha256_transform
<1>. HIDE DEF o
<1>4. ByteString(o, BlockLen)
  BY <1>1, <1>2, BytesOf
<1>5. ByteString(h \o o, n + BlockLen)
      /\ \A i \in 1..(n + BlockLen) : (h \o o)[i] = IF i <= n THEN h[i] ELSE o[i - n]
  <2>1. Joined(h \o o, h, n, o, BlockLen)
    BY <1>1, <1>4, BytesJoin
  <2>. QED  BY <2>1 DEF Joined
<1>6. ASSUME NEW i \in 1..(n + BlockLen), ~ (i <= n) PROVE o[i - n] = d[i - n - 1]
  BY <1>1, <1>2, <1>6
<1>. QED  BY <1>3, <1>5, <1>6 DEF Filled

\* Before sha256_final: full blocks of the message have been hashed, the rest
\* is in the buffer, and the words count the bits of what was hashed.
Streaming ==
    /\ \E k \in Nat : Len(hashed) = BlockLen * k
    /\ Len(message) = Len(hashed) + datalen
    /\ \A i \in 1..Len(hashed) : hashed[i] = message[i]
    /\ \A i \in 0..(datalen - 1) : data[i] = message[Len(hashed) + i + 1]
    /\ Count(bitlen) = Len(hashed) * Bits

\* The inductive invariant.
ShaInv ==
    /\ TypeOK
    /\ Len(message) <= MaxLen
    /\ pc = "open" => Streaming
    /\ pc = "done" => hashed = Padding(message)

\* What the types say of the state.
LEMMA ShaTypes ==
    ASSUME TypeOK
    PROVE  /\ datalen \in 0..(BlockLen - 1) /\ bitlen \in WordPair
           /\ data \in [Cells -> Byte]
           /\ hashed \in Seq(Byte) /\ message \in Seq(Data) /\ message \in Seq(Byte)
           /\ Len(hashed) \in Nat /\ Len(message) \in Nat
<1>1. datalen \in 0..(BlockLen - 1) /\ bitlen \in WordPair /\ data \in [Cells -> Byte]
      /\ hashed \in Seq(Byte) /\ message \in Seq(Data)
  BY DEF TypeOK, Cells, WordPair
<1>2. message \in Seq(Byte)
  BY <1>1, ShaSizes, SeqMonotonic
<1>3. Len(hashed) \in Nat /\ Len(message) \in Nat
  BY <1>1
<1>. QED  BY <1>1, <1>2, <1>3

\* The words count a further n bytes when they have counted h.
LEMMA BitsAdd ==
    ASSUME NEW p \in WordPair, NEW h \in Nat, NEW n \in 0..BlockLen,
           Count(p) = h * Bits, h + n <= MaxLen
    PROVE  /\ DBL_INT_ADD(p, n * Bits) \in WordPair
           /\ Count(DBL_INT_ADD(p, n * Bits)) = (h + n) * Bits
<1>1. Bits \in Nat /\ BlockLen \in Nat /\ MaxLen \in Nat /\ n \in Nat
  BY ShaSizes
<1>2. n * Bits \in Nat /\ n * Bits <= BlockLen * Bits /\ BlockLen * Bits \in Nat
  <2>1. Bits * n <= Bits * BlockLen
    BY <1>1, ProductLeq
  <2>. QED  BY <1>1, <2>1
<1>3. n * Bits < Word
  BY <1>2, ShaSizes
<1>4. (h + n) * Bits = h * Bits + n * Bits /\ (h + n) * Bits <= MaxLen * Bits
      /\ (h + n) * Bits \in Nat /\ MaxLen * Bits \in Nat
  <2>1. Bits * (h + n) <= Bits * MaxLen
    BY <1>1, ProductLeq
  <2>. QED  BY <1>1, <2>1
<1>5. Count(p) + n * Bits < Word * Word
  <2>1. Word * Word \in Nat
    BY ShaSizes
  <2>. QED  BY <1>4, <2>1, ShaSizes
<1>. DEFINE c == n * Bits
<1>6. c \in Nat /\ c < Word /\ Count(p) + c < Word * Word
      /\ Count(p) + c = (h + n) * Bits
  BY <1>2, <1>3, <1>4, <1>5
<1>. HIDE DEF c
<1>7. DBL_INT_ADD(p, c) \in WordPair /\ Count(DBL_INT_ADD(p, c)) = Count(p) + c
  BY <1>6, CarryAdds
<1>. QED  BY <1>6, <1>7 DEF c

\* A new context satisfies the invariant.
LEMMA ShaInit ==
    ASSUME ContextInit
    PROVE  ShaInv
<1>1. BlockLen \in Nat \ {0} /\ Word \in Nat \ {0} /\ Radix \in Nat \ {0, 1} /\ MaxLen \in Nat
  BY ShaSizes
<1>2. Radix - 1 \in Byte /\ 0 \in Cells
  BY <1>1 DEF Byte, Cells
<1>3. <<0, 0>> \in (0..(Word - 1)) \X (0..(Word - 1))
  BY <1>1
<1>4. TypeOK
  BY <1>2, <1>3 DEF ContextInit, TypeOK
<1>. QED  BY <1>1, <1>4 DEF ContextInit, ShaInv

\* sha256_init starts a message, whatever the context was used for.
LEMMA ShaInitAgain ==
    ASSUME ShaInv, sha256_init
    PROVE  ShaInv'
<1>1. BlockLen \in Nat \ {0} /\ Word \in Nat \ {0} /\ Bits \in Nat \ {0} /\ MaxLen \in Nat
  BY ShaSizes
<1>2. 0 \in Cells /\ <<0, 0>> \in (0..(Word - 1)) \X (0..(Word - 1))
  BY <1>1 DEF Cells
<1>3. TypeOK'
  BY <1>2 DEF ShaInv, sha256_init, TypeOK
<1>4. datalen' = 0 /\ bitlen' = <<0, 0>> /\ hashed' = <<>> /\ message' = <<>> /\ pc' = "open"
  BY DEF sha256_init
<1>5. Streaming'
  <2>1. Len(hashed') = 0 /\ Len(message') = 0 /\ BlockLen * 0 = 0 /\ 0 * Bits = 0
    BY <1>1, <1>4
  <2>2. Count(bitlen') = 0
    BY <1>1, <1>4 DEF Count
  <2>. QED  BY <1>4, <2>1, <2>2 DEF Streaming
<1>. QED  BY <1>1, <1>3, <1>4, <1>5 DEF ShaInv

\* sha256_update keeps the stream.
LEMMA ShaUpdate ==
    ASSUME ShaInv, NEW b \in Data, sha256_update(b)
    PROVE  ShaInv'
<1>. DEFINE h == Len(hashed)
            B == BlockLen
            l == Len(message)
<1>1. /\ B \in Nat \ {0} /\ Bits \in Nat \ {0} /\ MaxLen \in Nat
      /\ b \in Byte
  BY ShaSizes
<1>2. TypeOK /\ Streaming /\ pc = "open"
  BY DEF ShaInv, sha256_update
<1>3. /\ datalen \in 0..(B - 1) /\ bitlen \in WordPair /\ data \in [Cells -> Byte]
      /\ hashed \in Seq(Byte) /\ message \in Seq(Data)
      /\ h \in Nat /\ l \in Nat
  BY <1>2, ShaTypes
<1>4. /\ message' = Append(message, b) /\ l < MaxLen /\ pc' = pc
      /\ data' = [data EXCEPT ![datalen] = b]
  BY DEF sha256_update
<1>5. message' \in Seq(Data) /\ Len(message') = l + 1 /\ message'[l + 1] = b
      /\ \A i \in 1..l : message'[i] = message[i]
  BY <1>3, <1>4
<1>6. data' \in [Cells -> Byte] /\ data'[datalen] = b
      /\ \A i \in 0..(B - 1) : i # datalen => data'[i] = data[i]
  BY <1>1, <1>3, <1>4 DEF Cells
<1>7. l = h + datalen /\ (\A i \in 1..h : hashed[i] = message[i])
      /\ (\A i \in 0..(datalen - 1) : data[i] = message[h + i + 1])
      /\ Count(bitlen) = h * Bits
  BY <1>2 DEF Streaming
<1>. HIDE DEF h, B, l
<1>8. h \in Nat /\ l \in Nat /\ datalen \in Nat /\ datalen <= B - 1 /\ B \in Nat
       /\ l = h + datalen /\ l < MaxLen /\ Len(message') = l + 1
  BY <1>1, <1>3, <1>4, <1>5, <1>7
<1>9. CASE BlockFull
  <2>1. datalen + 1 = B
    BY <1>9 DEF BlockFull, B
  <2>2. hashed' = sha256_transform(hashed, data')
        /\ bitlen' = DBL_INT_ADD(bitlen, B * Bits) /\ datalen' = 0
    BY <1>9 DEF sha256_update, B
  <2>3. Filled(hashed', hashed, h, data')
    <3>1. ByteString(hashed, h)
      BY <1>3 DEF ByteString, h
    <3>. QED  BY <1>3, <1>6, <2>2, <3>1, BlockBytes
  <2>4. hashed' \in Seq(Byte) /\ Len(hashed') = h + B
        /\ \A i \in 1..(h + B) : hashed'[i] = IF i <= h THEN hashed[i] ELSE data'[i - h - 1]
    BY <2>3 DEF Filled, ByteString, B
  <2>5. ASSUME NEW i \in 1..(h + B) PROVE hashed'[i] = message'[i]
    <3>1. CASE i <= h
      <4>1. i \in 1..h /\ i \in 1..l
        BY <1>8, <3>1
      <4>2. hashed'[i] = hashed[i]
        BY <2>4, <3>1
      <4>. QED  BY <1>5, <1>7, <4>1, <4>2
    <3>2. CASE i = h + B
      <4>1. i = l + 1 /\ i - h - 1 = datalen /\ ~ (i <= h)
        BY <1>8, <2>1, <3>2
      <4>. QED  BY <1>5, <1>6, <2>4, <4>1
    <3>3. CASE i > h /\ i # h + B
      <4>. DEFINE j == i - h - 1
      <4>1. j \in 0..(B - 1) /\ j \in 0..(datalen - 1) /\ j # datalen /\ h + j + 1 = i /\ i \in 1..l
        BY <1>8, <2>1, <3>3
      <4>2. hashed'[i] = data'[j]
        BY <1>3, <2>4, <3>3
      <4>. HIDE DEF j
      <4>. QED  BY <1>5, <1>6, <1>7, <4>1, <4>2
    <3>. QED  BY <1>1, <1>3, <3>1, <3>2, <3>3
  <2>6. bitlen' \in WordPair /\ Count(bitlen') = (h + B) * Bits
    <3>1. h + B <= MaxLen /\ B \in 0..BlockLen
      BY <1>1, <1>3, <1>4, <1>7, <2>1 DEF B
    <3>. QED  BY <1>3, <1>7, <2>2, <3>1, BitsAdd
  <2>7. \E k \in Nat : Len(hashed') = BlockLen * k
    <3>1. PICK k \in Nat : h = BlockLen * k
      BY <1>2 DEF Streaming, h
    <3>2. BlockLen * (k + 1) = BlockLen * k + BlockLen /\ k + 1 \in Nat
      BY <1>1, <3>1 DEF B
    <3>. QED  BY <2>4, <3>1, <3>2 DEF B
  <2>8. Len(message') = Len(hashed') + datalen' /\ Len(message') <= MaxLen
    <3>1. Len(hashed') = h + B /\ datalen' = 0 /\ datalen + 1 = B
      BY <2>1, <2>2, <2>4
    <3>. QED  BY <1>1, <1>8, <3>1
  <2>9. 0 \in Cells
    BY <1>1 DEF Cells, B
  <2>10. TypeOK'
    BY <1>2, <1>4, <1>5, <1>6, <2>2, <2>4, <2>6, <2>9 DEF TypeOK, WordPair
  <2>11. Streaming'
    <3>1. \A i \in 1..Len(hashed') : hashed'[i] = message'[i]
      BY <2>4, <2>5
    <3>2. \A i \in 0..(datalen' - 1) : data'[i] = message'[Len(hashed') + i + 1]
      BY <2>2
    <3>3. Count(bitlen') = Len(hashed') * Bits
      BY <2>4, <2>6
    <3>. QED  BY <2>7, <2>8, <3>1, <3>2, <3>3 DEF Streaming
  <2>. QED  BY <1>2, <1>4, <2>8, <2>10, <2>11 DEF ShaInv
<1>10. CASE ~ BlockFull
  <2>1. datalen + 1 # B
    BY <1>10 DEF BlockFull, B
  <2>2. hashed' = hashed /\ bitlen' = bitlen /\ datalen' = datalen + 1
    BY <1>10 DEF sha256_update
  <2>3. datalen + 1 \in Cells
    BY <1>1, <1>3, <2>1 DEF Cells, B
  <2>4. TypeOK'
    BY <1>2, <1>4, <1>5, <1>6, <2>2, <2>3 DEF TypeOK
  <2>5. Len(message') = Len(hashed') + datalen' /\ Len(message') <= MaxLen
    BY <1>1, <1>3, <1>4, <1>5, <1>7, <2>2 DEF h
  <2>6. ASSUME NEW i \in 1..Len(hashed') PROVE hashed'[i] = message'[i]
    <3>1. i \in 1..h /\ i \in 1..l
      BY <1>3, <1>7, <2>2, <2>6 DEF h
    <3>. QED  BY <1>5, <1>7, <2>2, <3>1
  <2>7. ASSUME NEW i \in 0..(datalen' - 1) PROVE data'[i] = message'[Len(hashed') + i + 1]
    <3>1. Len(hashed') = h
      BY <2>2 DEF h
    <3>2. CASE i = datalen
      <4>1. h + i + 1 = l + 1
        BY <1>3, <1>7, <3>2
      <4>. QED  BY <1>5, <1>6, <3>1, <3>2, <4>1
    <3>3. CASE i # datalen
      <4>1. i \in 0..(datalen - 1) /\ i \in 0..(B - 1) /\ h + i + 1 \in 1..l
        <5>1. datalen' = datalen + 1
          BY <2>2
        <5>. QED  BY <1>8, <2>7, <3>3, <5>1
      <4>. QED  BY <1>5, <1>6, <1>7, <3>1, <3>3, <4>1
    <3>. QED  BY <3>2, <3>3
  <2>8. (\E k \in Nat : Len(hashed') = BlockLen * k) /\ Count(bitlen') = Len(hashed') * Bits
    BY <1>2, <2>2 DEF Streaming
  <2>9. Streaming'
    BY <2>5, <2>6, <2>7, <2>8 DEF Streaming
  <2>. QED  BY <1>2, <1>4, <2>4, <2>5, <2>9 DEF ShaInv
<1>. QED  BY <1>9, <1>10

\* The number of zeros that fill the block.
LEMMA ZerosFill ==
    ASSUME NEW k \in Nat, NEW d \in 0..(BlockLen - 1), NEW l,
           l = BlockLen * k + d
    PROVE  (LengthAt - 1 - l) % BlockLen =
             IF d < LengthAt THEN LengthAt - 1 - d ELSE BlockLen + LengthAt - 1 - d
<1>. DEFINE L == LengthAt
            B == BlockLen
            a == L - 1 - l
<1>1. B \in Nat \ {0} /\ L \in Nat \ {0} /\ L <= B
  BY ShaSizes
<1>2. B * k \in Int /\ a \in Int /\ l = B * k + d /\ d \in 0..(B - 1)
  BY <1>1
<1>3. B * (0 - k) = 0 - B * k /\ B * ((0 - k) - 1) = (0 - B * k) - B
  BY <1>1
<1>4. a = L - 1 - (B * k + d)
  BY <1>2
<1>. HIDE DEF L, B, a
<1>5. CASE d < L
  <2>1. L - 1 - d \in 0..(B - 1) /\ 0 - k \in Int /\ a = B * (0 - k) + (L - 1 - d)
    BY <1>1, <1>2, <1>3, <1>4, <1>5
  <2>2. a % B = L - 1 - d
    BY <1>1, <1>2, <2>1, RemainderIs
  <2>. QED  BY <1>5, <2>2 DEF L, B, a
<1>6. CASE ~ (d < L)
  <2>1. B + L - 1 - d \in 0..(B - 1) /\ (0 - k) - 1 \in Int
        /\ a = B * ((0 - k) - 1) + (B + L - 1 - d)
    BY <1>1, <1>2, <1>3, <1>4, <1>6
  <2>2. a % B = B + L - 1 - d
    BY <1>1, <1>2, <2>1, RemainderIs
  <2>. QED  BY <1>6, <2>2 DEF L, B, a
<1>. QED  BY <1>5, <1>6

\* e is the buffer d with a number in its last eight bytes.
Ends(e, d, n) ==
    /\ e \in [Cells -> Byte]
    /\ \A i \in Cells :
          e[i] = IF i < LengthAt THEN d[i] ELSE LengthField(n)[i - LengthAt + 1]

\* The two words of the count are written as one number.
LEMMA LengthAtEnd ==
    ASSUME NEW d \in [Cells -> Byte], NEW n \in WordPair
    PROVE  Ends(WithLength(d, n), d, Count(n))
<1>. DEFINE L == LengthAt
            W == WordBytes
<1>1. W \in Nat \ {0} /\ L \in Nat \ {0} /\ BlockLen = L + 2 * W /\ BlockLen \in Nat
      /\ Geometric(Place)
  BY ShaSizes
<1>2. n[1] \in Nat /\ n[2] \in Nat
  BY ShaSizes DEF WordPair
<1>3. ASSUME NEW x \in Nat, NEW j \in 0..(W - 1) PROVE Digit(x, j) \in Byte
  <2>1. W - 1 - j \in Nat
    BY <1>1
  <2>2. Place[W - 1 - j] \in Nat \ {0}
    BY <1>1, <2>1 DEF Geometric
  <2>3. Digit(x, j) = DigitAt(x, Place[W - 1 - j], Radix)
    BY DEF Digit, DigitAt
  <2>. QED  BY <2>2, <2>3, DigitByte
<1>4. ASSUME NEW i \in Cells
      PROVE  /\ WithLength(d, n)[i] \in Byte
             /\ WithLength(d, n)[i] = IF i < L THEN d[i]
                                          ELSE LengthField(Count(n))[i - L + 1]
  <2>1. i \in 0..(BlockLen - 1)
    BY DEF Cells
  <2>2. CASE i < L
    BY <2>2 DEF WithLength
  <2>3. CASE i >= L /\ i < L + W
    <3>1. i - L \in 0..(W - 1) /\ i - L + 1 \in 1..(2 * W) /\ i - L + 1 <= W
          /\ (i - L + 1) - 1 = i - L /\ ~ (i < L)
      BY <1>1, <2>1, <2>3
    <3>2. WithLength(d, n)[i] = Digit(n[2], i - L)
      BY <2>3, <3>1 DEF WithLength
    <3>3. LengthField(Count(n))[i - L + 1] = Digit(n[2], (i - L + 1) - 1)
      BY <3>1, LengthDigits
    <3>. QED  BY <1>2, <1>3, <3>1, <3>2, <3>3
  <2>4. CASE i >= L + W
    <3>1. i - L - W \in 0..(W - 1) /\ i - L + 1 \in 1..(2 * W) /\ ~ (i - L + 1 <= W)
          /\ (i - L + 1) - 1 - W = i - L - W /\ ~ (i < L) /\ ~ (i < L + W)
      BY <1>1, <2>1, <2>4
    <3>2. WithLength(d, n)[i] = Digit(n[1], i - L - W)
      BY <3>1 DEF WithLength
    <3>3. LengthField(Count(n))[i - L + 1] = Digit(n[1], (i - L + 1) - 1 - W)
      BY <3>1, LengthDigits
    <3>. QED  BY <1>2, <1>3, <3>1, <3>2, <3>3
  <2>. QED  BY <1>1, <2>1, <2>2, <2>3, <2>4
<1>5. WithLength(d, n) = [i \in Cells |-> WithLength(d, n)[i]]
  BY DEF WithLength
<1>. QED  BY <1>4, <1>5 DEF Ends

\* sha256_final hashes the padding, in one block or in two.
LEMMA ShaFinal ==
    ASSUME ShaInv, sha256_final
    PROVE  ShaInv'
<1>. DEFINE h == Len(hashed)
            l == Len(message)
            d == datalen
            B == BlockLen
            L == LengthAt
            W == WordBytes
            P == Padding(message)
            F == LengthField(l * Bits)
<1>1. /\ B \in Nat \ {0} /\ L \in Nat \ {0} /\ W \in Nat \ {0} /\ B = L + 2 * W
      /\ Stop \in Byte /\ 0 \in Byte /\ Cells = 0..(B - 1)
  BY ShaSizes DEF Cells
<1>2. TypeOK /\ Streaming /\ l <= MaxLen
  BY DEF ShaInv, sha256_final
<1>3. /\ d \in 0..(B - 1) /\ bitlen \in WordPair /\ data \in [Cells -> Byte]
      /\ ByteString(hashed, h) /\ message \in Seq(Byte) /\ h \in Nat /\ l \in Nat
  BY <1>2, ShaTypes DEF ByteString
<1>4. PICK k \in Nat : h = B * k
  BY <1>2 DEF Streaming
<1>5. l = h + d /\ Count(bitlen) = h * Bits /\ (\A i \in 1..h : hashed[i] = message[i])
      /\ \A i \in 0..(d - 1) : data[i] = message[h + i + 1]
  BY <1>2 DEF Streaming
<1>6. bitlen' \in WordPair /\ Count(bitlen') = l * Bits
  <2>1. bitlen' = DBL_INT_ADD(bitlen, d * Bits)
    BY DEF sha256_final
  <2>2. d \in 0..B /\ h + d <= MaxLen
    BY <1>1, <1>2, <1>3, <1>5
  <2>. HIDE DEF h, d, l, B
  <2>3. d \in 0..BlockLen
    BY <2>2 DEF B
  <2>. QED  BY <1>3, <1>5, <2>1, <2>2, <2>3, BitsAdd
<1>7. message' = message /\ pc' = "done" /\ datalen' = datalen
  BY DEF sha256_final
<1>8. (L - 1 - l) % B = IF d < L THEN L - 1 - d ELSE B + L - 1 - d
  <2>. HIDE DEF l, d
  <2>1. l = B * k + d
    BY <1>4, <1>5
  <2>. QED  BY <1>3, <2>1, ZerosFill
<1>9. ASSUME NEW end \in Nat, end <= B
      PROVE  /\ Padded(end) \in [Cells -> Byte]
             /\ \A i \in 0..(B - 1) : Padded(end)[i] =
                  IF i = d THEN Stop ELSE IF d < i /\ i < end THEN 0 ELSE data[i]
  BY <1>1, <1>3 DEF Padded
<1>10. ASSUME NEW i \in 1..l PROVE PadByte(message, (L - 1 - l) % B, i) = message[i]
  BY DEF PadByte
<1>11. CASE d < L
  <2>. DEFINE p == Padded(L)
              z == L - 1 - d
  <2>1. data' = WithLength(p, bitlen') /\ hashed' = sha256_transform(hashed, data')
    BY <1>11 DEF sha256_final, FitsLength
  <2>2. p \in [Cells -> Byte]
        /\ \A i \in 0..(B - 1) : p[i] =
             IF i = d THEN Stop ELSE IF d < i /\ i < L THEN 0 ELSE data[i]
    BY <1>1, <1>9
  <2>. HIDE DEF p
  <2>3. Ends(data', p, l * Bits)
    BY <1>6, <2>1, <2>2, LengthAtEnd
  <2>4. data' \in [Cells -> Byte]
        /\ \A i \in 0..(B - 1) : data'[i] = IF i < L THEN p[i] ELSE F[i - L + 1]
    BY <1>1, <2>3 DEF Ends
  <2>5. Filled(hashed', hashed, h, data')
    <3>. HIDE DEF h
    <3>. QED  BY <1>3, <2>1, <2>4, BlockBytes
  <2>6. ByteString(hashed', h + B)
        /\ \A i \in 1..(h + B) : hashed'[i] = IF i <= h THEN hashed[i] ELSE data'[i - h - 1]
    BY <2>5 DEF Filled
  <2>7. PaddedBy(P, message, z)
    <3>1. z \in Nat /\ (L - 1 - l) % B = z
      BY <1>1, <1>3, <1>8, <1>11
    <3>. HIDE DEF z
    <3>. QED  BY <1>3, <3>1, PaddingBytes
  <2>8. l + 1 + z + 2 * W = h + B
    BY <1>1, <1>3, <1>5
  <2>9. ByteString(P, h + B) /\ \A i \in 1..(h + B) : P[i] =
            IF i <= l THEN message[i] ELSE IF i = l + 1 THEN Stop
            ELSE IF i <= l + 1 + z THEN 0 ELSE F[i - (l + 1 + z)]
    BY <2>7, <2>8 DEF PaddedBy, PadByte
  <2>. HIDE DEF h, l, d, B, L, W, P, F
  <2>10. ASSUME NEW i \in 1..(h + B) PROVE hashed'[i] = P[i]
    <3>1. CASE i <= h
      <4>1. i <= l /\ i \in 1..h
        BY <1>3, <1>5, <3>1
      <4>. QED  BY <1>5, <2>6, <2>9, <3>1, <4>1
    <3>2. CASE i > h
      <4>. DEFINE j == i - h - 1
      <4>1. j \in 0..(B - 1) /\ i = h + j + 1
        BY <1>1, <1>3, <3>2
      <4>2. hashed'[i] = data'[j]
        BY <1>3, <2>6, <3>2
      <4>3. CASE j < d
        <5>1. j \in 0..(d - 1) /\ i <= l /\ j < L /\ j # d /\ ~ (d < j)
          BY <1>1, <1>3, <1>5, <1>11, <4>1, <4>3
        <5>2. data'[j] = data[j] /\ data[j] = message[i] /\ P[i] = message[i]
          BY <1>5, <2>2, <2>4, <2>9, <4>1, <5>1
        <5>. QED  BY <4>2, <5>2
      <4>4. CASE j = d
        <5>1. i = l + 1 /\ j < L /\ ~ (i <= l)
          BY <1>1, <1>3, <1>5, <1>11, <4>1, <4>4
        <5>. QED  BY <2>2, <2>4, <2>9, <4>1, <4>2, <4>4, <5>1
      <4>5. CASE d < j /\ j < L
        <5>1. ~ (i <= l) /\ i # l + 1 /\ i <= l + 1 + z /\ j # d
          BY <1>1, <1>3, <1>5, <1>11, <4>1, <4>5
        <5>. QED  BY <2>2, <2>4, <2>9, <4>1, <4>2, <4>5, <5>1
      <4>6. CASE L <= j
        <5>1. ~ (i <= l) /\ i # l + 1 /\ ~ (i <= l + 1 + z) /\ ~ (j < L)
              /\ i - (l + 1 + z) = j - L + 1
          BY <1>1, <1>3, <1>5, <1>11, <4>1, <4>6
        <5>. QED  BY <2>4, <2>9, <4>1, <4>2, <5>1
      <4>7. j < d \/ j = d \/ (d < j /\ j < L) \/ L <= j
        <5>. HIDE DEF j
        <5>. QED  BY <1>1, <1>3, <4>1
      <4>. QED  BY <4>3, <4>4, <4>5, <4>6, <4>7
    <3>. QED  BY <1>3, <3>1, <3>2
  <2>11. hashed' = P
    BY <1>1, <1>3, <2>6, <2>9, <2>10, BytesSame
  <2>12. TypeOK'
    BY <1>2, <1>6, <1>7, <2>4, <2>6 DEF TypeOK, WordPair, ByteString
  <2>. QED  BY <1>2, <1>7, <2>11, <2>12 DEF ShaInv, P, l
<1>12. CASE ~ (d < L)
  <2>. DEFINE p == Padded(B)
              o == [i \in Cells |-> 0]
              t == sha256_transform(hashed, p)
              z == B + L - 1 - d
  <2>1. data' = WithLength(o, bitlen') /\ hashed' = sha256_transform(t, data')
    BY <1>12 DEF sha256_final, FitsLength
  <2>2. p \in [Cells -> Byte]
        /\ \A i \in 0..(B - 1) : p[i] =
             IF i = d THEN Stop ELSE IF d < i /\ i < B THEN 0 ELSE data[i]
    BY <1>1, <1>9
  <2>3. o \in [Cells -> Byte] /\ \A i \in 0..(B - 1) : o[i] = 0
    BY <1>1
  <2>. HIDE DEF p, o
  <2>4. Ends(data', o, l * Bits)
    BY <1>6, <2>1, <2>3, LengthAtEnd
  <2>5. data' \in [Cells -> Byte]
        /\ \A i \in 0..(B - 1) : data'[i] = IF i < L THEN o[i] ELSE F[i - L + 1]
    BY <1>1, <2>4 DEF Ends
  <2>6. Filled(t, hashed, h, p)
    <3>. HIDE DEF h
    <3>. QED  BY <1>3, <2>2, BlockBytes
  <2>7. ByteString(t, h + B)
        /\ \A i \in 1..(h + B) : t[i] = IF i <= h THEN hashed[i] ELSE p[i - h - 1]
    BY <2>6 DEF Filled
  <2>8. Filled(hashed', t, h + B, data')
    <3>1. h + B \in Nat
      BY <1>1, <1>3
    <3>. HIDE DEF h, t
    <3>. QED  BY <2>1, <2>5, <2>7, <3>1, BlockBytes
  <2>9. ByteString(hashed', h + B + B)
        /\ \A i \in 1..(h + B + B) : hashed'[i] = IF i <= h + B THEN t[i] ELSE data'[i - (h + B) - 1]
    BY <2>8 DEF Filled
  <2>10. PaddedBy(P, message, z)
    <3>1. z \in Nat /\ (L - 1 - l) % B = z
      BY <1>1, <1>3, <1>8, <1>12
    <3>. HIDE DEF z
    <3>. QED  BY <1>3, <3>1, PaddingBytes
  <2>11. l + 1 + z + 2 * W = h + B + B
    BY <1>1, <1>3, <1>5
  <2>12. ByteString(P, h + B + B) /\ \A i \in 1..(h + B + B) : P[i] =
            IF i <= l THEN message[i] ELSE IF i = l + 1 THEN Stop
            ELSE IF i <= l + 1 + z THEN 0 ELSE F[i - (l + 1 + z)]
    BY <2>10, <2>11 DEF PaddedBy, PadByte
  <2>. HIDE DEF h, l, d, B, L, W, P, F, t
  <2>13. ASSUME NEW i \in 1..(h + B + B) PROVE hashed'[i] = P[i]
    <3>1. CASE i <= h
      <4>1. i <= l /\ i \in 1..h /\ i <= h + B /\ i \in 1..(h + B)
        BY <1>1, <1>3, <1>5, <3>1
      <4>2. hashed'[i] = t[i] /\ t[i] = hashed[i]
        BY <2>7, <2>9, <3>1, <4>1
      <4>. QED  BY <1>5, <2>12, <4>1, <4>2
    <3>2. CASE h < i /\ i <= h + B
      <4>. DEFINE j == i - h - 1
      <4>1. j \in 0..(B - 1) /\ i = h + j + 1 /\ i \in 1..(h + B) /\ ~ (i <= h)
        BY <1>1, <1>3, <3>2
      <4>2. hashed'[i] = p[j]
        BY <2>7, <2>9, <3>2, <4>1
      <4>3. CASE j < d
        <5>1. j \in 0..(d - 1) /\ i <= l /\ j # d /\ ~ (d < j)
          BY <1>1, <1>3, <1>5, <4>1, <4>3
        <5>2. p[j] = data[j] /\ data[j] = message[i] /\ P[i] = message[i]
          BY <1>5, <2>2, <2>12, <4>1, <5>1
        <5>. QED  BY <4>2, <5>2
      <4>4. CASE j = d
        <5>1. i = l + 1 /\ ~ (i <= l)
          BY <1>1, <1>3, <1>5, <4>1, <4>4
        <5>. QED  BY <2>2, <2>12, <4>1, <4>2, <4>4, <5>1
      <4>5. CASE d < j
        <5>1. ~ (i <= l) /\ i # l + 1 /\ i <= l + 1 + z /\ j # d /\ j < B
          BY <1>1, <1>3, <1>5, <1>12, <4>1, <4>5
        <5>. QED  BY <2>2, <2>12, <4>1, <4>2, <4>5, <5>1
      <4>. QED  BY <1>1, <1>3, <4>1, <4>3, <4>4, <4>5
    <3>3. CASE h + B < i
      <4>. DEFINE j == i - (h + B) - 1
      <4>1. j \in 0..(B - 1) /\ i = h + B + j + 1 /\ ~ (i <= h + B)
        BY <1>1, <1>3, <3>3
      <4>2. hashed'[i] = data'[j]
        BY <2>9, <4>1
      <4>3. ~ (i <= l) /\ i # l + 1
        BY <1>1, <1>3, <1>5, <1>12, <4>1
      <4>4. CASE j < L
        <5>1. i <= l + 1 + z
          BY <1>1, <1>3, <1>5, <4>1, <4>4
        <5>. QED  BY <2>3, <2>5, <2>12, <4>1, <4>2, <4>3, <4>4, <5>1
      <4>5. CASE ~ (j < L)
        <5>1. ~ (i <= l + 1 + z) /\ i - (l + 1 + z) = j - L + 1
          BY <1>1, <1>3, <1>5, <4>1, <4>5
        <5>. QED  BY <2>5, <2>12, <4>1, <4>2, <4>3, <4>5, <5>1
      <4>. QED  BY <4>4, <4>5
    <3>. QED  BY <1>1, <1>3, <3>1, <3>2, <3>3
  <2>14. hashed' = P
    <3>1. h + B + B \in Nat
      BY <1>1, <1>3
    <3>. QED  BY <2>9, <2>12, <2>13, <3>1, BytesSame
  <2>15. TypeOK'
    BY <1>2, <1>6, <1>7, <2>5, <2>9 DEF TypeOK, WordPair, ByteString
  <2>. QED  BY <1>2, <1>7, <2>14, <2>15 DEF ShaInv, P, l
<1>. QED  BY <1>11, <1>12

\* The invariant is enough.
LEMMA ShaSound ==
    ASSUME ShaInv
    PROVE  HashesPadded
<1>1. TypeOK
  BY DEF ShaInv
<1>2. ASSUME pc = "open" PROVE message = hashed \o SubSeq(InOrder(data), 1, datalen)
  <2>. DEFINE h == Len(hashed)
              o == InOrder(data)
              s == SubSeq(o, 1, datalen)
  <2>1. Streaming
    BY <1>2 DEF ShaInv
  <2>2. /\ datalen \in 0..(BlockLen - 1) /\ data \in [Cells -> Byte]
        /\ ByteString(hashed, h) /\ message \in Seq(Byte) /\ h \in Nat /\ BlockLen \in Nat
    BY <1>1, ShaTypes, ShaSizes DEF ByteString
  <2>3. o \in [1..BlockLen -> Byte] /\ \A i \in 1..BlockLen : o[i] = data[i - 1]
    BY <2>2 DEF InOrder, Cells
  <2>4. o \in Seq(Byte) /\ Len(o) = BlockLen
    <3>. HIDE DEF o
    <3>. QED  BY <2>2, <2>3, BytesOf DEF ByteString
  <2>. HIDE DEF o
  <2>5. ByteString(s, datalen) /\ \A i \in 1..datalen : s[i] = data[i - 1]
    <3>1. s = [i \in 1..datalen |-> o[i]]
      BY <2>2, <2>4
    <3>2. s \in [1..datalen -> Byte] /\ \A i \in 1..datalen : s[i] = data[i - 1]
      <4>. HIDE DEF s
      <4>1. ASSUME NEW i \in 1..datalen PROVE s[i] = data[i - 1] /\ s[i] \in Byte
        <5>1. i \in 1..BlockLen
          BY <2>2
        <5>. QED  BY <2>3, <3>1, <5>1
      <4>. QED  BY <3>1, <4>1
    <3>. HIDE DEF s
    <3>. QED  BY <2>2, <3>2, BytesOf
  <2>. HIDE DEF s
  <2>6. Joined(hashed \o s, hashed, h, s, datalen)
    <3>. HIDE DEF h
    <3>. QED  BY <2>2, <2>5, BytesJoin
  <2>7. ByteString(hashed \o s, h + datalen) /\ \A i \in 1..(h + datalen) :
           (hashed \o s)[i] = IF i <= h THEN hashed[i] ELSE s[i - h]
    BY <2>6 DEF Joined
  <2>8. ByteString(message, h + datalen)
    BY <2>1, <2>2 DEF Streaming, ByteString
  <2>9. ASSUME NEW i \in 1..(h + datalen) PROVE message[i] = (hashed \o s)[i]
    <3>1. CASE i <= h
      <4>1. i \in 1..Len(hashed)
        BY <2>2, <3>1
      <4>2. hashed[i] = message[i]
        BY <2>1, <4>1 DEF Streaming
      <4>. QED  BY <2>7, <3>1, <4>2
    <3>2. CASE ~ (i <= h)
      <4>. DEFINE j == i - h - 1
      <4>1. j \in 0..(datalen - 1) /\ i - h \in 1..datalen /\ (i - h) - 1 = j /\ h + j + 1 = i
        BY <2>2, <3>2
      <4>2. data[j] = message[i]
        BY <2>1, <4>1 DEF Streaming
      <4>. QED  BY <2>5, <2>7, <3>2, <4>1, <4>2
    <3>. QED  BY <3>1, <3>2
  <2>10. h + datalen \in Nat
    BY <2>2
  <2>11. message = hashed \o s
    BY <2>7, <2>8, <2>9, <2>10, BytesSame
  <2>. QED  BY <2>11 DEF s, o
<1>3. ASSUME pc = "open" PROVE bitlen[2] * Word + bitlen[1] = Len(hashed) * Bits
  BY <1>3 DEF ShaInv, Streaming, Count
<1>. QED  BY <1>1, <1>2, <1>3 DEF ShaInv, HashesPadded, StreamSound

\* For every block size, word size and byte size, and messages of any length
\* the two words can count, sha256_update and sha256_final hash exactly the
\* padded message, and a context can be used for message after message: the
\* carry of DBL_INT_ADD, the block that is filled by the last byte and the
\* second block of a message that leaves no room for the length included.
THEOREM Sha256HashesPadded ==
    ContextSpec => []HashesPadded
<1>1. ContextInit => ShaInv
  BY ShaInit
<1>2. ShaInv /\ [ContextNext]_contextVars => ShaInv'
  <2>. SUFFICES ASSUME ShaInv, [ContextNext]_contextVars PROVE ShaInv'
    OBVIOUS
  <2>1. CASE sha256_init
    BY <2>1, ShaInitAgain
  <2>2. CASE \E b \in Data : sha256_update(b)
    BY <2>2, ShaUpdate
  <2>3. CASE sha256_final
    BY <2>3, ShaFinal
  <2>4. CASE UNCHANGED contextVars
    BY <2>4 DEF contextVars, ShaInv, Streaming, Count, TypeOK
  <2>. QED  BY <2>1, <2>2, <2>3, <2>4 DEF ContextNext
<1>3. ShaInv => HashesPadded
  BY ShaSound
<1>. QED  BY <1>1, <1>2, <1>3, PTL DEF ContextSpec

------------------------------------------------------------------------------
(* Numbers of digits: bignum.c.                                            *)

\* What byte n counts for.
LEMMA Places == Geometric(Big!Place)
<1>1. Radix \in Nat \ {0}
  BY AlgorithmsConstants
<1>2. PowerRun(Big!Place)
  <2>1. \E p : PowerRun(p)
    BY <1>1, PowersExist
  <2>2. PowerRun(CHOOSE p : PowerRun(p))
    BY <2>1
  <2>3. Big!Place = CHOOSE p : PowerRun(p)
    BY DEF Big!Place, PowerRun
  <2>. QED  BY <2>2, <2>3
<1>. QED  BY <1>1, <1>2, PowersExist

\* The number that a sequence of digits without end adds up to.
Adds(x) == [i \in Nat |-> [s \in Nat |-> s + x[i] * Big!Place[i]]]
Sums(x) == CHOOSE f : f \in [Nat -> Nat] /\ Runs(f, 0, Adds(x))
Digits  == [Nat -> Nat]

\* What a sum of digits is.
LEMMA SumsStep ==
    ASSUME NEW x \in Digits
    PROVE  /\ Sums(x) \in [Nat -> Nat] /\ Sums(x)[0] = 0
           /\ \A n \in Nat : Sums(x)[n + 1] = Sums(x)[n] + x[n] * Big!Place[n]
<1>1. \A i \in Nat : x[i] \in Nat /\ Big!Place[i] \in Nat
  BY Places DEF Geometric, Digits
<1>2. Adds(x) \in [Nat -> [Nat -> Nat]]
  <2>1. \A i \in Nat, s \in Nat : s + x[i] * Big!Place[i] \in Nat
    BY <1>1
  <2>. QED  BY <2>1 DEF Adds
<1>3. \E f : f \in [Nat -> Nat] /\ Runs(f, 0, Adds(x))
  <2>1. 0 \in Nat
    OBVIOUS
  <2>. QED  BY <1>2, <2>1, Recursion
<1>4. Sums(x) \in [Nat -> Nat] /\ Runs(Sums(x), 0, Adds(x))
  BY <1>3 DEF Sums
<1>5. ASSUME NEW n \in Nat PROVE Sums(x)[n + 1] = Sums(x)[n] + x[n] * Big!Place[n]
  <2>1. Sums(x)[n + 1] = Adds(x)[n][Sums(x)[n]] /\ Sums(x)[n] \in Nat
    BY <1>4 DEF Runs
  <2>. QED  BY <2>1 DEF Adds
<1>. QED  BY <1>4, <1>5 DEF Runs

\* A digit and its place.
LEMMA DigitNat ==
    ASSUME NEW x \in Digits, NEW n \in Nat
    PROVE  /\ x[n] \in Nat /\ Big!Place[n] \in Nat \ {0} /\ x[n] * Big!Place[n] \in Nat
           /\ Big!Place[n + 1] = Radix * Big!Place[n] /\ Sums(x)[n] \in Nat
<1>1. x[n] \in Nat /\ Big!Place[n] \in Nat \ {0} /\ Sums(x)[n] \in Nat
  BY Places, SumsStep DEF Geometric, Digits
<1>2. x[n] * Big!Place[n] \in Nat
  BY <1>1
<1>. QED  BY <1>1, <1>2, Places DEF Geometric

\* The digits below n are the same,
Agree(x, y, n) == \A i \in Nat : i < n => x[i] = y[i]

\* and then so are the numbers.
LEMMA SumsAgree ==
    ASSUME NEW x \in Digits, NEW y \in Digits, NEW n \in Nat, Agree(x, y, n)
    PROVE  Sums(x)[n] = Sums(y)[n]
<1>. DEFINE T == {m \in 0..n : Sums(x)[m] # Sums(y)[m]}
<1>. SUFFICES ASSUME T # {} PROVE FALSE
  OBVIOUS
<1>1. PICK m \in T : \A k \in T : m <= k
  <2>1. T \subseteq Nat
    OBVIOUS
  <2>. HIDE DEF T
  <2>. QED  BY <2>1, LeastNumber
<1>2. m # 0
  BY <1>1, SumsStep
<1>3. m - 1 \in Nat /\ (m - 1) + 1 = m /\ m - 1 < n /\ m - 1 \in 0..n /\ ~ m <= m - 1
  BY <1>1, <1>2
<1>4. Sums(x)[m - 1] = Sums(y)[m - 1] /\ x[m - 1] = y[m - 1]
  BY <1>1, <1>3 DEF Agree
<1>5. Sums(x)[m] = Sums(x)[m - 1] + x[m - 1] * Big!Place[m - 1]
      /\ Sums(y)[m] = Sums(y)[m - 1] + y[m - 1] * Big!Place[m - 1]
  BY <1>3, SumsStep
<1>. QED  BY <1>1, <1>4, <1>5

\* y has b for digit k of x.
Changed(x, y, k, b) == y[k] = b /\ \A i \in Nat : i # k => y[i] = x[i]

\* A digit that changes changes the number by what it counts for.
LEMMA SumsChange ==
    ASSUME NEW x \in Digits, NEW y \in Digits, NEW n \in Nat, NEW k \in Nat, k < n, NEW b \in Nat,
           Changed(x, y, k, b)
    PROVE  Sums(y)[n] + x[k] * Big!Place[k] = Sums(x)[n] + b * Big!Place[k]
<1>. DEFINE u == x[k] * Big!Place[k]
            v == b * Big!Place[k]
            T == {m \in (k + 1)..n : Sums(y)[m] + u # Sums(x)[m] + v}
<1>1. u \in Nat /\ v \in Nat
  <2>1. Big!Place[k] \in Nat
    BY DigitNat
  <2>. QED  BY <2>1, DigitNat
<1>. SUFFICES ASSUME T # {} PROVE FALSE
  OBVIOUS
<1>2. PICK m \in T : \A j \in T : m <= j
  <2>1. T \subseteq Nat
    OBVIOUS
  <2>. HIDE DEF T
  <2>. QED  BY <2>1, LeastNumber
<1>3. m - 1 \in Nat /\ (m - 1) + 1 = m /\ m \in (k + 1)..n
  BY <1>2
<1>. DEFINE i == m - 1
<1>4. Sums(x)[m] = Sums(x)[i] + x[i] * Big!Place[i] /\ Sums(y)[m] = Sums(y)[i] + y[i] * Big!Place[i]
  BY <1>3, SumsStep
<1>5. /\ Sums(x)[i] \in Nat /\ Sums(y)[i] \in Nat
      /\ x[i] * Big!Place[i] \in Nat /\ y[i] * Big!Place[i] \in Nat
  BY <1>3, DigitNat
<1>6. CASE i = k
  <2>1. Agree(x, y, k)
    BY DEF Agree, Changed
  <2>2. Sums(x)[i] = Sums(y)[i]
    BY <1>6, <2>1, SumsAgree
  <2>3. y[i] * Big!Place[i] = v /\ x[i] * Big!Place[i] = u
    BY <1>6 DEF Changed
  <2>4. Sums(y)[m] + u = Sums(x)[m] + v
    <3>. HIDE DEF u, v, i
    <3>. QED  BY <1>1, <1>4, <1>5, <2>2, <2>3
  <2>. QED  BY <1>2, <2>4
<1>7. CASE i # k
  <2>1. i \in (k + 1)..n /\ ~ m <= i
    BY <1>3, <1>7
  <2>2. Sums(y)[i] + u = Sums(x)[i] + v
    BY <1>2, <2>1
  <2>3. y[i] = x[i]
    BY <1>3, <1>7 DEF Changed
  <2>4. Sums(y)[m] + u = Sums(x)[m] + v
    <3>1. y[i] * Big!Place[i] = x[i] * Big!Place[i]
      BY <2>3
    <3>. HIDE DEF u, v, i
    <3>. QED  BY <1>1, <1>4, <1>5, <2>2, <3>1
  <2>. QED  BY <1>2, <2>4
<1>. QED  BY <1>6, <1>7

\* The digits from n on are zero,
Ended(x, n) == \A i \in Nat : n <= i => x[i] = 0

\* and count for nothing.
LEMMA SumsEnd ==
    ASSUME NEW x \in Digits, NEW n \in Nat, Ended(x, n), NEW m \in Nat, n <= m
    PROVE  Sums(x)[m] = Sums(x)[n]
<1>. DEFINE T == {j \in n..m : Sums(x)[j] # Sums(x)[n]}
<1>. SUFFICES ASSUME T # {} PROVE FALSE
  OBVIOUS
<1>1. PICK j \in T : \A k \in T : j <= k
  <2>1. T \subseteq Nat
    OBVIOUS
  <2>. HIDE DEF T
  <2>. QED  BY <2>1, LeastNumber
<1>2. j - 1 \in Nat /\ (j - 1) + 1 = j /\ j - 1 \in n..m /\ n <= j - 1 /\ ~ j <= j - 1
  BY <1>1
<1>3. Sums(x)[j - 1] = Sums(x)[n]
  BY <1>1, <1>2
<1>4. x[j - 1] = 0 /\ Big!Place[j - 1] \in Nat /\ Sums(x)[j - 1] \in Nat
  BY <1>2, DigitNat DEF Ended
<1>5. Sums(x)[j] = Sums(x)[j - 1] + x[j - 1] * Big!Place[j - 1]
  BY <1>2, SumsStep
<1>. QED  BY <1>1, <1>3, <1>4, <1>5

\* Each digit is a byte,
Bytewise(x) == \A i \in Nat : x[i] < Radix

\* and then the number is below what the next place counts for.
LEMMA SumsBound ==
    ASSUME NEW x \in Digits, Bytewise(x), NEW n \in Nat
    PROVE  Sums(x)[n] < Big!Place[n]
<1>. DEFINE T == {m \in Nat : ~ (Sums(x)[m] < Big!Place[m])}
<1>. SUFFICES ASSUME T # {} PROVE FALSE
  OBVIOUS
<1>1. PICK m \in T : \A k \in T : m <= k
  <2>1. T \subseteq Nat
    OBVIOUS
  <2>. HIDE DEF T
  <2>. QED  BY <2>1, LeastNumber
<1>2. m # 0
  BY <1>1, SumsStep, Places DEF Geometric
<1>3. m - 1 \in Nat /\ (m - 1) + 1 = m /\ ~ m <= m - 1
  BY <1>1, <1>2
<1>. DEFINE p == Big!Place[m - 1]
            d == x[m - 1]
            s == Sums(x)[m - 1]
<1>4. p \in Nat /\ d \in Nat /\ s \in Nat /\ Big!Place[m] = Radix * p /\ Sums(x)[m] = s + d * p
  BY <1>3, DigitNat, SumsStep
<1>5. s < p /\ d < Radix
  BY <1>1, <1>3 DEF Bytewise
<1>6. Radix \in Nat
  BY AlgorithmsConstants
<1>. HIDE DEF p, d, s
<1>7. p * (d + 1) <= p * Radix
  <2>1. p \in Nat /\ d + 1 \in Nat /\ Radix \in Nat /\ d + 1 <= Radix
    BY <1>4, <1>5, <1>6
  <2>. QED  BY <2>1, ProductLeq
<1>8. p * (d + 1) = d * p + p /\ p * Radix = Radix * p /\ d * p \in Nat
  BY <1>4, <1>6
<1>9. Sums(x)[m] < Big!Place[m]
  <2>. DEFINE dp == d * p
              rp == Radix * p
  <2>1. dp + p <= rp /\ dp \in Nat /\ rp \in Nat
    BY <1>4, <1>6, <1>7, <1>8
  <2>2. Sums(x)[m] = s + dp /\ Big!Place[m] = rp
    BY <1>4
  <2>. HIDE DEF dp, rp
  <2>. QED  BY <1>4, <1>5, <2>1, <2>2
<1>. QED  BY <1>1, <1>9

\* The highest digit in which two numbers differ orders them.
LEMMA SumsOrder ==
    ASSUME NEW x \in Digits, NEW y \in Digits, Bytewise(x), NEW k \in Nat, NEW n \in Nat, k < n,
           x[k] < y[k], \A i \in Nat : k < i /\ i < n => x[i] = y[i]
    PROVE  Sums(x)[n] < Sums(y)[n]
<1>. DEFINE T == {m \in (k + 1)..n : ~ (Sums(x)[m] < Sums(y)[m])}
<1>. SUFFICES ASSUME T # {} PROVE FALSE
  OBVIOUS
<1>1. PICK m \in T : \A j \in T : m <= j
  <2>1. T \subseteq Nat
    OBVIOUS
  <2>. HIDE DEF T
  <2>. QED  BY <2>1, LeastNumber
<1>2. m - 1 \in Nat /\ (m - 1) + 1 = m /\ m \in (k + 1)..n
  BY <1>1
<1>. DEFINE i == m - 1
            p == Big!Place[i]
<1>3. Sums(x)[m] = Sums(x)[i] + x[i] * p /\ Sums(y)[m] = Sums(y)[i] + y[i] * p
  BY <1>2, SumsStep
<1>4. /\ Sums(x)[i] \in Nat /\ Sums(y)[i] \in Nat /\ x[i] \in Nat /\ y[i] \in Nat /\ p \in Nat
      /\ x[i] * p \in Nat /\ y[i] * p \in Nat
  BY <1>2, DigitNat
<1>5. CASE i = k
  <2>1. Sums(x)[i] < p /\ x[i] < y[i]
    BY <1>2, <1>5, SumsBound
  <2>. DEFINE u == x[i]
              v == y[i]
  <2>2. p * (u + 1) <= p * v
    <3>1. u + 1 <= v /\ u + 1 \in Nat /\ v \in Nat
      BY <1>4, <2>1
    <3>. HIDE DEF u, v, p
    <3>. QED  BY <1>4, <3>1, ProductLeq
  <2>3. p * (u + 1) = u * p + p /\ p * v = v * p
    <3>. HIDE DEF p
    <3>. QED  BY <1>4
  <2>4. Sums(x)[m] < Sums(y)[m]
    <3>. HIDE DEF p, i
    <3>. QED  BY <1>3, <1>4, <2>1, <2>2, <2>3
  <2>. QED  BY <1>1, <2>4
<1>6. CASE i # k
  <2>1. i \in (k + 1)..n /\ ~ m <= i /\ k < i /\ i < n
    BY <1>2, <1>6
  <2>2. Sums(x)[i] < Sums(y)[i]
    BY <1>1, <2>1
  <2>3. x[i] = y[i]
    BY <1>2, <2>1
  <2>4. Sums(x)[m] < Sums(y)[m]
    <3>1. x[i] * p = y[i] * p
      BY <2>3
    <3>. HIDE DEF p, i
    <3>. QED  BY <1>3, <1>4, <2>2, <3>1
  <2>. QED  BY <1>1, <2>4
<1>. QED  BY <1>5, <1>6

\* An array with zeros behind it.
Ext(a) == [i \in Nat |-> IF i \in DOMAIN a THEN a[i] ELSE 0]

\* What the digits of an array are.
LEMMA ExtDigits ==
    ASSUME NEW w \in Nat, NEW a \in Big!Number(w)
    PROVE  /\ Ext(a) \in Digits /\ Bytewise(Ext(a)) /\ Ended(Ext(a), w)
           /\ DOMAIN a = 0..(w - 1) /\ \A i \in 0..(w - 1) : Ext(a)[i] = a[i]
<1>1. Radix \in Nat \ {0, 1}
  BY AlgorithmsConstants
<1>2. DOMAIN a = 0..(w - 1) /\ \A i \in 0..(w - 1) : a[i] \in 0..(Radix - 1)
  BY DEF Big!Number, Big!Byte
<1>3. \A i \in Nat : Ext(a)[i] \in Nat /\ Ext(a)[i] < Radix
  BY <1>1, <1>2 DEF Ext
<1>4. \A i \in 0..(w - 1) : Ext(a)[i] = a[i]
  BY <1>2 DEF Ext
<1>5. Ended(Ext(a), w)
  BY <1>2 DEF Ext, Ended
<1>6. Ext(a) \in Digits
  <2>1. Ext(a) = [i \in Nat |-> Ext(a)[i]]
    BY DEF Ext
  <2>. QED  BY <1>3, <2>1 DEF Digits
<1>. QED  BY <1>2, <1>3, <1>4, <1>5, <1>6 DEF Bytewise

\* f is defined by the recursion of Value.
SumRun(f, a, w) ==
    f = [n \in 0..w |-> IF n = 0 THEN 0 ELSE f[n - 1] + a[n - 1] * Big!Place[n - 1]]

\* The sum that Value computes.
LEMMA SumRunIs ==
    ASSUME NEW w \in Nat, NEW a \in Big!Number(w)
    PROVE  /\ \E f : SumRun(f, a, w)
           /\ \A f : SumRun(f, a, w) => f[w] = Sums(Ext(a))[w]
<1>. DEFINE S == Sums(Ext(a))
<1>1. S \in [Nat -> Nat] /\ S[0] = 0
      /\ \A n \in Nat : S[n + 1] = S[n] + Ext(a)[n] * Big!Place[n]
  BY ExtDigits, SumsStep
<1>2. ASSUME NEW n \in 0..w, n # 0
      PROVE  n - 1 \in 0..w /\ S[n] = S[n - 1] + a[n - 1] * Big!Place[n - 1]
  <2>1. n - 1 \in Nat /\ (n - 1) + 1 = n /\ n - 1 \in 0..(w - 1) /\ n - 1 \in 0..w
    BY <1>2
  <2>2. S[n] = S[n - 1] + Ext(a)[n - 1] * Big!Place[n - 1]
    BY <1>1, <2>1
  <2>3. Ext(a)[n - 1] = a[n - 1]
    BY <2>1, ExtDigits
  <2>. QED  BY <2>1, <2>2, <2>3
<1>. HIDE DEF S
<1>3. \E f : SumRun(f, a, w)
  <2>. DEFINE g == [n \in 0..w |-> S[n]]
  <2>1. \A n \in 0..w : g[n] = IF n = 0 THEN 0 ELSE g[n - 1] + a[n - 1] * Big!Place[n - 1]
    BY <1>1, <1>2
  <2>2. g = [n \in 0..w |-> g[n]]
    OBVIOUS
  <2>. HIDE DEF g
  <2>3. SumRun(g, a, w)
    BY <2>1, <2>2 DEF SumRun
  <2>. QED  BY <2>3
<1>4. ASSUME NEW f, SumRun(f, a, w) PROVE f[w] = S[w]
  <2>. DEFINE T == {n \in 0..w : f[n] # S[n]}
  <2>. SUFFICES ASSUME T # {} PROVE FALSE
    OBVIOUS
  <2>1. PICK n \in T : \A k \in T : n <= k
    <3>1. T \subseteq Nat
      OBVIOUS
    <3>. HIDE DEF T
    <3>. QED  BY <3>1, LeastNumber
  <2>2. f[n] = IF n = 0 THEN 0 ELSE f[n - 1] + a[n - 1] * Big!Place[n - 1]
    BY <1>4, <2>1 DEF SumRun
  <2>3. n # 0
    BY <1>1, <2>1, <2>2
  <2>4. n - 1 \in 0..w /\ S[n] = S[n - 1] + a[n - 1] * Big!Place[n - 1] /\ ~ n <= n - 1
    BY <1>2, <2>1, <2>3
  <2>5. f[n - 1] = S[n - 1]
    BY <2>1, <2>4
  <2>. QED  BY <2>1, <2>2, <2>3, <2>4, <2>5
<1>. QED  BY <1>3, <1>4 DEF S

\* The greatest of finitely many numbers.
LEMMA GreatestNumber ==
    ASSUME NEW n \in Nat, NEW T, T \subseteq 0..(n - 1), T # {}
    PROVE  Big!Max(T) \in T /\ \A y \in T : Big!Max(T) >= y
<1>. DEFINE U == {i \in 0..(n - 1) : (n - 1) - i \in T}
<1>1. U \subseteq Nat /\ U # {}
  <2>1. PICK y \in T : TRUE
    OBVIOUS
  <2>2. y \in Nat /\ (n - 1) - y \in 0..(n - 1) /\ (n - 1) - ((n - 1) - y) = y
    BY <2>1
  <2>3. (n - 1) - y \in U
    BY <2>1, <2>2
  <2>4. U \subseteq Nat
    OBVIOUS
  <2>. HIDE DEF U
  <2>. QED  BY <2>3, <2>4
<1>2. PICK x \in U : \A y \in U : x <= y
  <2>. HIDE DEF U
  <2>. QED  BY <1>1, LeastNumber
<1>3. (n - 1) - x \in T /\ \A y \in T : (n - 1) - x >= y
  <2>1. (n - 1) - x \in T /\ x \in 0..(n - 1)
    BY <1>2
  <2>2. ASSUME NEW y \in T PROVE (n - 1) - x >= y
    <3>1. y \in 0..(n - 1) /\ (n - 1) - y \in 0..(n - 1) /\ (n - 1) - ((n - 1) - y) = y
      OBVIOUS
    <3>2. (n - 1) - y \in U
      BY <3>1
    <3>3. x <= (n - 1) - y
      BY <1>2, <3>2
    <3>. QED  BY <2>1, <3>1, <3>3
  <2>. QED  BY <2>1, <2>2
<1>. QED  BY <1>3 DEF Big!Max

\* What an array stands for.
LEMMA ValueIs ==
    ASSUME NEW w \in Nat \ {0}, NEW a \in Big!Number(w)
    PROVE  Big!Value(a) = Sums(Ext(a))[w]
<1>. DEFINE c == Big!Max(DOMAIN a) + 1
<1>1. c = w
  <2>. DEFINE D == 0..(w - 1)
              m == Big!Max(D)
  <2>1. DOMAIN a = D
    BY ExtDigits
  <2>2. m \in D /\ \A y \in D : m >= y
    <3>1. D \subseteq 0..(w - 1) /\ D # {}
      OBVIOUS
    <3>. HIDE DEF D
    <3>. QED  BY <3>1, GreatestNumber
  <2>3. w - 1 \in D
    OBVIOUS
  <2>4. m = w - 1
    <3>1. m \in 0..(w - 1) /\ m >= w - 1
      BY <2>2, <2>3
    <3>. HIDE DEF m
    <3>. QED  BY <3>1
  <2>. QED  BY <2>1, <2>4
<1>2. Big!Value(a) = (CHOOSE f : SumRun(f, a, c))[c]
  BY Zenon DEF Big!Value, SumRun
<1>. HIDE DEF c
<1>3. SumRun(CHOOSE f : SumRun(f, a, w), a, w)
  BY SumRunIs
<1>. QED  BY <1>1, <1>2, <1>3, SumRunIs

\* big_compare orders numbers by what they stand for.
LEMMA CompareIs ==
    ASSUME "compare_order" \in Repaired, NEW n \in Nat \ {0},
           NEW a \in Big!Number(n), NEW b \in Big!Number(n)
    PROVE  Big!big_compare(a, b, n) =
             IF Big!Value(a) < Big!Value(b) THEN -1 ELSE IF Big!Value(a) > Big!Value(b) THEN 1 ELSE 0
<1>. DEFINE x == Ext(a)
            y == Ext(b)
            D == Big!Differing(a, b, n)
            k == Big!Max(D)
<1>1. /\ x \in Digits /\ y \in Digits /\ Bytewise(x) /\ Bytewise(y)
      /\ \A i \in 0..(n - 1) : x[i] = a[i] /\ y[i] = b[i]
  BY ExtDigits
<1>2. Big!Value(a) = Sums(x)[n] /\ Big!Value(b) = Sums(y)[n]
  BY ValueIs
<1>3. Sums(x)[n] \in Nat /\ Sums(y)[n] \in Nat
  BY <1>1, DigitNat
<1>4. Big!big_compare(a, b, n) = IF D = {} THEN 0 ELSE IF a[k] < b[k] THEN -1 ELSE 1
  BY DEF Big!big_compare
<1>5. D \subseteq 0..(n - 1) /\ \A i \in 0..(n - 1) : i \in D <=> a[i] # b[i]
  BY DEF Big!Differing
<1>. HIDE DEF x, y, D
<1>6. CASE D = {}
  <2>1. Agree(x, y, n)
    BY <1>1, <1>5, <1>6 DEF Agree
  <2>2. Sums(x)[n] = Sums(y)[n]
    BY <1>1, <2>1, SumsAgree
  <2>. QED  BY <1>2, <1>3, <1>4, <1>6, <2>2
<1>7. CASE D # {}
  <2>1. k \in D /\ \A i \in D : k >= i
    BY <1>5, <1>7, GreatestNumber
  <2>. HIDE DEF k
  <2>2. k \in Nat /\ k < n /\ k \in 0..(n - 1) /\ a[k] # b[k]
    BY <1>5, <2>1
  <2>3. x[k] = a[k] /\ y[k] = b[k] /\ x[k] \in Nat /\ y[k] \in Nat
    BY <1>1, <2>2, DigitNat
  <2>4. \A i \in Nat : k < i /\ i < n => x[i] = y[i]
    <3>1. ASSUME NEW i \in Nat, k < i, i < n PROVE x[i] = y[i]
      <4>1. i \in 0..(n - 1) /\ ~ (k >= i)
        BY <2>2, <3>1
      <4>2. i \notin D
        BY <2>1, <4>1
      <4>. QED  BY <1>1, <1>5, <4>1, <4>2
    <3>. QED  BY <3>1
  <2>5. CASE a[k] < b[k]
    <3>1. Sums(x)[n] < Sums(y)[n]
      BY <1>1, <2>2, <2>3, <2>4, <2>5, SumsOrder
    <3>. QED  BY <1>2, <1>3, <1>4, <1>7, <2>5, <3>1
  <2>6. CASE ~ (a[k] < b[k])
    <3>1. y[k] < x[k]
      BY <2>2, <2>3, <2>6
    <3>2. \A i \in Nat : k < i /\ i < n => y[i] = x[i]
      BY <2>4
    <3>3. Sums(y)[n] < Sums(x)[n]
      BY <1>1, <2>2, <3>1, <3>2, SumsOrder
    <3>. QED  BY <1>2, <1>3, <1>4, <1>7, <2>6, <3>3
  <2>. QED  BY <2>5, <2>6
<1>. QED  BY <1>6, <1>7

\* A nibble is read back.
LEMMA NibbleIs ==
    ASSUME NEW n \in 0..15
    PROVE  Hex!hexc_to_nibble(Hex!nibble_to_hexc(n)) = n
<1>1. CASE n <= 9
  <2>1. Hex!nibble_to_hexc(n) = n + 48 /\ n + 48 \in 48..57 /\ (n + 48) - 48 = n
    BY <1>1 DEF Hex!nibble_to_hexc
  <2>2. n + 48 \notin 97..102 /\ n + 48 \notin 65..70
    BY <1>1
  <2>. QED  BY <2>1, <2>2 DEF Hex!hexc_to_nibble
<1>2. CASE ~ (n <= 9)
  <2>1. Hex!nibble_to_hexc(n) = n + 87 /\ n + 87 \in 97..102 /\ ((n + 87) - 97) + 10 = n
    BY <1>2 DEF Hex!nibble_to_hexc
  <2>2. n + 87 \notin 48..57 /\ n + 87 \notin 65..70
    BY <1>2
  <2>. QED  BY <2>1, <2>2 DEF Hex!hexc_to_nibble
<1>. QED  BY <1>1, <1>2

\* A byte is read back.
LEMMA HexIs ==
    ASSUME "nibble_mask" \in Repaired, NEW b \in 0..255
    PROVE  Hex!hexstr_to_bytes(Hex!bytes_to_hexstr(b)) = b
<1>. DEFINE h == b \div 16
            l == b % 16
<1>1. h \in 0..15 /\ l \in 0..15 /\ b = 16 * h + l
  OBVIOUS
<1>2. Hex!bytes_to_hexstr(b) = <<Hex!nibble_to_hexc(h), Hex!nibble_to_hexc(l)>>
  BY DEF Hex!bytes_to_hexstr
<1>. HIDE DEF h, l
<1>3. Hex!hexc_to_nibble(Hex!nibble_to_hexc(h)) = h /\ Hex!hexc_to_nibble(Hex!nibble_to_hexc(l)) = l
  BY <1>1, NibbleIs
<1>4. Hex!hexstr_to_bytes(Hex!bytes_to_hexstr(b)) = IF l = 255 THEN 255 ELSE ((h * 16) % 256) + l
  BY <1>2, <1>3 DEF Hex!hexstr_to_bytes
<1>5. (h * 16) % 256 = h * 16 /\ l # 255
  BY <1>1
<1>. QED  BY <1>1, <1>4, <1>5

\* Byte i of an operand.
LEMMA AtIs ==
    ASSUME "mult_bounds" \in Repaired, NEW a, NEW i \in Nat, NEW past
    PROVE  Big!At(a, i, past) = Ext(a)[i]
  BY DEF Big!At, Ext

\* What the inner loop works on.
RowState(w) == [res : Big!Number(w), carry : Big!Byte]

\* The sum of a carry, a digit and a product fits the 16 bits.
LEMMA SumFits ==
    ASSUME NEW c \in Big!Byte, NEW d \in Big!Byte, NEW u \in Big!Byte, NEW v \in Big!Byte
    PROVE  /\ Big!Accumulated(c, d, u * v) = c + d + u * v
           /\ c + d + u * v \in Nat /\ c + d + u * v < Radix * Radix
<1>. DEFINE r == Radix - 1
            n == c + d + u * v
<1>1. Radix \in Nat \ {0, 1} /\ r \in Nat /\ Radix = r + 1
  BY AlgorithmsConstants
<1>2. c \in 0..r /\ d \in 0..r /\ u \in 0..r /\ v \in 0..r
  BY DEF Big!Byte
<1>. HIDE DEF r
<1>3. u * v \in Nat /\ u * v <= r * r
  <2>1. u * v <= u * r /\ r * u <= r * r
    BY <1>1, <1>2, ProductLeq
  <2>. QED  BY <1>1, <1>2, <2>1
<1>4. Radix * Radix = r * r + r + r + 1 /\ r * r \in Nat
  BY <1>1
<1>5. n \in Nat /\ n < Radix * Radix
  BY <1>1, <1>2, <1>3, <1>4
<1>6. n % (Radix * Radix) = n
  <2>. DEFINE s == Radix * Radix
  <2>1. s \in Nat \ {0} /\ s * 0 = 0
    BY <1>1, <1>4
  <2>. HIDE DEF n, s
  <2>2. n \in Int /\ n \in 0..(s - 1) /\ n = s * 0 + n
    BY <1>5, <2>1 DEF s
  <2>3. n % s = n
    BY <2>1, <2>2, RemainderIs
  <2>. QED  BY <2>3 DEF s
<1>. QED  BY <1>5, <1>6 DEF Big!Accumulated

\* q is p after a product was added at byte k: what the array and the carry
\* stand for grows by the product.
Added(q, p, w, k, product) ==
    /\ q \in RowState(w)
    /\ Sums(Ext(q.res))[w] + q.carry * Big!Place[k + 1] =
         Sums(Ext(p.res))[w] + p.carry * Big!Place[k] + product * Big!Place[k]

\* What AddAt does.
LEMMA AddAtIs ==
    ASSUME NEW w \in Nat, NEW p \in RowState(w), NEW k \in 0..(w - 1),
           NEW u \in Big!Byte, NEW v \in Big!Byte
    PROVE  Added(Big!AddAt(p, k, u * v), p, w, k, u * v)
<1>. DEFINE r == p.res
            d == r[k]
            n == p.carry + d + u * v
            l == n % Radix
            h == n \div Radix
            t == [r EXCEPT ![k] = l]
            P == Big!Place[k]
<1>1. Radix \in Nat \ {0, 1} /\ k \in Nat /\ k < w
  BY AlgorithmsConstants
<1>2. r \in Big!Number(w) /\ p.carry \in Big!Byte /\ d \in Big!Byte
  BY DEF RowState, Big!Number
<1>3. n \in Nat /\ n < Radix * Radix /\ Big!Accumulated(p.carry, d, u * v) = n
  BY <1>2, SumFits
<1>4. Big!AddAt(p, k, u * v) = [res |-> t, carry |-> h]
  BY <1>3 DEF Big!AddAt
<1>5. l \in 0..(Radix - 1) /\ h \in Nat /\ n = Radix * h + l /\ Radix * h <= n
  <2>. HIDE DEF n
  <2>. QED  BY <1>1, <1>3
<1>6. h < Radix
  <2>1. Radix * h < Radix * Radix
    <3>1. Radix * h \in Nat /\ Radix * Radix \in Nat
      <4>. HIDE DEF h
      <4>. QED  BY <1>1, <1>5
    <3>. HIDE DEF h, n
    <3>. QED  BY <1>3, <1>5, <3>1
  <2>. HIDE DEF h
  <2>. QED  BY <1>1, <1>5, <2>1, CancelLess
<1>7. h \in Big!Byte /\ l \in Big!Byte
  <2>. HIDE DEF h, l
  <2>. QED  BY <1>1, <1>5, <1>6 DEF Big!Byte
<1>. HIDE DEF l, h
<1>8. t \in Big!Number(w) /\ t[k] = l /\ \A i \in 0..(w - 1) : i # k => t[i] = r[i]
  BY <1>2, <1>7 DEF Big!Number
<1>. HIDE DEF t, r
<1>9. /\ Ext(r) \in Digits /\ Ext(t) \in Digits /\ Ext(r)[k] = r[k] /\ Ext(t)[k] = l
      /\ Ended(Ext(r), w) /\ Ended(Ext(t), w)
  BY <1>2, <1>8, ExtDigits
<1>10. Changed(Ext(r), Ext(t), k, l)
  <2>1. ASSUME NEW i \in Nat, i # k PROVE Ext(t)[i] = Ext(r)[i]
    <3>1. CASE i \in 0..(w - 1)
      BY <1>2, <1>8, <2>1, <3>1, ExtDigits
    <3>2. CASE i \notin 0..(w - 1)
      <4>1. w <= i
        BY <3>2
      <4>. QED  BY <1>9, <4>1 DEF Ended
    <3>. QED  BY <3>1, <3>2
  <2>. QED  BY <1>9, <2>1 DEF Changed
<1>11. Sums(Ext(t))[w] + d * P = Sums(Ext(r))[w] + l * P
  <2>1. l \in Nat
    BY <1>1, <1>5
  <2>. QED  BY <1>1, <1>9, <1>10, <2>1, SumsChange
<1>. DEFINE a == Sums(Ext(t))[w]
            b == Sums(Ext(r))[w]
            c == p.carry
            g == u * v
<1>12. P \in Nat /\ Big!Place[k + 1] = Radix * P /\ a \in Nat /\ b \in Nat
  BY <1>1, <1>9, DigitNat
<1>13. c \in Nat /\ d \in Nat /\ g \in Nat /\ l \in Nat /\ h \in Nat /\ Radix \in Nat
  <2>1. c \in Nat /\ d \in Nat /\ u \in Nat /\ v \in Nat
    BY <1>1, <1>2 DEF Big!Byte
  <2>2. g \in Nat
    <3>. HIDE DEF d
    <3>. QED  BY <2>1
  <2>. QED  BY <1>1, <1>5, <2>1, <2>2
<1>14. c + d + g = Radix * h + l
  BY <1>5
<1>. HIDE DEF a, b, c, d, g, P, n
<1>15. (c + d + g) * P = c * P + d * P + g * P
  BY <1>12, <1>13
<1>16. (Radix * h + l) * P = h * (Radix * P) + l * P
  BY <1>12, <1>13
<1>17. c * P \in Nat /\ d * P \in Nat /\ g * P \in Nat /\ l * P \in Nat /\ h * (Radix * P) \in Nat
  BY <1>12, <1>13
<1>18. a + h * (Radix * P) = b + c * P + g * P
  <2>. DEFINE cp == c * P
              dp == d * P
              gp == g * P
              lp == l * P
              hp == h * (Radix * P)
  <2>1. cp + dp + gp = hp + lp
    BY <1>14, <1>15, <1>16
  <2>2. a + dp = b + lp
    BY <1>11 DEF a, b
  <2>3. cp \in Nat /\ dp \in Nat /\ gp \in Nat /\ lp \in Nat /\ hp \in Nat
    BY <1>17
  <2>. HIDE DEF cp, dp, gp, lp, hp
  <2>4. a + hp = b + cp + gp
    BY <1>12, <2>1, <2>2, <2>3
  <2>. QED  BY <2>4 DEF cp, gp, hp
<1>19. [res |-> t, carry |-> h] \in RowState(w)
  BY <1>7, <1>8 DEF RowState
<1>. QED  BY <1>4, <1>12, <1>18, <1>19 DEF Added, a, b, c, g, r, P

\* f is defined by the recursion of AddRow.
RowRun(f, res, a, b, j, w, past) ==
    f = [i \in 0..(w - j) |->
            IF i = 0 THEN [res |-> res, carry |-> 0]
            ELSE Big!AddAt(f[i - 1], i - 1 + j, Big!At(a, j, past) * Big!At(b, i - 1, past))]

\* A step of the inner loop.
RowStep(a, b, j, i, p) == Big!AddAt(p, i + j, Ext(a)[j] * Ext(b)[i])

\* A digit of an array is a byte.
LEMMA ExtByte ==
    ASSUME NEW w \in Nat, NEW a \in Big!Number(w), NEW i \in Nat
    PROVE  Ext(a)[i] \in Big!Byte
<1>1. Ext(a) \in Digits /\ Bytewise(Ext(a))
  BY ExtDigits
<1>2. Ext(a)[i] \in Nat /\ Ext(a)[i] < Radix
  BY <1>1, DigitNat DEF Bytewise
<1>3. Radix \in Nat
  BY AlgorithmsConstants
<1>. QED  BY <1>2, <1>3 DEF Big!Byte

\* The loop has a result.
LEMMA RowExists ==
    ASSUME "mult_bounds" \in Repaired, NEW w \in Nat, NEW res \in Big!Number(w),
           NEW m \in Nat, NEW a \in Big!Number(m), NEW n \in Nat, NEW b \in Big!Number(n),
           NEW j \in 0..(w - 1), NEW past
    PROVE  \E f : RowRun(f, res, a, b, j, w, past)
<1>. DEFINE S == RowState(w)
            s == [res |-> res, carry |-> 0]
            F == [i \in Nat |-> [p \in S |-> IF i < w - j THEN RowStep(a, b, j, i, p) ELSE p]]
<1>1. s \in S
  <2>1. 0 \in Big!Byte
    BY AlgorithmsConstants DEF Big!Byte
  <2>. QED  BY <2>1 DEF RowState
<1>2. ASSUME NEW i \in Nat, NEW p \in S, i < w - j PROVE RowStep(a, b, j, i, p) \in S
  <2>1. i + j \in 0..(w - 1) /\ j \in Nat
    BY <1>2
  <2>2. Ext(a)[j] \in Big!Byte /\ Ext(b)[i] \in Big!Byte
    BY <2>1, ExtByte
  <2>3. Added(RowStep(a, b, j, i, p), p, w, i + j, Ext(a)[j] * Ext(b)[i])
    BY <2>1, <2>2, AddAtIs DEF RowStep
  <2>. QED  BY <2>3 DEF Added
<1>3. F \in [Nat -> [S -> S]]
  <2>. HIDE DEF S
  <2>. QED  BY <1>2
<1>4. PICK g \in [Nat -> S] : Runs(g, s, F)
  <2>. HIDE DEF S, s, F
  <2>. QED  BY <1>1, <1>3, Recursion
<1>. DEFINE f == [i \in 0..(w - j) |-> g[i]]
<1>5. ASSUME NEW i \in 0..(w - j)
      PROVE  f[i] = IF i = 0 THEN s
                    ELSE Big!AddAt(f[i - 1], i - 1 + j, Big!At(a, j, past) * Big!At(b, i - 1, past))
  <2>1. CASE i = 0
    BY <1>4, <2>1 DEF Runs
  <2>2. CASE i # 0
    <3>1. i - 1 \in Nat /\ (i - 1) + 1 = i /\ i - 1 < w - j /\ i - 1 \in 0..(w - j) /\ j \in Nat
      BY <2>2
    <3>2. g[i] = F[i - 1][g[i - 1]] /\ g[i - 1] \in S
      BY <1>4, <3>1 DEF Runs
    <3>3. F[i - 1][g[i - 1]] = RowStep(a, b, j, i - 1, g[i - 1])
      <4>. HIDE DEF S
      <4>. QED  BY <3>1, <3>2
    <3>4. f[i] = g[i] /\ f[i - 1] = g[i - 1]
      BY <3>1
    <3>5. Big!At(a, j, past) = Ext(a)[j] /\ Big!At(b, i - 1, past) = Ext(b)[i - 1]
      BY <3>1, AtIs
    <3>. HIDE DEF F, f
    <3>. QED  BY <2>2, <3>2, <3>3, <3>4, <3>5 DEF RowStep
  <2>. QED  BY <2>1, <2>2
<1>6. f = [i \in 0..(w - j) |-> f[i]]
  OBVIOUS
<1>7. RowRun(f, res, a, b, j, w, past)
  <2>. HIDE DEF f
  <2>. QED  BY <1>5, <1>6 DEF RowRun, s
<1>. QED  BY <1>7

\* After i steps of the inner loop: the array and the carry stand for what the
\* array stood for and the product of digit j of a and the first i of b.
RowSum(p, res, a, b, j, i, w) ==
    /\ p \in RowState(w)
    /\ Sums(Ext(p.res))[w] + p.carry * Big!Place[i + j] =
         Sums(Ext(res))[w] + (Ext(a)[j] * Big!Place[j]) * Sums(Ext(b))[i]

\* A step keeps that.
LEMMA RowStepIs ==
    ASSUME NEW w \in Nat, NEW res \in Big!Number(w),
           NEW m \in Nat, NEW a \in Big!Number(m), NEW n \in Nat, NEW b \in Big!Number(n),
           NEW j \in 0..(w - 1), NEW i \in Nat, i < w - j, NEW p, RowSum(p, res, a, b, j, i, w)
    PROVE  RowSum(RowStep(a, b, j, i, p), res, a, b, j, i + 1, w)
<1>. DEFINE q == RowStep(a, b, j, i, p)
            u == Ext(a)[j]
            v == Ext(b)[i]
            x == Sums(Ext(q.res))[w] + q.carry * Big!Place[(i + j) + 1]
            y == Sums(Ext(p.res))[w] + p.carry * Big!Place[i + j]
            P == Big!Place[j]
            Q == Big!Place[i]
            B == Sums(Ext(b))[i]
            z == Sums(Ext(res))[w]
<1>1. i + j \in 0..(w - 1) /\ j \in Nat /\ i + j \in Nat /\ (i + j) + 1 = (i + 1) + j
  OBVIOUS
<1>2. u \in Big!Byte /\ v \in Big!Byte /\ p \in RowState(w)
  BY <1>1, ExtByte DEF RowSum
<1>3. Added(q, p, w, i + j, u * v)
  BY <1>1, <1>2, AddAtIs DEF RowStep
<1>4. x = y + (u * v) * Big!Place[i + j] /\ q \in RowState(w)
  BY <1>3 DEF Added
<1>5. y = z + (u * P) * B
  BY DEF RowSum
<1>6. Big!Place[i + j] = Q * P
  <2>1. Radix \in Nat \ {0}
    BY AlgorithmsConstants
  <2>. QED  BY <1>1, <2>1, Places, PowerSum
<1>7. u \in Nat /\ v \in Nat /\ P \in Nat /\ Q \in Nat /\ B \in Nat /\ z \in Nat
  <2>1. Ext(a) \in Digits /\ Ext(b) \in Digits /\ Ext(res) \in Digits
    BY ExtDigits
  <2>. QED  BY <1>1, <2>1, DigitNat
<1>8. Sums(Ext(b))[i + 1] = B + v * Q
  BY ExtDigits, SumsStep
<1>9. x = z + (u * P) * (B + v * Q)
  <2>. HIDE DEF x, y, u, v, P, Q, B, z
  <2>1. (u * v) * (Q * P) = (u * P) * (v * Q)
    BY <1>7
  <2>2. (u * P) * (B + v * Q) = (u * P) * B + (u * P) * (v * Q)
    BY <1>7
  <2>3. (u * P) * B \in Nat /\ (u * P) * (v * Q) \in Nat
    BY <1>7
  <2>. DEFINE s == (u * P) * B
              t == (u * P) * (v * Q)
  <2>4. x = (z + s) + t /\ (u * P) * (B + v * Q) = s + t /\ s \in Nat /\ t \in Nat
    BY <1>4, <1>5, <1>6, <2>1, <2>2, <2>3
  <2>. HIDE DEF s, t
  <2>. QED  BY <1>7, <2>4
<1>. QED  BY <1>1, <1>4, <1>8, <1>9 DEF RowSum

\* What the inner loop leaves.
LEMMA AddRowIs ==
    ASSUME "mult_bounds" \in Repaired, NEW w \in Nat, NEW res \in Big!Number(w),
           NEW m \in Nat, NEW a \in Big!Number(m), NEW n \in Nat, NEW b \in Big!Number(n),
           NEW j \in 0..(w - 1), NEW past
    PROVE  \E p : RowSum(p, res, a, b, j, w - j, w) /\ Big!AddRow(res, a, b, j, w, past) = p.res
<1>. DEFINE f == CHOOSE g : RowRun(g, res, a, b, j, w, past)
            T == {i \in 0..(w - j) : ~ RowSum(f[i], res, a, b, j, i, w)}
<1>1. Big!AddRow(res, a, b, j, w, past) = f[w - j].res
  BY Zenon DEF Big!AddRow, RowRun
<1>2. RowRun(f, res, a, b, j, w, past)
  BY RowExists
<1>. HIDE DEF f
<1>3. T = {}
  <2>. SUFFICES ASSUME T # {} PROVE FALSE
    OBVIOUS
  <2>1. PICK i \in T : \A k \in T : i <= k
    <3>1. T \subseteq Nat
      OBVIOUS
    <3>. HIDE DEF T
    <3>. QED  BY <3>1, LeastNumber
  <2>2. i \in 0..(w - j) /\ ~ RowSum(f[i], res, a, b, j, i, w)
    BY <2>1
  <2>3. CASE i = 0
    <3>1. f[i] = [res |-> res, carry |-> 0]
      BY <1>2, <2>2, <2>3 DEF RowRun
    <3>2. 0 \in Big!Byte
      BY AlgorithmsConstants DEF Big!Byte
    <3>3. f[i] \in RowState(w) /\ f[i].res = res /\ f[i].carry = 0
      BY <3>1, <3>2 DEF RowState
    <3>4. Sums(Ext(b))[i] = 0
      BY <2>3, ExtDigits, SumsStep
    <3>5. Big!Place[i + j] \in Nat /\ Ext(a)[j] * Big!Place[j] \in Nat /\ Sums(Ext(res))[w] \in Nat
      <4>1. Ext(a) \in Digits /\ Ext(res) \in Digits /\ j \in Nat /\ i + j \in Nat
        BY <2>2, ExtDigits
      <4>. QED  BY <4>1, DigitNat
    <3>6. 0 * Big!Place[i + j] = 0 /\ (Ext(a)[j] * Big!Place[j]) * 0 = 0
      <4>. DEFINE e == Ext(a)[j] * Big!Place[j]
      <4>. HIDE DEF e
      <4>1. e \in Nat
        BY <3>5 DEF e
      <4>2. e * 0 = 0
        BY <4>1
      <4>. QED  BY <3>5, <4>2 DEF e
    <3>7. RowSum(f[i], res, a, b, j, i, w)
      BY <3>3, <3>4, <3>6 DEF RowSum
    <3>. QED  BY <2>2, <3>7
  <2>4. CASE i # 0
    <3>1. i - 1 \in Nat /\ (i - 1) + 1 = i /\ i - 1 < w - j /\ i - 1 \in 0..(w - j) /\ j \in Nat
          /\ ~ i <= i - 1
      BY <2>2, <2>4
    <3>2. RowSum(f[i - 1], res, a, b, j, i - 1, w)
      BY <2>1, <3>1
    <3>3. f[i] = Big!AddAt(f[i - 1], i - 1 + j, Big!At(a, j, past) * Big!At(b, i - 1, past))
      BY <1>2, <2>2, <2>4 DEF RowRun
    <3>4. Big!At(a, j, past) = Ext(a)[j] /\ Big!At(b, i - 1, past) = Ext(b)[i - 1]
      BY <3>1, AtIs
    <3>5. f[i] = RowStep(a, b, j, i - 1, f[i - 1])
      BY <3>3, <3>4 DEF RowStep
    <3>6. RowSum(f[i], res, a, b, j, (i - 1) + 1, w)
      BY <3>1, <3>2, <3>5, RowStepIs
    <3>. QED  BY <2>2, <3>1, <3>6
  <2>. QED  BY <2>3, <2>4
<1>4. RowSum(f[w - j], res, a, b, j, w - j, w)
  BY <1>3
<1>. QED  BY <1>1, <1>4

\* More digits never make a number smaller.
LEMMA SumsGrow ==
    ASSUME NEW x \in Digits, NEW n \in Nat, NEW m \in Nat, n <= m
    PROVE  Sums(x)[n] <= Sums(x)[m]
<1>. DEFINE T == {j \in n..m : ~ (Sums(x)[n] <= Sums(x)[j])}
<1>. SUFFICES ASSUME T # {} PROVE FALSE
  OBVIOUS
<1>1. PICK j \in T : \A k \in T : j <= k
  <2>1. T \subseteq Nat
    OBVIOUS
  <2>. HIDE DEF T
  <2>. QED  BY <2>1, LeastNumber
<1>2. j # n
  BY <1>1, DigitNat
<1>3. j - 1 \in Nat /\ (j - 1) + 1 = j /\ j - 1 \in n..m /\ ~ j <= j - 1
  BY <1>1, <1>2
<1>4. Sums(x)[n] <= Sums(x)[j - 1]
  BY <1>1, <1>3
<1>5. Sums(x)[j] = Sums(x)[j - 1] + x[j - 1] * Big!Place[j - 1]
  BY <1>3, SumsStep
<1>6. Sums(x)[n] \in Nat /\ Sums(x)[j - 1] \in Nat /\ x[j - 1] * Big!Place[j - 1] \in Nat
  BY <1>3, DigitNat
<1>7. Sums(x)[n] <= Sums(x)[j]
  BY <1>4, <1>5, <1>6
<1>. QED  BY <1>1, <1>7

\* The product of two numbers fits their joint width.
LEMMA ProductFits ==
    ASSUME NEW p \in Nat \ {0}, NEW q \in Nat \ {0}, NEW x \in Nat, NEW y \in Nat, x < p, y < q
    PROVE  x * y < p * q
<1>1. x * y <= x * q
  BY ProductLeq
<1>2. q * (x + 1) <= q * p
  <2>1. x + 1 \in Nat /\ x + 1 <= p /\ q \in Nat /\ p \in Nat
    OBVIOUS
  <2>. QED  BY <2>1, ProductLeq
<1>3. q * (x + 1) = x * q + q /\ q * p = p * q
  OBVIOUS
<1>4. x * y \in Nat /\ x * q \in Nat /\ p * q \in Nat
  OBVIOUS
<1>. DEFINE a == x * y
            b == x * q
            c == p * q
<1>5. a <= b /\ b + q <= c /\ a \in Nat /\ b \in Nat /\ c \in Nat
  BY <1>1, <1>2, <1>3, <1>4
<1>. HIDE DEF a, b, c
<1>6. a < c
  BY <1>5
<1>. QED  BY <1>6 DEF a, c

\* f is defined by the recursion of big_mult.
MultRun(f, a, b, w, past) ==
    f = [j \in 0..w |-> IF j = 0 THEN [i \in 0..(w - 1) |-> 0]
                        ELSE Big!AddRow(f[j - 1], a, b, j - 1, w, past)]

\* The array after j rows holds the product of the first j digits of a with b.
Rows(r, a, b, n, j, w) ==
    /\ r \in Big!Number(w)
    /\ Sums(Ext(r))[w] = Sums(Ext(a))[j] * Sums(Ext(b))[n]

\* A row adds the product of its digit, and no carry is left.
LEMMA RowsStep ==
    ASSUME "mult_bounds" \in Repaired,
           NEW m \in Nat, NEW a \in Big!Number(m), NEW n \in Nat, NEW b \in Big!Number(n),
           NEW w, w = m + n, NEW j \in 0..(w - 1), NEW past, NEW r, Rows(r, a, b, n, j, w)
    PROVE  Rows(Big!AddRow(r, a, b, j, w, past), a, b, n, j + 1, w)
<1>. DEFINE s == Big!AddRow(r, a, b, j, w, past)
            x == Ext(a)
            y == Ext(b)
            u == x[j]
            P == Big!Place[j]
            W == Big!Place[w]
            B == Sums(y)[n]
            A == Sums(x)[j]
            C == Sums(x)[j + 1]
            v == Sums(Ext(s))[w]
<1>1. w \in Nat /\ j \in Nat /\ w - j \in Nat /\ (w - j) + j = w /\ r \in Big!Number(w)
  BY DEF Rows
<1>2. PICK p : RowSum(p, r, a, b, j, w - j, w) /\ s = p.res
  BY <1>1, AddRowIs
<1>. DEFINE c == p.carry
<1>3. s \in Big!Number(w) /\ c \in Big!Byte
  BY <1>2 DEF RowSum, RowState
<1>4. /\ x \in Digits /\ y \in Digits /\ Bytewise(x) /\ Bytewise(y) /\ Ended(x, m) /\ Ended(y, n)
      /\ Ext(s) \in Digits
  BY <1>1, <1>3, ExtDigits
<1>5. v + c * W = Sums(Ext(r))[w] + (u * P) * Sums(y)[w - j]
  BY <1>1, <1>2 DEF RowSum
<1>6. Sums(Ext(r))[w] = A * B
  BY DEF Rows
<1>. HIDE DEF x, y, s
<1>7. /\ u \in Nat /\ P \in Nat /\ W \in Nat \ {0} /\ A \in Nat /\ B \in Nat /\ C \in Nat
      /\ v \in Nat /\ Sums(y)[w - j] \in Nat
  <2>1. w \in Nat /\ j \in Nat /\ j + 1 \in Nat /\ w - j \in Nat
    BY <1>1
  <2>2. u \in Nat /\ P \in Nat /\ A \in Nat /\ C \in Nat
    BY <1>4, <2>1, DigitNat
  <2>3. W \in Nat \ {0} /\ v \in Nat
    BY <1>4, <2>1, DigitNat
  <2>4. B \in Nat /\ Sums(y)[w - j] \in Nat
    BY <1>4, <2>1, DigitNat
  <2>. QED  BY <2>2, <2>3, <2>4
<1>8. (u * P) * Sums(y)[w - j] = (u * P) * B
  <2>1. CASE j < m
    <3>1. n <= w - j
      BY <2>1
    <3>2. Sums(y)[w - j] = B
      BY <1>1, <1>4, <3>1, SumsEnd
    <3>. QED  BY <3>2
  <2>2. CASE ~ (j < m)
    <3>1. m <= j
      BY <2>2
    <3>2. u = 0
      BY <1>1, <1>4, <3>1 DEF Ended
    <3>. DEFINE g == Sums(y)[w - j]
    <3>3. g \in Nat
      BY <1>7
    <3>. HIDE DEF g, u, P, B
    <3>4. (u * P) * g = 0 /\ (u * P) * B = 0
      BY <1>7, <3>2, <3>3
    <3>. QED  BY <3>4 DEF g
  <2>. QED  BY <2>1, <2>2
<1>9. C = A + u * P
  BY <1>1, <1>4, SumsStep
<1>10. v + c * W = C * B
  <2>. HIDE DEF v, c, W, A, B, C, u, P
  <2>1. (A + u * P) * B = A * B + (u * P) * B
    BY <1>7
  <2>. QED  BY <1>5, <1>6, <1>8, <1>9, <2>1
<1>11. C * B < W
  <2>1. C < Big!Place[m]
    <3>1. CASE j + 1 <= m
      <4>1. C <= Sums(x)[m]
        BY <1>1, <1>4, <3>1, SumsGrow
      <4>2. Sums(x)[m] < Big!Place[m] /\ Sums(x)[m] \in Nat /\ Big!Place[m] \in Nat
        BY <1>4, SumsBound, DigitNat
      <4>. HIDE DEF C
      <4>. QED  BY <1>7, <4>1, <4>2
    <3>2. CASE ~ (j + 1 <= m)
      <4>1. m <= j + 1 /\ j + 1 \in Nat
        BY <1>1, <3>2
      <4>2. C = Sums(x)[m]
        BY <1>4, <4>1, SumsEnd
      <4>. QED  BY <1>4, <4>2, SumsBound
    <3>. QED  BY <3>1, <3>2
  <2>2. B < Big!Place[n]
    BY <1>4, SumsBound
  <2>3. W = Big!Place[m] * Big!Place[n]
    <3>1. Radix \in Nat \ {0}
      BY AlgorithmsConstants
    <3>. QED  BY <3>1, Places, PowerSum
  <2>. DEFINE p1 == Big!Place[m]
              p2 == Big!Place[n]
  <2>4. p1 \in Nat \ {0} /\ p2 \in Nat \ {0} /\ C < p1 /\ B < p2 /\ W = p1 * p2
    BY <1>4, <2>1, <2>2, <2>3, DigitNat
  <2>. HIDE DEF p1, p2, C, B, W
  <2>5. C * B < p1 * p2
    BY <1>7, <2>4, ProductFits
  <2>. QED  BY <2>4, <2>5
<1>12. c \in Nat
  BY <1>3, AlgorithmsConstants DEF Big!Byte
<1>13. c = 0
  <2>. HIDE DEF v, c, W, B, C
  <2>. SUFFICES ASSUME 1 <= c PROVE FALSE
    BY <1>12
  <2>1. W * 1 <= W * c
    BY <1>7, <1>12, ProductLeq
  <2>2. W * c = c * W /\ W * 1 = W /\ c * W \in Nat /\ C * B \in Nat
    BY <1>7, <1>12
  <2>. DEFINE cw == c * W
              cb == C * B
  <2>3. W <= cw /\ cw \in Nat /\ cb \in Nat /\ v + cw = cb /\ cb < W
    BY <1>10, <1>11, <2>1, <2>2
  <2>. HIDE DEF cw, cb
  <2>. QED  BY <1>7, <2>3
<1>14. v = C * B
  <2>. HIDE DEF v, c, W, B, C
  <2>1. c * W = 0
    BY <1>7, <1>13
  <2>. QED  BY <1>7, <1>10, <2>1
<1>. QED  BY <1>3, <1>14 DEF Rows, s, x, y

\* big_mult computes the product.
LEMMA MultIs ==
    ASSUME "mult_bounds" \in Repaired, NEW m \in Nat \ {0}, NEW a \in Big!Number(m),
           NEW n \in Nat \ {0}, NEW b \in Big!Number(n), NEW past
    PROVE  Big!Value(Big!big_mult(a, m, b, n, past)) = Big!Value(a) * Big!Value(b)
<1>. DEFINE w == m + n
            N == Big!Number(w)
            o == [i \in 0..(w - 1) |-> 0]
            F == [j \in Nat |-> [r \in N |-> IF j < w THEN Big!AddRow(r, a, b, j, w, past) ELSE r]]
            f == CHOOSE g : MultRun(g, a, b, w, past)
<1>1. w \in Nat \ {0}
  OBVIOUS
<1>2. o \in N
  BY AlgorithmsConstants DEF Big!Number, Big!Byte
<1>3. ASSUME NEW j \in Nat, NEW r \in N, j < w PROVE Big!AddRow(r, a, b, j, w, past) \in N
  <2>. HIDE DEF w
  <2>1. j \in 0..(w - 1)
    BY <1>1, <1>3
  <2>2. PICK p : RowSum(p, r, a, b, j, w - j, w) /\ Big!AddRow(r, a, b, j, w, past) = p.res
    BY <1>1, <2>1, AddRowIs
  <2>. QED  BY <2>2 DEF RowSum, RowState
<1>4. F \in [Nat -> [N -> N]]
  <2>. HIDE DEF N, w
  <2>. QED  BY <1>3
<1>5. PICK g \in [Nat -> N] : Runs(g, o, F)
  <2>. HIDE DEF N, o, F
  <2>. QED  BY <1>2, <1>4, Recursion
<1>6. \E h : MultRun(h, a, b, w, past)
  <2>. DEFINE h == [j \in 0..w |-> g[j]]
  <2>1. ASSUME NEW j \in 0..w
        PROVE  h[j] = IF j = 0 THEN o ELSE Big!AddRow(h[j - 1], a, b, j - 1, w, past)
    <3>1. CASE j = 0
      BY <1>5, <3>1 DEF Runs
    <3>2. CASE j # 0
      <4>. HIDE DEF w, N
      <4>1. j - 1 \in Nat /\ (j - 1) + 1 = j /\ j - 1 < w /\ j - 1 \in 0..w
        BY <1>1, <3>2
      <4>2. g[j] = F[j - 1][g[j - 1]] /\ g[j - 1] \in N
        BY <1>5, <4>1 DEF Runs
      <4>3. h[j] = g[j] /\ h[j - 1] = g[j - 1]
        BY <4>1
      <4>. QED  BY <3>2, <4>1, <4>2, <4>3
    <3>. QED  BY <3>1, <3>2
  <2>2. h = [j \in 0..w |-> h[j]]
    OBVIOUS
  <2>. HIDE DEF h, w
  <2>3. MultRun(h, a, b, w, past)
    BY <2>1, <2>2 DEF MultRun
  <2>. QED  BY <2>3
<1>7. Big!big_mult(a, m, b, n, past) = f[w]
  BY Zenon DEF Big!big_mult, MultRun
<1>8. MultRun(f, a, b, w, past)
  BY <1>6
<1>. HIDE DEF f
<1>9. Ext(a) \in Digits /\ Ext(b) \in Digits /\ Ended(Ext(a), m)
  BY ExtDigits
<1>10. Rows(o, a, b, n, 0, w)
  <2>1. \A i \in Nat : Ext(o)[i] = 0
    BY DEF Ext
  <2>2. Ext(o) \in Digits /\ Ended(Ext(o), 0)
    <3>1. Ended(Ext(o), 0)
      BY <2>1 DEF Ended
    <3>2. Ext(o) = [i \in Nat |-> Ext(o)[i]]
      BY DEF Ext
    <3>. QED  BY <2>1, <3>1, <3>2 DEF Digits
  <2>. HIDE DEF o, w
  <2>3. 0 \in Nat /\ 0 <= w
    BY <1>1
  <2>4. Sums(Ext(o))[w] = Sums(Ext(o))[0]
    BY <1>1, <2>2, <2>3, SumsEnd
  <2>5. Sums(Ext(o))[0] = 0 /\ Sums(Ext(a))[0] = 0
    BY <1>9, <2>2, SumsStep
  <2>6. Sums(Ext(b))[n] \in Nat
    BY <1>9, DigitNat
  <2>7. 0 * Sums(Ext(b))[n] = 0
    BY <2>6
  <2>. QED  BY <1>2, <2>4, <2>5, <2>7 DEF Rows
<1>11. \A j \in 0..w : Rows(f[j], a, b, n, j, w)
  <2>. DEFINE T == {j \in 0..w : ~ Rows(f[j], a, b, n, j, w)}
  <2>. SUFFICES ASSUME T # {} PROVE FALSE
    OBVIOUS
  <2>1. PICK j \in T : \A k \in T : j <= k
    <3>1. T \subseteq Nat
      OBVIOUS
    <3>. HIDE DEF T
    <3>. QED  BY <3>1, LeastNumber
  <2>2. j \in 0..w /\ ~ Rows(f[j], a, b, n, j, w)
    BY <2>1
  <2>3. f[j] = IF j = 0 THEN o ELSE Big!AddRow(f[j - 1], a, b, j - 1, w, past)
    BY <1>8, <2>2 DEF MultRun
  <2>4. j # 0
    BY <1>10, <2>2, <2>3
  <2>5. j - 1 \in 0..w /\ j - 1 \in 0..(w - 1) /\ (j - 1) + 1 = j /\ ~ j <= j - 1
    BY <2>2, <2>4
  <2>6. Rows(f[j - 1], a, b, n, j - 1, w)
    BY <2>1, <2>5
  <2>7. w = m + n
    OBVIOUS
  <2>. HIDE DEF w
  <2>8. Rows(Big!AddRow(f[j - 1], a, b, j - 1, w, past), a, b, n, (j - 1) + 1, w)
    BY <2>5, <2>6, <2>7, RowsStep
  <2>. QED  BY <2>2, <2>3, <2>4, <2>5, <2>8
<1>12. Rows(f[w], a, b, n, w, w)
  <2>. HIDE DEF w
  <2>. QED  BY <1>1, <1>11
<1>13. Sums(Ext(a))[w] = Sums(Ext(a))[m]
  BY <1>9, SumsEnd
<1>. HIDE DEF w
<1>14. Big!Value(f[w]) = Sums(Ext(f[w]))[w]
  BY <1>1, <1>12, ValueIs DEF Rows
<1>15. Big!Value(a) = Sums(Ext(a))[m] /\ Big!Value(b) = Sums(Ext(b))[n]
  BY ValueIs
<1>. QED  BY <1>7, <1>12, <1>13, <1>14, <1>15 DEF Rows

\* What the last call was, when it was one of bignum.c or util.c.
BytesCalled ==
    /\ call.op = "mult" =>
          \E m, n \in 1..MaxDigits, past \in Big!Byte :
             \E a \in Big!Number(m), b \in Big!Number(n) :
                call.arg = <<a, b>> /\ call.ret = Big!big_mult(a, m, b, n, past)
    /\ call.op = "compare" =>
          \E n \in 1..MaxDigits : \E a, b \in Big!Number(n) :
             call.arg = <<a, b>> /\ call.ret = Big!big_compare(a, b, n)
    /\ call.op = "hex" =>
          call.arg \in 0..255 /\ call.ret = Hex!hexstr_to_bytes(Hex!bytes_to_hexstr(call.arg))

\* With the statements of bignum.c and util.c corrected, for every radix and
\* numbers of any length: big_mult computes the product (a sum never exceeds
\* its 16 bits, and the carry at the end of a row is always zero), big_compare
\* orders numbers by what they stand for, and a byte written as hexadecimal
\* text is read back.
THEOREM BytesAreExact ==
    ASSUME {"mult_bounds", "compare_order", "nibble_mask"} \subseteq Repaired
    PROVE  Spec => []BytesExact
<1>1. Init => BytesCalled
  BY DEF Init, NoCall, BytesCalled
<1>2. ASSUME BytesCalled, [Next]_vars
      PROVE  BytesCalled'
  <2>1. CASE \E m, n \in 1..MaxDigits, past \in Big!Byte : CallMult(m, n, past)
    <3>1. PICK m \in 1..MaxDigits, n \in 1..MaxDigits, past \in Big!Byte : CallMult(m, n, past)
      BY <2>1
    <3>2. PICK a \in Big!Number(m), b \in Big!Number(n) :
             Called("mult", <<a, b>>, Big!big_mult(a, m, b, n, past))
      BY <3>1 DEF CallMult
    <3>3. call'.op = "mult" /\ call'.arg = <<a, b>> /\ call'.ret = Big!big_mult(a, m, b, n, past)
      BY <3>2 DEF Called
    <3>. QED  BY <3>3 DEF BytesCalled
  <2>2. CASE \E n \in 1..MaxDigits : CallCompare(n)
    <3>1. PICK n \in 1..MaxDigits : CallCompare(n)
      BY <2>2
    <3>2. PICK a \in Big!Number(n), b \in Big!Number(n) :
             Called("compare", <<a, b>>, Big!big_compare(a, b, n))
      BY <3>1 DEF CallCompare
    <3>3. call'.op = "compare" /\ call'.arg = <<a, b>> /\ call'.ret = Big!big_compare(a, b, n)
      BY <3>2 DEF Called
    <3>. QED  BY <3>3 DEF BytesCalled
  <2>3. CASE \E b \in 0..255 : CallHex(b)
    <3>1. PICK b \in 0..255 : CallHex(b)
      BY <2>3
    <3>2. call'.op = "hex" /\ call'.arg = b
          /\ call'.ret = Hex!hexstr_to_bytes(Hex!bytes_to_hexstr(b))
      BY <3>1 DEF CallHex, Called
    <3>. QED  BY <3>2 DEF BytesCalled
  <2>4. CASE \/ \E h \in Hash : AddHash(h) \/ DelHash(h)
             \/ \E c \in Branches : CallTrace(c)
             \/ Return
    <3>1. call'.op \notin {"mult", "compare", "hex"}
      BY <2>4 DEF AddHash, DelHash, CallTrace, Return, Called, NoCall
    <3>. QED  BY <3>1 DEF BytesCalled
  <2>5. CASE UNCHANGED vars
    <3>1. call' = call
      BY <2>5 DEF vars
    <3>. QED  BY <1>2, <3>1, Zenon DEF BytesCalled
  <2>. QED  BY <1>2, <2>1, <2>2, <2>3, <2>4, <2>5 DEF Next
<1>3. BytesCalled => BytesExact
  <2>. SUFFICES ASSUME BytesCalled PROVE BytesExact
    OBVIOUS
  <2>1. \A n \in 1..MaxDigits : n \in Nat \ {0}
    BY AlgorithmsConstants
  <2>2. ASSUME call.op = "mult"
        PROVE  Big!Value(call.ret) = Big!Value(call.arg[1]) * Big!Value(call.arg[2])
    <3>1. PICK m \in 1..MaxDigits, n \in 1..MaxDigits, past \in Big!Byte :
             \E a \in Big!Number(m), b \in Big!Number(n) :
                call.arg = <<a, b>> /\ call.ret = Big!big_mult(a, m, b, n, past)
      BY <2>2 DEF BytesCalled
    <3>2. PICK a \in Big!Number(m), b \in Big!Number(n) :
             call.arg = <<a, b>> /\ call.ret = Big!big_mult(a, m, b, n, past)
      BY <3>1
    <3>3. Big!Value(Big!big_mult(a, m, b, n, past)) = Big!Value(a) * Big!Value(b)
      BY <2>1, MultIs
    <3>4. call.arg[1] = a /\ call.arg[2] = b
      BY <3>2
    <3>. QED  BY <3>2, <3>3, <3>4
  <2>3. ASSUME call.op = "compare"
        PROVE  LET a == Big!Value(call.arg[1])
                   b == Big!Value(call.arg[2])
               IN  call.ret = IF a < b THEN -1 ELSE IF a > b THEN 1 ELSE 0
    <3>1. PICK n \in 1..MaxDigits : \E a, b \in Big!Number(n) :
             call.arg = <<a, b>> /\ call.ret = Big!big_compare(a, b, n)
      BY <2>3 DEF BytesCalled
    <3>2. PICK a \in Big!Number(n), b \in Big!Number(n) :
             call.arg = <<a, b>> /\ call.ret = Big!big_compare(a, b, n)
      BY <3>1
    <3>3. Big!big_compare(a, b, n) = IF Big!Value(a) < Big!Value(b) THEN -1
                                     ELSE IF Big!Value(a) > Big!Value(b) THEN 1 ELSE 0
      BY <2>1, CompareIs
    <3>4. call.arg[1] = a /\ call.arg[2] = b
      BY <3>2
    <3>. QED  BY <3>2, <3>3, <3>4
  <2>4. ASSUME call.op = "hex" PROVE call.ret = call.arg
    BY <2>4, HexIs DEF BytesCalled
  <2>. QED  BY <2>2, <2>3, <2>4 DEF BytesExact
<1>. QED  BY <1>1, <1>2, <1>3, PTL DEF Spec
==============================================================================
