----------------------------- MODULE LimboLevel ------------------------------
(***************************************************************************)
(* A record of the limbo database as array.c keeps it: an array of hashes  *)
(* with a count in front.  array_add and array_del are functions from one  *)
(* state of the record to the next, with the reading and writing back that *)
(* data_limbo_safe_add and data_limbo_del do around them.  Ledger takes a  *)
(* level for a set with a cap.                                             *)
(***************************************************************************)
EXTENDS Integers

CONSTANTS
    Hash,
    Junk,        \* uninitialised memory
    LevelCap,    \* LIMBO_MAX_LEVEL_SIZE
    UIntCount,   \* the values of a uint
    Repaired

\* absent_level: the count of a level that has no record is what the buffer
\*   held (data.c:431 to 435);
\* count_store: the array is passed by value, so its new length is lost
\*   (array.c:26, 39);
\* overflow_check: the length is multiplied by the size of a hash
\*   (array.c:17);
\* memcmp_sense: a difference is taken for a match (array.c:22, 35);
\* loop_bound: the search goes on to the end of the memory (array.c:21, 32).
LevelStatements == {"absent_level", "count_store", "overflow_check",
                    "memcmp_sense", "loop_bound"}

UnitSize == 32
Slot == 0..(LevelCap - 1)

\* A level nobody has written.
NewLevels ==
    [slots : {[i \in Slot |-> Junk]},
     length : IF "absent_level" \in Repaired THEN {0} ELSE 0..LevelCap]

Overflows(l) == IF "overflow_check" \in Repaired THEN l.length >= LevelCap
                ELSE (UnitSize + 1) * l.length >= LevelCap

\* The loops look at slot i.
Looked(l, i) == "loop_bound" \in Repaired => i < l.length

Matches(cell, h) == IF "memcmp_sense" \in Repaired THEN cell = h ELSE cell # h

\* The length that is found when the level is read again.
Stored(l, length) == IF "count_store" \in Repaired THEN length ELSE l.length

array_add(l, h) ==
    IF \/ Overflows(l)
       \/ \E i \in Slot : Looked(l, i) /\ Matches(l.slots[i], h)
    THEN l
    ELSE [slots  |-> [i \in Slot |-> IF i = l.length THEN h ELSE l.slots[i]],
          length |-> Stored(l, l.length + 1)]

\* Fault: the hole is not filled.
FaultyWithout(l, i) == [l EXCEPT !.length = @ - 1]

\* The last hash moves to slot i.  Memory past the record is not modelled.
Without(l, i) ==
    LET last == l.length - 1
    IN  [slots  |-> IF l.length > 1 /\ i # last
                    THEN [l.slots EXCEPT ![i] = IF last \in Slot THEN l.slots[last]
                                                ELSE Junk]
                    ELSE l.slots,
         length |-> last % UIntCount]

array_del(l, h) ==
    LET after[i \in 0..LevelCap] ==
            IF i = 0 THEN l
            ELSE LET p == after[i - 1]
                 IN  IF Looked(p, i - 1) /\ Matches(p.slots[i - 1], h)
                     THEN Without(p, i - 1) ELSE p
        end == after[LevelCap]
    IN  [end EXCEPT !.length = Stored(l, @)]

\* The hashes data_limbo_scan goes through.
Listed(l) == {l.slots[i] : i \in {i \in Slot : i < l.length}}

==============================================================================
