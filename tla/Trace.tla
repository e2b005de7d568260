-------------------------------- MODULE Trace --------------------------------
(***************************************************************************)
(* valid_connectable_to_chain of validation.c on a branch that leaves the  *)
(* chain at some height: block 0 of the branch is the block of the chain   *)
(* it starts from, block j is j heights above.  A case has                 *)
(*   height    the height of the chain,                                    *)
(*   fork      the height of the branch's block 0,                         *)
(*   start     the block the trace starts at,                              *)
(*   missing   blocks that are not in the database,                        *)
(*   invalid   blocks valid_block refuses,                                 *)
(*   check     the caller's check_validity.                                *)
(***************************************************************************)
EXTENDS Integers

CONSTANTS
    REASONABLE_CONFIRMATIONS,
    UIntCount,    \* the values of a uint
    Repaired

\* valid_if: the test of a block's validity guards the whole trace, and the
\*   wrong way round (validation.c:27);
\* missing_block: a failed read leaves the last block in the buffer, so its
\*   predecessor is looked for for ever (validation.c:26, 34);
\* confirm_wrap: the height less the confirmations wraps (validation.c:28).
TraceStatements == {"valid_if", "missing_block", "confirm_wrap"}

\* The answer of a trace that does not end.
Never == 99

\* Fault: the difference of two uints below zero.
FaultyRecent(c, h) == h > (c.height - REASONABLE_CONFIRMATIONS) % UIntCount

Recent(c, h) ==
    IF "confirm_wrap" \in Repaired
    THEN h + REASONABLE_CONFIRMATIONS > c.height
    ELSE h > (c.height - REASONABLE_CONFIRMATIONS) % UIntCount

\* A block whose validity ends the trace, and the answer then.
Refused(c, j) == IF "valid_if" \in Repaired THEN c.check /\ j \in c.invalid
                                            ELSE j \notin c.invalid
RefusedAnswer == IF "valid_if" \in Repaired THEN -1 ELSE 0

valid_connectable_to_chain(c) ==
    LET trace[j \in 0..c.start] ==
            CASE j \in c.missing -> IF "missing_block" \in Repaired THEN 0
                                                                    ELSE Never
              [] j \notin c.missing /\ Refused(c, j) -> RefusedAnswer
              [] OTHER -> IF ~ Recent(c, c.fork + j) THEN 0
                          ELSE IF j = 0 THEN 1 ELSE trace[j - 1]
    IN  trace[c.start]

\* What validation.h:20 to 27 says of the answer.
Old(c, j)  == c.fork + j <= c.height - REASONABLE_CONFIRMATIONS
Stops(c)   == {j \in 0..c.start : \/ j \in c.missing \/ Old(c, j)
                                  \/ c.check /\ j \in c.invalid}
Connects(c) ==
    IF Stops(c) = {} THEN 1
    ELSE LET first == CHOOSE j \in Stops(c) : \A k \in Stops(c) : k <= j
         IN  IF c.check /\ first \in c.invalid \ c.missing THEN -1 ELSE 0

==============================================================================
