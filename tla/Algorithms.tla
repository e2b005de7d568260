----------------------------- MODULE Algorithms ------------------------------
(***************************************************************************)
(* The node's pure functions next to what they should compute.  A level of *)
(* limbo is taken through every sequence of additions and deletions beside *)
(* the set Ledger takes it for; the other functions are called once with   *)
(* every argument, and the answer is kept for the properties to judge.     *)
(* They do not look at the level, so they are called while it is new.      *)
(***************************************************************************)
EXTENDS Digits, FiniteSets

CONSTANTS
    Hash, Junk, LevelCap,
    REASONABLE_CONFIRMATIONS, MaxChain, MaxBranch,
    MaxDigits,
    UIntCount,
    Repaired

Level == INSTANCE LimboLevel
Trace == INSTANCE Trace
Big   == INSTANCE Bignum
Hex   == INSTANCE Hex

Statements == Level!LevelStatements \cup Trace!TraceStatements
              \cup Big!BignumStatements \cup Hex!HexStatements

ASSUME AlgorithmsConstants ==
    /\ Junk \notin Hash
    /\ UIntCount \in Nat
    /\ LevelCap \in Nat \ {0} /\ LevelCap < UIntCount
    /\ REASONABLE_CONFIRMATIONS \in Nat
    /\ Radix \in Nat \ {0, 1} /\ MaxDigits \in Nat
    /\ Repaired \subseteq Statements

VARIABLES
    level,     \* a record of the limbo database
    listed,    \* the hashes that should be in it
    call       \* the last call of another function and its answer

vars == <<level, listed, call>>

NoCall == [op |-> "none"]

Init ==
    /\ level \in Level!NewLevels
    /\ listed = {}
    /\ call = NoCall

\* What Ledger's data_limbo_safe_add and data_limbo_del make of the level.
AddHash(h) ==
    /\ level' = Level!array_add(level, h)
    /\ listed' = IF Cardinality(listed) < LevelCap THEN listed \cup {h} ELSE listed
    /\ call' = NoCall

DelHash(h) ==
    /\ level' = Level!array_del(level, h)
    /\ listed' = listed \ {h}
    /\ call' = NoCall

Called(op, arg, ret) ==
    /\ level \in Level!NewLevels /\ call = NoCall
    /\ call' = [op |-> op, arg |-> arg, ret |-> ret]
    /\ UNCHANGED <<level, listed>>

\* Branches off chains of every height up to MaxChain.
Branches ==
    {c \in [height : 0..MaxChain, fork : 0..MaxChain, start : 1..MaxBranch,
            missing : SUBSET (1..MaxBranch), invalid : SUBSET (1..MaxBranch),
            check : BOOLEAN] :
        c.fork <= c.height /\ c.missing \cup c.invalid \subseteq 1..c.start}

CallTrace(c) == Called("trace", c, Trace!valid_connectable_to_chain(c))

CallMult(m, n, past) ==
    \E a \in Big!Number(m), b \in Big!Number(n) :
        Called("mult", <<a, b>>, Big!big_mult(a, m, b, n, past))

CallCompare(n) ==
    \E a, b \in Big!Number(n) :
        Called("compare", <<a, b>>, Big!big_compare(a, b, n))

CallHex(b) == Called("hex", b, Hex!hexstr_to_bytes(Hex!bytes_to_hexstr(b)))

\* The answer is used, and the next function may be called.
Return == call # NoCall /\ call' = NoCall /\ UNCHANGED <<level, listed>>

Next ==
    \/ \E h \in Hash : AddHash(h) \/ DelHash(h)
    \/ \E c \in Branches : CallTrace(c)
    \/ \E m, n \in 1..MaxDigits, past \in Big!Byte : CallMult(m, n, past)
    \/ \E n \in 1..MaxDigits : CallCompare(n)
    \/ \E b \in 0..255 : CallHex(b)
    \/ Return

Spec == Init /\ [][Next]_vars

------------------------------------------------------------------------------
(* Properties.                                                             *)

\* A level lists each of its hashes once, and they are the ones the set
\* with a cap holds, after any sequence of calls: no deletion leaves a copy
\* or loses another hash, and a hash that was deleted can come back
\* (array.c:14 to 42).
LevelIsCappedSet ==
    /\ Level!Listed(level) = listed
    /\ level.length = Cardinality(listed)

\* The trace of a branch answers what its contract says, also while the
\* chain is lower than the confirmations (validation.h:20 to 27).
TraceAnswers == call.op = "trace" => call.ret = Trace!Connects(call.arg)

\* big_mult computes the product, its 16 bits never overflowing and no carry
\* lost at the end of a row; big_compare orders numbers by what they stand
\* for; bytes written as hexadecimal text are read back as they were
\* (bignum.c:6 to 40, util.c:10 to 44).
BytesExact ==
    /\ call.op = "mult" =>
           Big!Value(call.ret) = Big!Value(call.arg[1]) * Big!Value(call.arg[2])
    /\ call.op = "compare" =>
           LET a == Big!Value(call.arg[1])
               b == Big!Value(call.arg[2])
           IN  call.ret = IF a < b THEN -1 ELSE IF a > b THEN 1 ELSE 0
    /\ call.op = "hex" => call.ret = call.arg

==============================================================================
