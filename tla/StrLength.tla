------------------------------ MODULE StrLength ------------------------------
(***************************************************************************)
(* detail::str_length, the loop behind every print of a string: it walks   *)
(* memory from the string's address until it reads a NUL.  Memory ends     *)
(* where the mapping of the string ends, which may be the very byte after  *)
(* the terminator: one read too many is a fault.                           *)
(* A definition whose name ends in Mutant is a bug the runs must find; see *)
(* the README.                                                             *)
(***************************************************************************)
EXTENDS Integers

CONSTANTS
    Byte,       \* the values of a char
    NUL,        \* '\0'
    Region      \* mapped memory regions, functions from 0 .. n to Byte

ASSUME ByteAssumption == NUL \in Byte
\* The caller's obligation: "a NUL-terminated string".
ASSUME RegionAssumption ==
    \A m \in Region : \E last \in DOMAIN m :
        /\ last \in Nat
        /\ m \in [0 .. last -> Byte]
        /\ \E i \in 0 .. last : m[i] = NUL

VARIABLES
    string,     \* the memory from the string's address on
    length,     \* the loop's counter
    pc          \* "test" the loop condition, "body", "done", or "fault"

vars == <<string, length, pc>>

\* A counter that starts before the string, for a loop that increments first.
EarlyStartMutant ==
    /\ string \in Region
    /\ length = -1
    /\ pc = "test"

Init ==
    /\ string \in Region
    /\ length = 0
    /\ pc = "test"

\* A loop that looks one byte ahead.
LookaheadMutant ==
    /\ pc = "test"
    /\ pc' = IF length + 1 \notin DOMAIN string THEN "fault"
             ELSE IF string[length + 1] # NUL THEN "body" ELSE "done"
    /\ UNCHANGED <<string, length>>

\* while (string[length] != '\0')
Test ==
    /\ pc = "test"
    /\ pc' = IF length \notin DOMAIN string THEN "fault"
             ELSE IF string[length] # NUL THEN "body" ELSE "done"
    /\ UNCHANGED <<string, length>>

\* A body that forgets the increment.
NoIncrementMutant ==
    /\ pc = "body"
    /\ pc' = "test"
    /\ UNCHANGED <<string, length>>

\* ++length;
Body ==
    /\ pc = "body"
    /\ length' = length + 1
    /\ pc' = "test"
    /\ UNCHANGED string

\* A counter that survives the call.
NoResetMutant ==
    /\ pc = "done"
    /\ string' \in Region
    /\ pc' = "test"
    /\ UNCHANGED length

\* The caller calls again with another string.
Again ==
    /\ pc = "done"
    /\ string' \in Region
    /\ length' = 0
    /\ pc' = "test"

Next == Test \/ Body \/ Again

Spec == Init /\ [][Next]_vars /\ WF_vars(Test \/ Body)
-----------------------------------------------------------------------------
TypeOK ==
    /\ string \in Region
    /\ length \in Nat
    /\ pc \in {"test", "body", "done", "fault"}

\* n is the length of the string that starts m.
IsLength(m, n) ==
    /\ n \in DOMAIN m
    /\ m[n] = NUL
    /\ \A i \in 0 .. n - 1 : m[i] # NUL

(* What str_length returns is the index of the first NUL: write_string      *)
(* hands the kernel the whole string and not a byte after it.               *)
ResultIsLength == pc = "done" => IsLength(string, length)

(* The loop never reads a byte past the terminator, so it cannot leave the  *)
(* mapping that holds the string.                                           *)
NeverFaults == pc # "fault"

(* Every call returns: the loop has no other way to stop than the NUL.      *)
Terminates == pc = "test" ~> pc = "done"
-----------------------------------------------------------------------------
(* The loop invariant: nothing before the counter is a NUL, and there is    *)
(* one at it or after it.                                                   *)
Inv ==
    /\ TypeOK
    /\ \A i \in 0 .. length - 1 : string[i] # NUL
    /\ \E i \in DOMAIN string : i >= length /\ string[i] = NUL
    /\ pc = "body" => length \in DOMAIN string /\ string[length] # NUL
    /\ pc # "fault"
    /\ ResultIsLength
=============================================================================
