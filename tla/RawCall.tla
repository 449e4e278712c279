------------------------------- MODULE RawCall -------------------------------
(***************************************************************************)
(* What a raw primitive syscall<k>(n, a1, ..., ak) promises the code above *)
(* it: the kernel is asked once, for exactly the call that was made, and   *)
(* what it answers is what the primitive returns.  Registers, stack and    *)
(* instructions do not appear.                                             *)
(***************************************************************************)
CONSTANTS
    Call,       \* the calls: the number and the arguments, by position
    Word,       \* what a kernel answers
    Nothing     \* neither a call nor a word

VARIABLES
    phase,      \* "idle", "called", "asked" or "served"
    call,       \* the call made last
    asked,      \* what the kernel is being asked, Nothing while it is not
    answer,     \* what it answered last
    ret         \* what the primitive returned last

vars == <<phase, call, asked, answer, ret>>

Init ==
    /\ phase = "idle"
    /\ call \in Call
    /\ asked = Nothing
    /\ answer = Nothing
    /\ ret = Nothing

Invoke ==
    /\ phase = "idle"
    /\ phase' = "called"
    /\ call' \in Call
    /\ UNCHANGED <<asked, answer, ret>>

Ask ==
    /\ phase = "called"
    /\ phase' = "asked"
    /\ asked' = call
    /\ UNCHANGED <<call, answer, ret>>

Serve ==
    /\ phase = "asked"
    /\ phase' = "served"
    /\ asked' = Nothing
    /\ answer' \in Word
    /\ UNCHANGED <<call, ret>>

Deliver ==
    /\ phase = "served"
    /\ phase' = "idle"
    /\ ret' = answer
    /\ UNCHANGED <<call, asked, answer>>

Next == Invoke \/ Ask \/ Serve \/ Deliver

Spec == Init /\ [][Next]_vars
=============================================================================
