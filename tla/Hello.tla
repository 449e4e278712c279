-------------------------------- MODULE Hello --------------------------------
(***************************************************************************)
(* What a user of ib_app sees: some of the text, from its beginning, on    *)
(* the standard output, nothing anywhere else, and then exit status 0.     *)
(***************************************************************************)
EXTENDS Integers, Sequences

CONSTANT Text

VARIABLES
    stdout,     \* the standard output
    sent,       \* what has been written, as pairs of a file and its content
    stage,      \* "main", then "ending", then "over"
    status      \* exit status, -1 while the process runs

vars == <<stdout, sent, stage, status>>

Init == sent = {} /\ stage = "main" /\ status = -1

\* A write that fails and one of no bytes leave the same.
Write ==
    /\ stage = "main"
    /\ \E n \in 0 .. Len(Text) :
         sent' = IF n = 0 THEN {} ELSE {<<stdout, SubSeq(Text, 1, n)>>}
    /\ stage' = "ending"
    /\ UNCHANGED <<stdout, status>>

Exit ==
    /\ stage = "ending"
    /\ status' = 0
    /\ stage' = "over"
    /\ UNCHANGED <<stdout, sent>>

Spec == Init /\ [][Write \/ Exit]_vars
=============================================================================
