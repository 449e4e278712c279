------------------------------- MODULE SysApi -------------------------------
(***************************************************************************)
(* What ib.sys promises the program that calls it, in the words of the     *)
(* comments over its functions: write and print report the number of bytes *)
(* written or a negative error code, mmap returns the mapped address or    *)
(* MAP_FAILED, exit does not return.  An operation is a call, one effect   *)
(* on the outside world, and an answer that tells the truth about it.      *)
(***************************************************************************)
EXTENDS Integers, Sequences

CONSTANTS
    Fd,         \* file descriptors
    Page,       \* addresses a mapping may start at
    MapFailed,  \* MAP_FAILED, not an address
    Words       \* how many words there are; the upper half of them are the
                \* negative numbers

VARIABLES
    file,       \* the bytes each descriptor has received
    mapped,     \* the mappings: [at |-> address, offset |-> file offset]
    phase,      \* "idle", "called", "served", or "over" after exit
    call,       \* the operation called last
    outcome,    \* its result once served, handed out by Answer
    status      \* exit status, -1 while the process runs

vars == <<file, mapped, phase, call, outcome, status>>

Init ==
    /\ file = [f \in Fd |-> << >>]
    /\ mapped = {}
    /\ phase = "idle"
    /\ call = [op |-> "none"]
    /\ outcome = 0
    /\ status = -1

WriteCall(c) == c.op = "write" /\ c.fd \in Int /\ c.data \in Seq(Int)
MmapCall(c) == c.op = "mmap" /\ c.offset \in Int
ExitCall(c) == c.op = "exit" /\ c.status \in Int

\* The program calls an operation, which has no outcome yet.
Call ==
    /\ phase = "idle"
    /\ WriteCall(call') \/ MmapCall(call') \/ ExitCall(call')
    /\ phase' = "called"
    /\ UNCHANGED <<file, mapped, status>>

\* n bytes reach the file, and n is the answer.
Write ==
    /\ phase = "called" /\ call.op = "write" /\ call.fd \in Fd
    /\ \E n \in 0 .. Len(call.data) :
         /\ file' = [file EXCEPT ![call.fd] = @ \o SubSeq(call.data, 1, n)]
         /\ outcome' = n
    /\ phase' = "served"
    /\ UNCHANGED <<mapped, call, status>>

\* Nothing is written and the answer is negative.
WriteError ==
    /\ phase = "called" /\ call.op = "write"
    /\ outcome' \in Int /\ outcome' < 0
    /\ phase' = "served"
    /\ UNCHANGED <<file, mapped, call, status>>

\* A new mapping at the answered address, of the offset that was asked for; a
\* negative offset never becomes one that a program could have meant.
Mmap ==
    /\ phase = "called" /\ call.op = "mmap"
    /\ \E m \in mapped' :
         /\ mapped' = mapped \union {m}
         /\ m.at \in Page /\ \A other \in mapped : other.at # m.at
         /\ IF call.offset >= 0 THEN m.offset = call.offset ELSE 2 * m.offset >= Words
         /\ outcome' = m.at
    /\ phase' = "served"
    /\ UNCHANGED <<file, call, status>>

\* Nothing is mapped and the answer is MAP_FAILED.
MmapError ==
    /\ phase = "called" /\ call.op = "mmap"
    /\ outcome' = MapFailed
    /\ phase' = "served"
    /\ UNCHANGED <<file, mapped, call, status>>

\* mmap may refuse its arguments without asking anyone.
MmapReject ==
    /\ phase = "idle"
    /\ MmapCall(call')
    /\ outcome' = MapFailed
    /\ UNCHANGED <<file, mapped, phase, status>>

Answer ==
    /\ phase = "served"
    /\ phase' = "idle"
    /\ UNCHANGED <<file, mapped, call, outcome, status>>

\* exit: the process is over, and so is everything it does; the status is the
\* one given, as a word.
Exit ==
    /\ phase = "called" /\ call.op = "exit"
    /\ phase' = "over"
    /\ status' = IF call.status >= 0 THEN call.status ELSE call.status + Words
    /\ UNCHANGED <<file, mapped, call, outcome>>

Next ==
    \/ Call \/ Write \/ WriteError \/ Mmap \/ MmapError \/ MmapReject \/ Answer \/ Exit

Spec == Init /\ [][Next]_vars
=============================================================================
