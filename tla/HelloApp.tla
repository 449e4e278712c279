------------------------------ MODULE HelloApp ------------------------------
(***************************************************************************)
(* The program of src/app: ib_start of crt.cpp, ib_main of main.cpp and    *)
(* the backend they are linked with, posix.cpp or syscall_windows.cpp.     *)
(* The client that PosixSys and WindowsSys leave open is this one: it      *)
(* prints, discards the result, and exits with what ib_main returns.       *)
(* A definition whose name ends in Mutant is a bug the runs must find; see *)
(* the README.                                                             *)
(***************************************************************************)
EXTENDS Integers, Sequences, Strings

CONSTANTS
    Message,        \* the string ib_main prints
    FileLimit,      \* bytes a file can take
    Target, FlagsErrors, KernelPads, Errno, Modulus,    \* see PosixSys
    Handle, Console, Std, Dword                         \* see WindowsSys

ASSUME MessageAssumption == Message \in Seq(Int) /\ HasNUL(Message)
ASSUME TargetAssumption == "windows" \notin Target
ASSUME WordAssumption ==
    Modulus \in Nat /\ Modulus >= 4 * 4096 /\ Dword \in Nat /\ Dword > 12
ASSUME FileAssumption == FileLimit \in Nat /\ 2 * FileLimit < Modulus
ASSUME ErrnoAssumption == Errno \subseteq 1 .. 4095
ASSUME HandleAssumption ==
    /\ Handle \subseteq Nat \ {0}
    /\ Std \subseteq [{"Input", "Output", "Error"} -> Handle \union {0, -1}]

VARIABLES
    pc, call, request, reply, file, status, \* of both backends
    target, word, refused, mapped,          \* of PosixSys
    std, running, value, written            \* of WindowsSys

posixVars == <<target, word, refused, mapped>>
windowsVars == <<std, running, value, written>>
vars == <<pc, call, request, reply, file, status, posixVars, windowsVars>>

STDOUT == 1

Posix == INSTANCE PosixSys WITH
    Fd <- {STDOUT}, AnyFd <- {STDOUT}, Buffer <- {Message}, Offset <- {}, Page <- {},
    Status <- {0}

Windows == INSTANCE WindowsSys WITH
    Buffer <- {Message}, Size <- {}, Status <- {0}

\* Which backend the program is linked with; the other one's variables rest.
OnWindows == target = "windows"
Absent == "absent"

Init ==
    \/ /\ Posix!Init
       /\ std = Absent /\ running = Absent /\ value = Absent /\ written = Absent
    \/ /\ Windows!Init
       /\ target = "windows" /\ word = Absent /\ refused = Absent /\ mapped = Absent

\* A step of the backend that is there.
Step(posix, windows) ==
    \/ ~ OnWindows /\ posix /\ UNCHANGED windowsVars
    \/ OnWindows /\ windows /\ UNCHANGED posixVars

ib_start == Step(Posix!Start, Windows!Start)

\* print until something has been written.
AgainMutant ==
    /\ call.op = "none" \/ (call.op = "write" /\ reply <= 0)
    /\ Step(Posix!print_string(Message), Windows!print_string(Message))

\* ib_main prints.
ib_main ==
    /\ call.op = "none"
    /\ Step(Posix!print_string(Message), Windows!print_string(Message))

\* The result of print handed on.
ResultMutant == reply

\* What ib_main returns.
MainResult == 0

\* ib_start waiting for a print that succeeds.
SuccessMutant ==
    /\ call.op = "write" /\ reply > 0
    /\ Step(Posix!exit(MainResult), Windows!exit(MainResult))

\* exit(ib_main()), print having returned.
exit ==
    /\ call.op = "write"
    /\ Step(Posix!exit(MainResult), Windows!exit(MainResult))

\* The rest of a wrapper, and the system.
Wrapper == Step(Posix!Decode, Windows!Wrapper)
System == Step(Posix!Kernel, Windows!Kernel32)

Next == ib_start \/ ib_main \/ exit \/ Wrapper \/ System

Spec == Init /\ [][Next]_vars
FairSpec == Spec /\ WF_vars(Next)
-----------------------------------------------------------------------------
TypeOK ==
    /\ IF OnWindows THEN Windows!TypeOK ELSE Posix!TypeOK
    /\ status \in {-1, 0}

Text == SubSeq(Message, 1, str_length(Message))

\* Up to the moment the write has been served or given up.
Printing ==
    \/ call.op = "none"
    \/ call.op = "write" /\ pc \in {"kernel", "kernel32"}
    \/ call.op = "write" /\ pc = "return" /\ request.fn = "GetStdHandle"

(* ib_app writes the text or a beginning of it, to the standard output      *)
(* only and only once, whatever the system answers, and its status is 0     *)
(* also when nothing was written, for main.cpp discards the result: seen    *)
(* through this mapping it is Hello.                                        *)
Process == INSTANCE Hello WITH
    Text <- Text,
    stdout <- IF OnWindows THEN std["Output"] ELSE STDOUT,
    sent <- {<<f, file[f]>> : f \in {g \in DOMAIN file : file[g] # << >>}},
    stage <- IF pc = "exited" THEN "over" ELSE IF Printing THEN "main" ELSE "ending"
Implements == Process!Spec

(* The process ends, whatever the system answers.                           *)
Ends == <>(pc = "exited")
=============================================================================
