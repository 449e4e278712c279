----------------------------- MODULE WindowsSys -----------------------------
(***************************************************************************)
(* syscall_windows.cpp: the same promises as posix.cpp kept through        *)
(* kernel32.  print is two calls, GetStdHandle and WriteFile, with a       *)
(* decision and a cast of the size to 32 bits between them; the other      *)
(* functions wrap one call each.  Bytes and UTF-16 units are both "units"  *)
(* of a buffer, and a handle receives units.                               *)
(* A definition whose name ends in Mutant is a bug the runs must find; see *)
(* the README.                                                             *)
(***************************************************************************)
EXTENDS Integers, Sequences, Strings

CONSTANTS
    Dword,      \* 2^32: how many values a u32 has
    Handle,     \* handles open for writing
    Console,    \* those of them that are consoles
    Std,        \* the standard handles a process may be started with
    Buffer,     \* unit sequences a program passes; strings contain a NUL
    Size,       \* sizes it passes with them
    Status,     \* what ib_main may return, and a program may pass to exit
    FileLimit   \* units a handle can take

INVALID_HANDLE_VALUE == -1
NULL_HANDLE == 0
StdHandle == {"Input", "Output", "Error"}
AnyHandle == Handle \union {NULL_HANDLE, INVALID_HANDLE_VALUE}

ASSUME DwordAssumption == Dword \in Nat /\ Dword > 12
ASSUME HandleAssumption ==
    /\ Handle \subseteq Nat \ {NULL_HANDLE}
    /\ Console \subseteq Handle
    /\ Std \subseteq [StdHandle -> AnyHandle]
ASSUME BufferAssumption ==
    Buffer \subseteq Seq(Int) /\ Size \subseteq Nat /\ FileLimit \in Nat
ASSUME StatusAssumption == Status \subseteq Int  \* an isize, of any width

VARIABLES
    std,        \* the standard handles of the process
    pc,         \* who runs: "start", "client", "kernel32", "return" (a
                \* wrapper, kernel32 having returned), "exited"
    running,    \* the wrapper that runs, or ran last
    call,       \* the write or exit the program called last
    request,    \* function and arguments of the kernel32 call being made
    value,      \* the handle or BOOL the last one returned
    written,    \* the u32 it stored through its out parameter
    reply,      \* what print, write_file or write_console_w reported last: how
                \* much was written, or a negative number
    file,       \* units received by each handle
    status      \* exit code the system has seen, or -1

vars ==
    <<std, pc, running, call, request, value, written, reply, file, status>>

-----------------------------------------------------------------------------
\* A cast forgotten.
NoCastMutant(x) == x

\* static_cast<u32> of any integer.
U32(x) == x % Dword

NoRequest == [fn |-> "none"]

Init ==
    /\ std \in Std
    /\ pc = "start"
    /\ running = "none"
    /\ call = [op |-> "none"]
    /\ request = NoRequest
    /\ value = 0
    /\ written = 0
    /\ reply = 0
    /\ file = [h \in Handle |-> << >>]
    /\ status = -1

\* The loader enters the executable at ib_start, which calls ib_main.
Start ==
    /\ pc = "start"
    /\ pc' = "client"
    /\ UNCHANGED <<std, running, call, request, value, written, reply, file, status>>

\* A wrapper calls kernel32.
Import(req) ==
    /\ request' = req
    /\ pc' = "kernel32"
    /\ UNCHANGED <<std, value, reply, file, status>>

\* The switch of get_std_handle with two cases swapped.
SwappedCasesMutant(which) ==
    IF which = "Input" THEN U32(-10) ELSE IF which = "Error" THEN U32(-11) ELSE U32(-12)

\* The switch of get_std_handle.
n_std_handle(which) ==
    IF which = "Input" THEN U32(-10) ELSE IF which = "Error" THEN U32(-12) ELSE U32(-11)

get_std_handle(which) ==
    /\ pc = "client"
    /\ running' = "get_std_handle"
    /\ Import([fn |-> "GetStdHandle", n |-> n_std_handle(which)])
    /\ UNCHANGED <<call, written>>

get_console_mode(h) ==
    /\ pc = "client"
    /\ running' = "get_console_mode"
    /\ Import([fn |-> "GetConsoleMode", handle |-> h])
    /\ UNCHANGED <<call, written>>

write_console_w(h, text, chars) ==
    /\ pc = "client"
    /\ running' = "write_console_w"
    /\ call' = [op |-> "write", fd |-> h, data |-> SubSeq(text, 1, chars)]
    /\ Import([fn |-> "WriteConsoleW", handle |-> h, data |-> text, units |-> chars])
    /\ UNCHANGED written

write_file(h, data, bytes) ==
    /\ pc = "client"
    /\ running' = "write_file"
    /\ call' = [op |-> "write", fd |-> h, data |-> SubSeq(data, 1, bytes)]
    /\ Import([fn |-> "WriteFile", handle |-> h, data |-> data, units |-> bytes])
    /\ UNCHANGED written

\* print is called for the standard output, whatever handle that is.
print_data(data, size) ==
    /\ pc = "client"
    /\ running' = "print"
    /\ call' = [op |-> "write", fd |-> std["Output"], data |-> SubSeq(data, 1, size)]
    /\ Import([fn |-> "GetStdHandle", n |-> n_std_handle("Output")])
    /\ UNCHANGED written

print_string(s) == print_data(s, str_length(s))

\* exit(ib_main()) of ib_start, or a call of exit by the program.
exit(s) ==
    /\ pc = "client"
    /\ running' = "exit"
    /\ call' = [op |-> "exit", status |-> s]
    /\ Import([fn |-> "ExitProcess", code |-> U32(s)])
    /\ UNCHANGED written

\* print asking for the handle until there is one.
AskAgainMutant ==
    /\ pc = "return" /\ running = "print" /\ request.fn = "GetStdHandle"
    /\ IF value = INVALID_HANDLE_VALUE
       THEN Import(request) /\ UNCHANGED written
       ELSE /\ written' = 0
            /\ Import([fn |-> "WriteFile", handle |-> value, data |-> call.data,
                       units |-> U32(Len(call.data))])
    /\ UNCHANGED <<running, call>>

\* GetStdHandle has returned to print: without a handle print fails, else it
\* writes at most what 32 bits of the size say.
HasHandle ==
    /\ pc = "return" /\ running = "print" /\ request.fn = "GetStdHandle"
    /\ IF value = INVALID_HANDLE_VALUE
       THEN /\ reply' = -1
            /\ request' = NoRequest
            /\ pc' = "client"
            /\ UNCHANGED <<std, value, written, file, status>>
       ELSE /\ written' = 0
            /\ Import([fn |-> "WriteFile", handle |-> value, data |-> call.data,
                       units |-> U32(Len(call.data))])
    /\ UNCHANGED <<running, call>>

\* The size of the call, not what was written of it.
SizeBackMutant == IF value = 0 THEN -1 ELSE Len(call.data)

\* What print returns once WriteFile has returned, and what the result and the
\* out parameter of write_file and write_console_w amount to.
Count == IF value = 0 THEN -1 ELSE written

Report ==
    /\ pc = "return" /\ request.fn \in {"WriteFile", "WriteConsoleW"}
    /\ reply' = Count
    /\ request' = NoRequest
    /\ pc' = "client"
    /\ UNCHANGED <<std, running, call, value, written, file, status>>

\* get_std_handle and get_console_mode hand value back as it is.
HandBack ==
    /\ pc = "return" /\ running \in {"get_std_handle", "get_console_mode"}
    /\ request' = NoRequest
    /\ pc' = "client"
    /\ UNCHANGED <<std, running, call, value, written, reply, file, status>>

Wrapper == HasHandle \/ Report \/ HandBack

-----------------------------------------------------------------------------
(* kernel32. *)

\* STD_INPUT_HANDLE, STD_OUTPUT_HANDLE, STD_ERROR_HANDLE as DWORDs.
StdNumber == [Input |-> Dword - 10, Output |-> Dword - 11, Error |-> Dword - 12]

GetStdHandle ==
    /\ pc = "kernel32" /\ request.fn = "GetStdHandle"
    /\ \E which \in StdHandle : StdNumber[which] = request.n /\ value' = std[which]
    /\ pc' = "return"
    /\ UNCHANGED <<std, running, call, request, written, reply, file, status>>

GetConsoleMode ==
    /\ pc = "kernel32" /\ request.fn = "GetConsoleMode"
    /\ value' = IF request.handle \in Console THEN 1 ELSE 0
    /\ pc' = "return"
    /\ UNCHANGED <<std, running, call, request, written, reply, file, status>>

\* WriteConsoleW serves consoles only, WriteFile every open handle.
Write ==
    /\ pc = "kernel32"
    /\ \/ request.fn = "WriteFile" /\ request.handle \in Handle
       \/ request.fn = "WriteConsoleW" /\ request.handle \in Console
    /\ \E n \in 0 .. request.units :
         /\ Len(file[request.handle]) + n <= FileLimit
         /\ file' = [file EXCEPT ![request.handle] = @ \o SubSeq(request.data, 1, n)]
         /\ written' = n
    /\ value' = 1
    /\ pc' = "return"
    /\ UNCHANGED <<std, running, call, request, reply, status>>

\* A write may fail, and one to no handle does.
WriteFails ==
    /\ pc = "kernel32" /\ request.fn \in {"WriteFile", "WriteConsoleW"}
    /\ value' = 0
    /\ written' = 0
    /\ pc' = "return"
    /\ UNCHANGED <<std, running, call, request, reply, file, status>>

ExitProcess ==
    /\ pc = "kernel32" /\ request.fn = "ExitProcess"
    /\ status' = request.code
    /\ pc' = "exited"
    /\ UNCHANGED <<std, running, call, request, value, written, reply, file>>

Kernel32 == GetStdHandle \/ GetConsoleMode \/ Write \/ WriteFails \/ ExitProcess
-----------------------------------------------------------------------------
\* Counts that fit the u32 parameters of the direct wrappers.
Counts(data) == {n \in Size : n <= Len(data) /\ n < Dword}

Client ==
    \/ \E which \in StdHandle : get_std_handle(which)
    \/ \E h \in AnyHandle : get_console_mode(h)
    \/ \E h \in AnyHandle, text \in Buffer : \E n \in Counts(text) : write_console_w(h, text, n)
    \/ \E h \in AnyHandle, data \in Buffer : \E n \in Counts(data) : write_file(h, data, n)
    \/ \E data \in Buffer : \E size \in Size :
            size <= Len(data) /\ print_data(data, size)
    \/ \E s \in Buffer : HasNUL(s) /\ print_string(s)
    \/ \E s \in Status : exit(s)

Next == Start \/ Client \/ Wrapper \/ Kernel32

Spec == Init /\ [][Next]_vars
FairSpec == Spec /\ WF_vars(Start) /\ WF_vars(Wrapper) /\ WF_vars(Kernel32)
-----------------------------------------------------------------------------
TypeOK ==
    /\ std \in Std
    /\ pc \in {"start", "client", "kernel32", "return", "exited"}
    /\ running \in {"none", "get_std_handle", "get_console_mode", "write_console_w",
                    "write_file", "print", "exit"}
    /\ call.op \in {"none", "write", "exit"}
    /\ request.fn \in {"none", "GetStdHandle", "GetConsoleMode", "WriteConsoleW",
                       "WriteFile", "ExitProcess"}
    /\ request.fn \in {"WriteConsoleW", "WriteFile"} => request.units \in 0 .. Dword - 1
    /\ request.fn = "ExitProcess" => request.code \in 0 .. Dword - 1
    /\ value \in AnyHandle \union {0, 1}
    /\ written \in 0 .. Dword - 1
    /\ reply \in Int
    /\ file \in [Handle -> Seq(Int)]
    /\ status \in -1 .. Dword - 1

(* What kernel32 is asked, and what print does with the answer, is what the *)
(* program called: print asks for the standard output first and then writes *)
(* to the handle it got, no writer asks for more than the call names or for *)
(* other units, and exit passes the status it was given.                    *)
RequestIsCall ==
    /\ pc \in {"kernel32", "return"} =>
         \/ running = "get_std_handle" /\ request.fn = "GetStdHandle"
         \/ running = "get_console_mode" /\ request.fn = "GetConsoleMode"
         \/ /\ running = "print" /\ request.fn = "GetStdHandle"
            /\ call.op = "write" /\ call.fd = std["Output"]
            /\ request.n = StdNumber["Output"]
            /\ pc = "return" => value = call.fd
         \/ /\ running \in {"print", "write_file", "write_console_w"}
            /\ request.fn \in {"WriteFile", "WriteConsoleW"}
            /\ call.op = "write" /\ request.handle = call.fd
            /\ request.units \in 0 .. Len(call.data)
            /\ \A n \in 0 .. request.units :
                 SubSeq(request.data, 1, n) = SubSeq(call.data, 1, n)
         \/ /\ running = "exit" /\ pc = "kernel32" /\ request.fn = "ExitProcess"
            /\ call.op = "exit" /\ call.status \in Status
            /\ request.code = U32(call.status)

(* What is left of a status in the 32 bits of an exit code, as an i32; of a *)
(* status that is one, all of it.                                           *)
AsI32(s) == IF 2 * U32(s) < Dword THEN U32(s) ELSE U32(s) - Dword

(* "the number of bytes written, or a negative value on failure", and an    *)
(* exit with the given code: print, its two calls taken together, writes to *)
(* the standard output and nowhere else, reports what has been written also *)
(* when the size does not fit 32 bits, and fails when there is no handle;   *)
(* asking for a handle or a console mode changes nothing a write promises.  *)
(* An exit is taken for one with the low 32 bits of the status.             *)
Writing == running \in {"write_console_w", "write_file", "print", "exit"}
Failed == pc = "return" /\ request.fn = "GetStdHandle" /\ value = INVALID_HANDLE_VALUE
Served == pc = "return" /\ request.fn \in {"WriteFile", "WriteConsoleW"}

Heard ==
    IF call.op = "exit" THEN [op |-> "exit", status |-> AsI32(call.status)] ELSE call

Api == INSTANCE SysApi WITH
    call <- Heard,
    Fd <- Handle,
    Page <- {},
    MapFailed <- -1,
    Words <- Dword,
    mapped <- {},
    phase <- IF pc = "exited" THEN "over"
             ELSE IF pc \in {"start", "client"} \/ ~ Writing THEN "idle"
             ELSE IF Served \/ Failed THEN "served" ELSE "called",
    outcome <- IF Writing /\ Served THEN Count
               ELSE IF Writing /\ Failed THEN -1 ELSE reply
Implements == Api!Spec

(* "Writes raw bytes to the standard output stream": a print of something   *)
(* asks for something to be written.  It does not where the size is a       *)
(* multiple of 2^32: kernel32 does all that it was asked, and print reports *)
(* a success with 0 bytes.                                                  *)
AsksForSome ==
    pc = "kernel32" /\ running = "print" /\ request.fn = "WriteFile" =>
        call.data = << >> \/ request.units > 0

(* A call of the program comes back, or the process exits.                  *)
CallsEnd == pc = "kernel32" ~> pc \in {"client", "exited"}
=============================================================================
