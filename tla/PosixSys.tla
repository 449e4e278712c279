------------------------------ MODULE PosixSys ------------------------------
(***************************************************************************)
(* posix.cpp: mmap, write, write_string, print and exit on top of the raw  *)
(* syscalls, called by a program in any order and any number of times, and *)
(* the kernel that serves them.  Words have Modulus values; everything     *)
(* else is written with the numbers of the source: pages and the window of *)
(* error codes are 4096.                                                   *)
(* A definition whose name ends in Mutant is a bug the runs must find; see *)
(* the README.                                                             *)
(***************************************************************************)
EXTENDS Integers, Sequences, Strings

CONSTANTS
    Modulus,    \* 2^w for words of w bits
    Target,     \* the systems built for; "linux32" is Linux on i386 and
                \* arm, where mmap is mmap2
    FlagsErrors, \* those whose kernel flags an error and returns its number
                \* as it is, where the others return it negated
    KernelPads, \* those whose kernel has a padding argument before the
                \* offset of mmap
    Fd,         \* descriptors that are open for writing
    AnyFd,      \* descriptors a program passes, open or not
    Buffer,     \* byte sequences a program passes; strings contain a NUL
    Offset,     \* file offsets a program passes to mmap
    Errno,      \* error numbers the kernel reports
    Page,       \* addresses the kernel may map at
    Status,     \* what ib_main may return
    FileLimit   \* bytes a file can take, below the sign bit as kernels cap
                \* a single transfer

PageSize == 4096

ASSUME ModulusAssumption == Modulus \in Nat /\ Modulus >= 4 * PageSize
ASSUME ErrnoAssumption == Errno \subseteq 1 .. PageSize - 1
ASSUME PageAssumption ==
    Page \subseteq 0 .. Modulus - PageSize /\ \A a \in Page : a % PageSize = 0
ASSUME SignedAssumption ==     \* these are isize and i32
    \A x \in AnyFd \union Offset \union Status :
        x \in Int /\ - Modulus <= 2 * x /\ 2 * x < Modulus
ASSUME FdAssumption == Fd \union {1} \subseteq AnyFd
ASSUME BufferAssumption ==
    Buffer \subseteq Seq(Int) /\ FileLimit \in Nat /\ 2 * FileLimit < Modulus

VARIABLES
    target,     \* the operating system
    pc,         \* who runs: "start" (ib_start), "client" (the program),
                \* "kernel", "decode" (a wrapper, the kernel having
                \* returned), "exited"
    call,       \* the operation the program called last
    request,    \* number and argument words of the last system call
    word,       \* result register of the last system call
    reply,      \* what the operation returned
    refused,    \* whether the kernel refused the last system call
    file,       \* bytes received by each descriptor
    mapped,     \* the mappings, [at, offset]
    status      \* the exit status the kernel has seen, or -1

vars == <<target, pc, call, request, word, reply, refused, file, mapped, status>>

-----------------------------------------------------------------------------
\* A cast forgotten.
NoCastMutant(x) == x

\* static_cast<usize> of an isize or i32, and the way back.
Word(x) == IF x >= 0 THEN x ELSE x + Modulus
Signed(w) == IF 2 * w < Modulus THEN w ELSE w - Modulus

STDOUT == 1
MAP_FAILED == Modulus - 1

\* Targets for which mmap passes a padding argument before the offset.
Padded == {"netbsd", "openbsd", "macos"}

NoRequest == [nr |-> "none", args |-> << >>]

Init ==
    /\ target \in Target
    /\ pc = "start"
    /\ call = [op |-> "none"]
    /\ request = NoRequest
    /\ word = 0
    /\ reply = 0
    /\ refused = FALSE
    /\ file = [f \in Fd |-> << >>]
    /\ mapped = {}
    /\ status = -1

\* The system enters the executable at ib_start, which calls ib_main.
Start ==
    /\ pc = "start"
    /\ pc' = "client"
    /\ UNCHANGED <<target, call, request, word, reply, refused, file, mapped, status>>

\* The trap of syscall3, syscall6 or syscall7.
Syscall(nr, args) ==
    /\ request' = [nr |-> nr, args |-> args]
    /\ pc' = "kernel"
    /\ UNCHANGED <<target, word, reply, refused, file, mapped, status>>

write(fd, data, size) ==
    /\ pc = "client"
    /\ call' = [op |-> "write", fd |-> fd, data |-> SubSeq(data, 1, size)]
    /\ Syscall("WRITE", <<Word(fd), data, Word(size)>>)

write_string(fd, s) == write(fd, s, str_length(s))

print_data(data, size) == write(STDOUT, data, size)

print_string(s) == write_string(STDOUT, s)

\* The address, length, prot, flags and fd of the call are passed on as they
\* are, one word each, and stand as zeros.
Passed == <<0, 0, 0, 0, 0>>

\* mmap2 called with bytes.
BytesMutant(offset) ==
    /\ pc = "client"
    /\ call' = [op |-> "mmap", offset |-> offset]
    /\ IF target = "linux32" /\ offset % PageSize # 0
       THEN /\ reply' = MAP_FAILED
            /\ refused' = TRUE
            /\ UNCHANGED <<target, pc, request, word, file, mapped, status>>
       ELSE Syscall("MMAP", Passed \o
              (IF target \in Padded THEN <<0, Word(offset)>> ELSE <<Word(offset)>>))

\* The padding on the wrong side of the offset.
PadAfterMutant(offset) ==
    /\ pc = "client"
    /\ call' = [op |-> "mmap", offset |-> offset]
    /\ IF target = "linux32" /\ offset % PageSize # 0
       THEN /\ reply' = MAP_FAILED
            /\ refused' = TRUE
            /\ UNCHANGED <<target, pc, request, word, file, mapped, status>>
       ELSE Syscall("MMAP", Passed \o
              (IF target = "linux32" THEN <<Word(offset \div PageSize)>>
               ELSE IF target \in Padded THEN <<Word(offset), 0>>
               ELSE <<Word(offset)>>))

\* 32-bit Linux refuses offsets that are not a multiple of the page size
\* before the trap, and passes pages.  The offset divided is a multiple, so
\* that C's division and \div agree.
mmap(offset) ==
    /\ pc = "client"
    /\ call' = [op |-> "mmap", offset |-> offset]
    /\ IF target = "linux32" /\ offset % PageSize # 0
       THEN /\ reply' = MAP_FAILED
            /\ refused' = TRUE
            /\ UNCHANGED <<target, pc, request, word, file, mapped, status>>
       ELSE Syscall("MMAP", Passed \o
              (IF target = "linux32" THEN <<Word(offset \div PageSize)>>
               ELSE IF target \in Padded THEN <<0, Word(offset)>>
               ELSE <<Word(offset)>>))

\* exit(ib_main()) of ib_start, or a call of exit by the program.
exit(s) ==
    /\ pc = "client"
    /\ call' = [op |-> "exit", status |-> s]
    /\ Syscall("EXIT", <<Word(s), 0, 0>>)

\* A window one short, and a window one too long.
ShortWindowMutant ==
    IF call.op = "mmap"
    THEN IF Signed(word) < 0 /\ Signed(word) > 1 - PageSize THEN MAP_FAILED ELSE word
    ELSE Signed(word)
LongWindowMutant ==
    IF call.op = "mmap"
    THEN IF Signed(word) < 0 /\ Signed(word) >= - PageSize THEN MAP_FAILED ELSE word
    ELSE Signed(word)

\* A wrapper that has its result: write returns it as it is, mmap maps the
\* window of the error codes to MAP_FAILED.
Decoded ==
    IF call.op = "mmap"
    THEN IF Signed(word) < 0 /\ Signed(word) > - PageSize THEN MAP_FAILED ELSE word
    ELSE Signed(word)

\* A write that is tried again until it succeeds.
RetryMutant ==
    /\ pc = "decode"
    /\ IF refused /\ call.op = "write"
       THEN /\ pc' = "kernel"
            /\ request' = [nr |-> "WRITE",
                           args |-> <<Word(call.fd), call.data, Len(call.data)>>]
            /\ UNCHANGED reply
       ELSE /\ reply' = Decoded
            /\ pc' = "client"
            /\ UNCHANGED request
    /\ UNCHANGED <<target, call, word, refused, file, mapped, status>>

Decode ==
    /\ pc = "decode"
    /\ reply' = Decoded
    /\ pc' = "client"
    /\ UNCHANGED <<target, call, request, word, refused, file, mapped, status>>

-----------------------------------------------------------------------------
(* The kernel. *)

KernelReturns(w, failed) ==
    /\ word' = w
    /\ refused' = failed
    /\ request' = NoRequest
    /\ pc' = "decode"
    /\ UNCHANGED <<target, call, reply, status>>

\* A write moves any number of the bytes, as far as the file has room.
ServeWrite ==
    /\ pc = "kernel" /\ request.nr = "WRITE"
    /\ \E fd \in Fd, n \in 0 .. request.args[3] :
         /\ Word(fd) = request.args[1]
         /\ Len(file[fd]) + n <= FileLimit
         /\ file' = [file EXCEPT ![fd] = @ \o SubSeq(request.args[2], 1, n)]
         /\ KernelReturns(n, FALSE)
    /\ UNCHANGED mapped

\* The byte offset the kernel makes of its arguments: some read the word after
\* a padding, mmap2 counts pages.
ByteOffset ==
    IF target = "linux32" THEN PageSize * request.args[6]
    ELSE IF target \in KernelPads THEN request.args[7] ELSE request.args[6]

\* A mapping goes to a page that is free, and its offset is one of a page.
ServeMmap ==
    /\ pc = "kernel" /\ request.nr = "MMAP"
    /\ ByteOffset % PageSize = 0
    /\ \E a \in Page :
         /\ \A m \in mapped : m.at # a
         /\ mapped' = mapped \union {[at |-> a, offset |-> ByteOffset]}
         /\ KernelReturns(a, FALSE)
    /\ UNCHANGED file

\* Any call but exit may be refused.
Refuse(e) ==
    /\ pc = "kernel" /\ request.nr \in {"WRITE", "MMAP"}
    /\ KernelReturns(IF target \in FlagsErrors THEN e ELSE Modulus - e, TRUE)
    /\ UNCHANGED <<file, mapped>>

Terminate ==
    /\ pc = "kernel" /\ request.nr = "EXIT"
    /\ status' = request.args[1]
    /\ pc' = "exited"
    /\ UNCHANGED <<target, call, request, word, reply, refused, file, mapped>>

Kernel == ServeWrite \/ ServeMmap \/ (\E e \in Errno : Refuse(e)) \/ Terminate
-----------------------------------------------------------------------------
Client ==
    \/ \E fd \in AnyFd, data \in Buffer : \E size \in 0 .. Len(data) : write(fd, data, size)
    \/ \E fd \in AnyFd, s \in Buffer : HasNUL(s) /\ write_string(fd, s)
    \/ \E data \in Buffer : \E size \in 0 .. Len(data) : print_data(data, size)
    \/ \E s \in Buffer : HasNUL(s) /\ print_string(s)
    \/ \E offset \in Offset : mmap(offset)
    \/ \E s \in Status : exit(s)

Next == Start \/ Client \/ Decode \/ Kernel

Spec == Init /\ [][Next]_vars
FairSpec == Spec /\ WF_vars(Start) /\ WF_vars(Decode) /\ WF_vars(Kernel)
-----------------------------------------------------------------------------
TypeOK ==
    /\ target \in Target
    /\ pc \in {"start", "client", "kernel", "decode", "exited"}
    /\ call.op \in {"none", "write", "mmap", "exit"}
    /\ request.nr \in {"none", "WRITE", "MMAP", "EXIT"}
    /\ word \in 0 .. Modulus - 1
    /\ reply \in Int
    /\ refused \in BOOLEAN
    /\ file \in [Fd -> Seq(Int)]
    /\ mapped \subseteq [at : Page, offset : Nat]
    /\ status \in -1 .. Modulus - 1

\* What mmap takes the kernels to do with the padding argument.
PaddingAsDocumented == Target \intersect KernelPads = Target \intersect Padded

(* A request the kernel finds is the call of the program: the bytes it      *)
(* asked to write, the status it left, and for mmap the offset it asked     *)
(* for, whether the target counts bytes or pages and pads or not; a         *)
(* negative offset, which no kernel can serve, stays above all others.      *)
RequestIsCall ==
    pc = "kernel" =>
        \/ /\ call.op = "write" /\ request.nr = "WRITE"
           /\ call.fd \in AnyFd /\ request.args[1] = Word(call.fd)
           /\ request.args[2] \in Seq(Int)
           /\ request.args[3] \in 0 .. Len(request.args[2])
           /\ call.data = SubSeq(request.args[2], 1, request.args[3])
        \/ /\ call.op = "mmap" /\ request.nr = "MMAP"
           /\ call.offset \in Offset
           /\ IF call.offset >= 0 THEN ByteOffset = call.offset
              ELSE 2 * ByteOffset >= Modulus
        \/ /\ call.op = "exit" /\ request.nr = "EXIT"
           /\ call.status \in Status /\ request.args[1] = Word(call.status)

(* The calls, effects and answers are those the comments of the functions   *)
(* promise: seen through this mapping a wrapper's result is decided when    *)
(* the kernel has served the call.  Where the kernel flags an error the     *)
(* program is taken to be told of it, which FailureReported is about.       *)
Told(result) ==
    IF target \in FlagsErrors /\ refused
    THEN IF call.op = "mmap" THEN MAP_FAILED ELSE -1
    ELSE result

Api == INSTANCE SysApi WITH
    MapFailed <- MAP_FAILED,
    Words <- Modulus,
    phase <- CASE pc \in {"start", "client"} -> "idle"
               [] pc = "kernel" -> "called"
               [] pc = "decode" -> "served"
               [] pc = "exited" -> "over",
    outcome <- Told(IF pc = "decode" THEN Decoded ELSE reply)
Implements == Api!Spec

(* "...or a negative error code on failure", "...or MAP_FAILED on error":   *)
(* an operation the kernel refused is reported as failed to the program.    *)
FailureReported ==
    pc = "client" /\ refused =>
        \/ call.op = "write" /\ reply < 0
        \/ call.op = "mmap" /\ reply = MAP_FAILED

(* The same on the targets where a kernel answers with a negated number.    *)
NegatedErrorReported == target \notin FlagsErrors => FailureReported

(* "the mapped address": when the kernel has mapped something, mmap returns *)
(* its address, also from the last page below the error codes, and what is  *)
(* mapped there starts at the file offset the program asked for; a mapping  *)
(* is never reported as a failure, nor one mapping as another.              *)
MappingDelivered ==
    pc = "client" /\ call.op = "mmap" /\ ~ refused =>
        \E m \in mapped :
            /\ m.at = reply
            /\ IF call.offset >= 0 THEN m.offset = call.offset
               ELSE 2 * m.offset >= Modulus

(* A call of the program comes back, or the process exits.                  *)
CallsEnd == pc = "kernel" ~> pc \in {"client", "exited"}
=============================================================================
