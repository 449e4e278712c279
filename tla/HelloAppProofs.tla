--------------------------- MODULE HelloAppProofs ---------------------------
(***************************************************************************)
(* ib_app is Hello for every text, on every system, with either backend.   *)
(***************************************************************************)
EXTENDS HelloApp, StringTheorems, SequenceTheorems

Blank == \A h \in DOMAIN file : file[h] = << >>

(* What the kernel finds is the text or the exit, and posix.cpp waits for   *)
(* the answer to the text only.                                             *)
PosixInv ==
    /\ file \in [{STDOUT} -> Seq(Int)]
    /\ pc \in {"start", "client", "kernel", "decode", "exited"}
    /\ pc = "decode" => call.op = "write"
    /\ pc = "kernel" =>
         \/ /\ call.op = "write" /\ request.nr = "WRITE"
            /\ request.args[2] = Message /\ request.args[3] = Len(Text)
         \/ call.op = "exit" /\ request.nr = "EXIT" /\ request.args[1] = 0

(* The same of kernel32, which is asked twice for the text.                 *)
WindowsInv ==
    /\ std \in Std
    /\ file \in [Handle -> Seq(Int)]
    /\ pc \in {"start", "client", "kernel32", "return", "exited"}
    /\ pc \in {"kernel32", "return"} =>
         \/ /\ running = "print" /\ call.op = "write" /\ call.data = Text
            /\ request.fn = "GetStdHandle" /\ request.n = Dword - 11
            /\ pc = "return" => value = std["Output"]
         \/ /\ running = "print" /\ call.op = "write"
            /\ request.fn = "WriteFile" /\ request.handle = std["Output"]
            /\ request.data = Text /\ request.units \in 0 .. Len(Text)
         \/ /\ running = "exit" /\ call.op = "exit" /\ pc = "kernel32"
            /\ request.fn = "ExitProcess" /\ request.code = 0

Inv ==
    /\ call.op \in {"none", "write", "exit"}
    /\ pc = "start" => call.op = "none"
    /\ pc = "exited" => call.op = "exit"
    /\ pc # "exited" => status = -1
    /\ Printing => Blank
    /\ IF OnWindows THEN WindowsInv ELSE PosixInv

-----------------------------------------------------------------------------
(* The text and the casts, seen by each backend. *)

LEMMA TextFacts ==
    /\ str_length(Message) \in 0 .. Len(Message)
    /\ Text \in Seq(Int) /\ Len(Text) = str_length(Message) /\ Len(Text) \in Nat
    /\ \A n \in 0 .. Len(Text) :
         SubSeq(Message, 1, n) = SubSeq(Text, 1, n) /\ SubSeq(Text, 1, n) \in Seq(Int)
<1>1. str_length(Message) \in 0 .. Len(Message) /\ Len(Message) \in Nat
  BY MessageAssumption, StrLengthInBuffer
<1>2. /\ Len(Text) = str_length(Message)
      /\ \A n \in 0 .. str_length(Message) : SubSeq(Message, 1, n) = SubSeq(Text, 1, n)
      /\ \A n \in 0 .. str_length(Message) : SubSeq(Message, 1, n) \in Seq(Int)
  BY <1>1, MessageAssumption, PrefixOfPrefix DEF Text
<1>3. Text \in Seq(Int)
  BY <1>1, <1>2 DEF Text
<1> QED BY <1>1, <1>2, <1>3

LEMMA SameLength ==
    /\ Posix!str_length(Message) = str_length(Message)
    /\ Windows!str_length(Message) = str_length(Message)
BY DEF str_length, NUL, Posix!str_length, Posix!NUL, Windows!str_length, Windows!NUL

LEMMA Casts ==
    /\ \A n \in Nat : Posix!Word(n) = n
    /\ Windows!U32(0) = 0
    /\ \A n \in Nat : Windows!U32(n) \in 0 .. n
    /\ Windows!n_std_handle("Output") = Dword - 11
BY WordAssumption DEF Posix!Word, Windows!U32, Windows!n_std_handle

-----------------------------------------------------------------------------
(* A prefix of the text appended to blank files is what Hello has sent.     *)
Sent == {<<f, file[f]>> : f \in {g \in DOMAIN file : file[g] # << >>}}

LEMMA SentBlank == ASSUME Blank PROVE Sent = {}
BY DEF Sent, Blank

LEMMA SentPrefix ==
    ASSUME Blank, NEW S, file \in [S -> Seq(Int)], NEW h \in S, NEW n \in 0 .. Len(Text),
           file' = [file EXCEPT ![h] = @ \o SubSeq(Text, 1, n)]
    PROVE  Sent' = IF n = 0 THEN {} ELSE {<<h, SubSeq(Text, 1, n)>>}
<1> DEFINE prefix == SubSeq(Text, 1, n)
<1>1. prefix \in Seq(Int) /\ Len(prefix) = n
  BY TextFacts, PrefixOfPrefix
<1>2. prefix = << >> <=> n = 0
  BY <1>1, EmptySeq
<1> HIDE DEF prefix
<1>3. file[h] = << >> /\ file[h] \o prefix = prefix
  BY <1>1, ConcatEmptySeq DEF Blank
<1>4. file' = [f \in S |-> IF f = h THEN prefix ELSE << >>]
  BY <1>3 DEF Blank, prefix
<1>5. CASE n = 0
  BY <1>2, <1>4, <1>5 DEF Sent
<1>6. CASE n # 0
  <2>1. {g \in DOMAIN file' : file'[g] # << >>} = {h}
    BY <1>2, <1>4, <1>6
  <2>2. file'[h] = prefix
    BY <1>4
  <2> QED BY <1>6, <2>1, <2>2 DEF Sent, prefix
<1> QED BY <1>5, <1>6

-----------------------------------------------------------------------------
(* The program's own steps. *)

LEMMA StartStep ==
    ASSUME Inv, ib_start
    PROVE  Inv' /\ UNCHANGED Process!vars
BY DEF ib_start, Step, posixVars, windowsVars, Posix!Start, Windows!Start, Inv, OnWindows,
       PosixInv, WindowsInv, Printing, Blank, Process!vars

LEMMA MainStep ==
    ASSUME Inv, ib_main
    PROVE  Inv' /\ UNCHANGED Process!vars
<1>1. CASE ~ OnWindows
  <2>1. /\ pc = "client" /\ pc' = "kernel" /\ call.op = "none" /\ call'.op = "write"
        /\ request' = [nr |-> "WRITE",
                        args |-> <<Posix!Word(STDOUT), Message, Posix!Word(Len(Text))>>]
        /\ UNCHANGED <<file, status, target, std>>
    BY <1>1, SameLength, TextFacts
       DEF ib_main, Step, posixVars, windowsVars, STDOUT, Posix!STDOUT, Posix!print_string,
           Posix!write_string, Posix!write, Posix!Syscall
  <2>2. Posix!Word(Len(Text)) = Len(Text)
    BY TextFacts, Casts
  <2> QED BY <1>1, <2>1, <2>2 DEF Inv, OnWindows, PosixInv, Printing, Blank, Process!vars
<1>2. CASE OnWindows
  <2>1. /\ pc = "client" /\ pc' = "kernel32" /\ call.op = "none"
        /\ running' = "print" /\ call'.op = "write" /\ call'.data = Text
        /\ request' = [fn |-> "GetStdHandle", n |-> Dword - 11]
        /\ UNCHANGED <<file, status, target, std>>
    BY <1>2, SameLength, Casts
       DEF ib_main, Step, posixVars, Text, Windows!print_string, Windows!print_data,
           Windows!Import
  <2> QED BY <1>2, <2>1 DEF Inv, OnWindows, WindowsInv, Printing, Blank, Process!vars
<1> QED BY <1>1, <1>2

LEMMA ExitStep ==
    ASSUME Inv, exit
    PROVE  Inv' /\ UNCHANGED Process!vars
<1>1. CASE ~ OnWindows
  <2>1. /\ pc = "client" /\ pc' = "kernel" /\ call.op = "write" /\ call'.op = "exit"
        /\ request'.nr = "EXIT" /\ request'.args[1] = 0
        /\ UNCHANGED <<file, status, target, std>>
    BY <1>1, Casts
       DEF exit, MainResult, Step, posixVars, windowsVars, Posix!exit, Posix!Syscall
  <2> QED BY <1>1, <2>1 DEF Inv, OnWindows, PosixInv, Printing, Blank, Process!vars
<1>2. CASE OnWindows
  <2>1. /\ pc = "client" /\ pc' = "kernel32" /\ call.op = "write"
        /\ running' = "exit" /\ call'.op = "exit"
        /\ request'.fn = "ExitProcess" /\ request'.code = 0
        /\ UNCHANGED <<file, status, target, std>>
    BY <1>2, Casts DEF exit, MainResult, Step, posixVars, Windows!exit, Windows!Import
  <2> QED BY <1>2, <2>1 DEF Inv, OnWindows, WindowsInv, Printing, Blank, Process!vars
<1> QED BY <1>1, <1>2

-----------------------------------------------------------------------------
(* posix.cpp and its kernel. *)

LEMMA DecodeStep ==
    ASSUME Inv, ~ OnWindows, Posix!Decode, UNCHANGED windowsVars
    PROVE  Inv' /\ UNCHANGED Process!vars
BY DEF Posix!Decode, windowsVars, Inv, OnWindows, PosixInv, Printing, Blank, Process!vars

LEMMA PosixKernelStep ==
    ASSUME Inv, ~ OnWindows, Posix!Kernel, UNCHANGED windowsVars
    PROVE  Inv' /\ (Process!Write \/ Process!Exit)
<1>1. pc = "kernel" /\ status = -1
  BY DEF Posix!Kernel, Posix!ServeWrite, Posix!ServeMmap, Posix!Refuse, Posix!Terminate, Inv
<1>2. CASE Posix!ServeWrite
  <2>1. PICK fd \in {STDOUT}, n \in 0 .. request.args[3] :
           /\ file' = [file EXCEPT ![fd] = @ \o SubSeq(request.args[2], 1, n)]
           /\ Posix!KernelReturns(n, FALSE)
    BY <1>2 DEF Posix!ServeWrite
  <2>2. /\ call.op = "write" /\ request.args[2] = Message /\ request.args[3] = Len(Text)
        /\ Blank /\ Printing /\ file \in [{STDOUT} -> Seq(Int)]
    BY <1>1, <1>2 DEF Posix!ServeWrite, Inv, PosixInv, Printing
  <2>3. /\ n \in 0 .. Len(Text)
        /\ file' = [file EXCEPT ![STDOUT] = @ \o SubSeq(Text, 1, n)]
    BY <2>1, <2>2, TextFacts
  <2>4. Sent' = IF n = 0 THEN {} ELSE {<<STDOUT, SubSeq(Text, 1, n)>>}
    BY <2>2, <2>3, SentPrefix
  <2>5. file' \in [{STDOUT} -> Seq(Int)]
    <3>1. file[STDOUT] \o SubSeq(Text, 1, n) \in Seq(Int)
      BY <2>2, <2>3, TextFacts
    <3> QED BY <2>2, <2>3, <3>1
  <2>6. pc' = "decode" /\ call' = call /\ status' = status /\ target' = target
    BY <2>1 DEF Posix!KernelReturns
  <2>7. Inv'
    BY <1>1, <2>2, <2>5, <2>6 DEF Inv, OnWindows, PosixInv, Printing
  <2>8. Process!Write
    BY <1>1, <2>2, <2>3, <2>4, <2>6 DEF Process!Write, Sent, Printing, OnWindows
  <2> QED BY <2>7, <2>8
<1>3. CASE \E e \in Errno : Posix!Refuse(e)
  <2>1. /\ pc' = "decode" /\ call.op = "write"
        /\ UNCHANGED <<file, call, status, target>>
    BY <1>1, <1>3 DEF Posix!Refuse, Posix!KernelReturns, Inv, PosixInv
  <2>2. Printing /\ Blank /\ Sent = {} /\ Sent' = {}
    BY <1>1, <2>1, SentBlank DEF Inv, Printing, Sent
  <2>3. Inv'
    BY <1>1, <2>1 DEF Inv, OnWindows, PosixInv, Printing, Blank
  <2>4. Process!Write
    BY <1>1, <2>1, <2>2, TextFacts DEF Process!Write, Sent, Printing, OnWindows
  <2> QED BY <2>3, <2>4
<1>4. CASE Posix!Terminate
  <2>1. /\ pc' = "exited" /\ call.op = "exit" /\ status' = 0
        /\ UNCHANGED <<file, call, target>>
    BY <1>1, <1>4 DEF Posix!Terminate, Inv, PosixInv
  <2>2. Inv' /\ Process!Exit
    BY <1>1, <2>1 DEF Inv, OnWindows, PosixInv, Printing, Blank, Process!Exit
  <2> QED BY <2>2
<1>5. ~ Posix!ServeMmap
  BY <1>1 DEF Posix!ServeMmap, Inv, PosixInv
<1> QED BY <1>2, <1>3, <1>4, <1>5 DEF Posix!Kernel

-----------------------------------------------------------------------------
(* syscall_windows.cpp and kernel32. *)

LEMMA WrapperStep ==
    ASSUME Inv, OnWindows, Windows!Wrapper, UNCHANGED posixVars
    PROVE  Inv' /\ (Process!Write \/ UNCHANGED Process!vars)
<1> USE DEF OnWindows, posixVars
<1>1. CASE Windows!HasHandle
  <2>1. /\ pc = "return" /\ running = "print" /\ request.fn = "GetStdHandle"
        /\ running' = running /\ call' = call
    BY <1>1 DEF Windows!HasHandle
  <2>2. /\ call.op = "write" /\ call.data = Text /\ value = std["Output"]
        /\ Printing /\ Blank
    BY <2>1 DEF Inv, WindowsInv, Printing
  <2>3. CASE value = Windows!INVALID_HANDLE_VALUE
    <3>1. pc' = "client" /\ UNCHANGED <<std, file, status>>
      BY <1>1, <2>3 DEF Windows!HasHandle
    <3>2. Inv'
      BY <2>1, <2>2, <3>1 DEF Inv, WindowsInv, Printing, Blank
    <3>3. Sent = {} /\ Sent' = {}
      BY <2>2, <3>1, SentBlank DEF Sent
    <3>4. Process!Write
      BY <2>1, <2>2, <3>1, <3>3, TextFacts DEF Process!Write, Sent, Printing
    <3> QED BY <3>2, <3>4
  <2>4. CASE value # Windows!INVALID_HANDLE_VALUE
    <3>1. /\ pc' = "kernel32" /\ request'.fn = "WriteFile" /\ request'.handle = value
          /\ request'.data = Text /\ request'.units = Windows!U32(Len(Text))
          /\ UNCHANGED <<std, file, status>>
      BY <1>1, <2>2, <2>4 DEF Windows!HasHandle, Windows!Import
    <3>2. request'.units \in 0 .. Len(Text)
      BY <3>1, TextFacts, Casts
    <3> QED BY <2>1, <2>2, <3>1, <3>2 DEF Inv, WindowsInv, Printing, Blank, Process!vars
  <2> QED BY <2>3, <2>4
<1>2. CASE Windows!Report
  BY <1>2 DEF Windows!Report, Inv, WindowsInv, Printing, Blank, Process!vars
<1>3. ~ Windows!HandBack
  BY DEF Windows!HandBack, Inv, WindowsInv
<1> QED BY <1>1, <1>2, <1>3 DEF Windows!Wrapper

LEMMA Kernel32Step ==
    ASSUME Inv, OnWindows, Windows!Kernel32, UNCHANGED posixVars
    PROVE  Inv' /\ (Process!Write \/ Process!Exit \/ UNCHANGED Process!vars)
<1> USE DEF OnWindows, posixVars
<1>1. pc = "kernel32" /\ status = -1
  BY DEF Windows!Kernel32, Windows!GetStdHandle, Windows!GetConsoleMode, Windows!Write,
         Windows!WriteFails, Windows!ExitProcess, Inv
<1>2. CASE Windows!GetStdHandle
  <2>1. PICK which \in Windows!StdHandle :
           Windows!StdNumber[which] = request.n /\ value' = std[which]
    BY <1>2 DEF Windows!GetStdHandle
  <2>2. /\ request.fn = "GetStdHandle" /\ pc' = "return"
        /\ UNCHANGED <<std, running, call, request, file, status>>
    BY <1>2 DEF Windows!GetStdHandle
  <2>3. /\ running = "print" /\ call.op = "write" /\ call.data = Text
        /\ request.n = Dword - 11
    BY <1>1, <2>2 DEF Inv, WindowsInv
  <2>4. which = "Output"
    BY <2>1, <2>3, WordAssumption DEF Windows!StdNumber, Windows!StdHandle
  <2>5. value' = std["Output"]
    BY <2>1, <2>4
  <2> QED BY <1>1, <2>2, <2>3, <2>5 DEF Inv, WindowsInv, Printing, Blank, Process!vars
<1>3. CASE Windows!Write
  <2>1. /\ request.fn = "WriteFile" /\ request.handle \in Handle /\ pc' = "return"
        /\ running = "print" /\ call.op = "write" /\ request.handle = std["Output"]
        /\ request.data = Text /\ request.units \in 0 .. Len(Text)
        /\ UNCHANGED <<std, running, call, request, status>>
    BY <1>1, <1>3 DEF Windows!Write, Inv, WindowsInv
  <2>2. PICK n \in 0 .. request.units :
           file' = [file EXCEPT ![request.handle] = @ \o SubSeq(request.data, 1, n)]
    BY <1>3 DEF Windows!Write
  <2>3. /\ n \in 0 .. Len(Text) /\ std["Output"] \in Handle
        /\ file' = [file EXCEPT ![std["Output"]] = @ \o SubSeq(Text, 1, n)]
    BY <2>1, <2>2, TextFacts
  <2>4. Blank /\ Printing /\ file \in [Handle -> Seq(Int)]
    BY <1>1, <2>1 DEF Inv, WindowsInv, Printing
  <2>5. Sent' = IF n = 0 THEN {} ELSE {<<std["Output"], SubSeq(Text, 1, n)>>}
    BY <2>3, <2>4, SentPrefix
  <2>6. file' \in [Handle -> Seq(Int)]
    <3>1. file[std["Output"]] \o SubSeq(Text, 1, n) \in Seq(Int)
      BY <2>3, <2>4, TextFacts
    <3> QED BY <2>3, <2>4, <3>1
  <2>7. Inv'
    BY <1>1, <2>1, <2>6 DEF Inv, WindowsInv, Printing
  <2>8. Process!Write
    BY <1>1, <2>1, <2>3, <2>4, <2>5 DEF Process!Write, Sent, Printing
  <2> QED BY <2>7, <2>8
<1>4. CASE Windows!WriteFails
  <2>1. /\ pc' = "return" /\ call.op = "write" /\ request.fn = "WriteFile"
        /\ running = "print"
        /\ UNCHANGED <<std, running, call, request, file, status>>
    BY <1>1, <1>4 DEF Windows!WriteFails, Inv, WindowsInv
  <2>2. Printing /\ Blank /\ Sent = {} /\ Sent' = {}
    BY <1>1, <2>1, SentBlank DEF Inv, Printing, Sent
  <2>3. Inv'
    BY <1>1, <2>1 DEF Inv, WindowsInv, Printing, Blank
  <2>4. Process!Write
    BY <1>1, <2>1, <2>2, TextFacts DEF Process!Write, Sent, Printing
  <2> QED BY <2>3, <2>4
<1>5. CASE Windows!ExitProcess
  <2>1. /\ pc' = "exited" /\ call.op = "exit" /\ status' = 0
        /\ UNCHANGED <<std, file, call>>
    BY <1>1, <1>5 DEF Windows!ExitProcess, Inv, WindowsInv
  <2> QED BY <1>1, <2>1 DEF Inv, WindowsInv, Printing, Blank, Process!Exit
<1>6. ~ Windows!GetConsoleMode
  BY <1>1 DEF Windows!GetConsoleMode, Inv, WindowsInv
<1> QED BY <1>2, <1>3, <1>4, <1>5, <1>6 DEF Windows!Kernel32

-----------------------------------------------------------------------------
LEMMA InitStep == ASSUME Init PROVE Inv /\ Process!Init
<1>1. CASE Posix!Init
  <2>1. target # "windows"
    BY <1>1, TargetAssumption DEF Posix!Init
  <2>2. Blank
    BY <1>1 DEF Posix!Init, Blank
  <2>3. Inv
    BY <1>1, <2>1, <2>2 DEF Posix!Init, Inv, OnWindows, PosixInv
  <2> QED BY <1>1, <2>2, <2>3, SentBlank DEF Posix!Init, Process!Init, Sent, Printing
<1>2. CASE Windows!Init /\ target = "windows"
  <2>1. Blank
    BY <1>2 DEF Windows!Init, Blank
  <2>2. Inv
    BY <1>2, <2>1 DEF Windows!Init, Inv, OnWindows, WindowsInv
  <2> QED BY <1>2, <2>1, <2>2, SentBlank DEF Windows!Init, Process!Init, Sent, Printing
<1> QED BY <1>1, <1>2 DEF Init

LEMMA NextStep ==
    ASSUME Inv, [Next]_vars
    PROVE  Inv' /\ [Process!Write \/ Process!Exit]_(Process!vars)
<1>1. CASE ib_start
  BY <1>1, StartStep
<1>2. CASE ib_main
  BY <1>2, MainStep
<1>3. CASE exit
  BY <1>3, ExitStep
<1>4. CASE Wrapper
  BY <1>4, DecodeStep, WrapperStep DEF Wrapper, Step
<1>5. CASE System
  BY <1>5, PosixKernelStep, Kernel32Step DEF System, Step
<1>6. CASE UNCHANGED vars
  BY <1>6 DEF vars, posixVars, windowsVars, Inv, OnWindows, PosixInv, WindowsInv, Printing,
              Blank, Process!vars
<1> QED BY <1>1, <1>2, <1>3, <1>4, <1>5, <1>6 DEF Next

(* Whatever text it has and whatever a kernel or kernel32 answers, ib_app   *)
(* puts a beginning of the text on the standard output, once, and exits     *)
(* with 0.                                                                  *)
THEOREM HelloAppIsHello == Spec => Implements
<1>1. Init => Inv /\ Process!Init
  BY InitStep
<1>2. Inv /\ [Next]_vars => Inv' /\ [Process!Write \/ Process!Exit]_(Process!vars)
  BY NextStep
<1> QED BY <1>1, <1>2, PTL DEF Spec, Implements, Process!Spec

-----------------------------------------------------------------------------
(* Types: the words of the one backend and the DWORDs of the other.  The    *)
(* mappings stay away because ib_main makes none.                           *)
TypeInv ==
    /\ Inv
    /\ TypeOK
    /\ ~ OnWindows => mapped = {}

LEMMA CastRange == \A n \in Nat : Windows!U32(n) \in 0 .. Dword - 1
BY WordAssumption DEF Windows!U32

LEMMA PosixTypes ==
    ASSUME TypeInv, ~ OnWindows,
           \/ Posix!Start \/ Posix!print_string(Message) \/ Posix!exit(MainResult)
           \/ Posix!Decode \/ Posix!Kernel
    PROVE  /\ target' = target /\ mapped' = {} /\ status' \in {-1, 0}
           /\ file' \in [{STDOUT} -> Seq(Int)] => Posix!TypeOK'
<1> USE DEF TypeInv, TypeOK, Posix!TypeOK
<1>1. CASE Posix!Start
  BY <1>1 DEF Posix!Start
<1>2. CASE Posix!print_string(Message)
  BY <1>2 DEF Posix!print_string, Posix!write_string, Posix!write, Posix!Syscall
<1>3. CASE Posix!exit(MainResult)
  BY <1>3 DEF Posix!exit, Posix!Syscall
<1>4. CASE Posix!Decode
  <2>1. Posix!Decoded \in Int
    BY WordAssumption DEF Posix!Decoded, Posix!MAP_FAILED, Posix!Signed
  <2> QED BY <1>4, <2>1 DEF Posix!Decode
<1>5. CASE Posix!ServeWrite
  <2>1. PICK fd \in {STDOUT}, n \in 0 .. request.args[3] :
           Len(file[fd]) + n <= FileLimit /\ Posix!KernelReturns(n, FALSE)
    BY <1>5 DEF Posix!ServeWrite
  <2>2. request.args[3] = Len(Text) /\ Len(Text) \in Nat
    BY <1>5, TextFacts DEF Posix!ServeWrite, Inv, PosixInv
  <2>3. Len(file[fd]) \in Nat
    <3>1. file[fd] \in Seq(Int)
      BY DEF Inv, PosixInv
    <3> QED BY <3>1
  <2>4. n \in 0 .. Modulus - 1
    BY <2>1, <2>2, <2>3, FileAssumption, WordAssumption
  <2> QED BY <1>5, <2>1, <2>4 DEF Posix!ServeWrite, Posix!KernelReturns, Posix!NoRequest
<1>6. ~ Posix!ServeMmap
  BY DEF Posix!ServeMmap, Inv, PosixInv
<1>7. CASE \E e \in Errno : Posix!Refuse(e)
  <2>1. PICK e \in Errno : Posix!Refuse(e)
    BY <1>7
  <2>2. e \in 0 .. Modulus - 1 /\ Modulus - e \in 0 .. Modulus - 1
    BY <2>1, ErrnoAssumption, WordAssumption
  <2> QED BY <2>1, <2>2 DEF Posix!Refuse, Posix!KernelReturns, Posix!NoRequest
<1>8. CASE Posix!Terminate
  <2>1. status' = 0
    BY <1>8 DEF Posix!Terminate, Inv, PosixInv
  <2> QED BY <1>8, <2>1, WordAssumption DEF Posix!Terminate
<1> QED BY <1>1, <1>2, <1>3, <1>4, <1>5, <1>6, <1>7, <1>8 DEF Posix!Kernel

LEMMA WindowsTypes ==
    ASSUME TypeInv, OnWindows,
           \/ Windows!Start \/ Windows!print_string(Message) \/ Windows!exit(MainResult)
           \/ Windows!Wrapper \/ Windows!Kernel32
    PROVE  /\ status' \in {-1, 0}
           /\ file' \in [Handle -> Seq(Int)] => Windows!TypeOK'
<1> USE DEF TypeInv, TypeOK, Windows!TypeOK, Windows!Import
<1>1. CASE Windows!Start
  BY <1>1 DEF Windows!Start
<1>2. CASE Windows!print_string(Message)
  BY <1>2 DEF Windows!print_string, Windows!print_data
<1>3. CASE Windows!exit(MainResult)
  BY <1>3, CastRange DEF Windows!exit, MainResult
<1>4. CASE Windows!HasHandle
  <2>1. call.data = Text /\ Len(Text) \in Nat
    BY <1>4, TextFacts DEF Windows!HasHandle, Inv, WindowsInv
  <2>2. Windows!U32(Len(call.data)) \in 0 .. Dword - 1 /\ 0 \in 0 .. Dword - 1
    BY <2>1, CastRange, WordAssumption
  <2> QED BY <1>4, <2>2 DEF Windows!HasHandle, Windows!NoRequest
<1>5. CASE Windows!Report
  BY <1>5 DEF Windows!Report, Windows!Count, Windows!NoRequest
<1>6. ~ Windows!HandBack
  BY DEF Windows!HandBack, Inv, WindowsInv
<1>7. CASE Windows!GetStdHandle
  <2>1. PICK which \in Windows!StdHandle : value' = std[which]
    BY <1>7 DEF Windows!GetStdHandle
  <2>2. value' \in Windows!AnyHandle
    BY <2>1, HandleAssumption
       DEF Inv, WindowsInv, Windows!StdHandle, Windows!AnyHandle, Windows!NULL_HANDLE,
           Windows!INVALID_HANDLE_VALUE
  <2> QED BY <1>7, <2>2 DEF Windows!GetStdHandle
<1>8. CASE Windows!GetConsoleMode
  BY <1>8 DEF Windows!GetConsoleMode
<1>9. CASE Windows!Write
  <2>1. PICK n \in 0 .. request.units : written' = n
    BY <1>9 DEF Windows!Write
  <2>2. request.units \in 0 .. Dword - 1
    BY <1>9 DEF Windows!Write
  <2>3. written' \in 0 .. Dword - 1
    BY <2>1, <2>2, WordAssumption
  <2> QED BY <1>9, <2>3 DEF Windows!Write
<1>10. CASE Windows!WriteFails
  BY <1>10, WordAssumption DEF Windows!WriteFails
<1>11. CASE Windows!ExitProcess
  <2>1. status' = 0
    BY <1>11 DEF Windows!ExitProcess, Inv, WindowsInv
  <2> QED BY <1>11, <2>1, WordAssumption DEF Windows!ExitProcess
<1> QED BY <1>1, <1>2, <1>3, <1>4, <1>5, <1>6, <1>7, <1>8, <1>9, <1>10, <1>11
        DEF Windows!Wrapper, Windows!Kernel32

LEMMA TypeStep ==
    ASSUME TypeInv, [Next]_vars
    PROVE  TypeInv'
<1>1. Inv'
  BY NextStep DEF TypeInv
<1>2. CASE UNCHANGED vars
  BY <1>1, <1>2 DEF vars, posixVars, windowsVars, TypeInv, TypeOK, OnWindows,
                    Posix!TypeOK, Windows!TypeOK
<1>3. CASE Next /\ ~ OnWindows
  <2>1. \/ Posix!Start \/ Posix!print_string(Message) \/ Posix!exit(MainResult)
        \/ Posix!Decode \/ Posix!Kernel
    BY <1>3 DEF Next, ib_start, ib_main, exit, Wrapper, System, Step
  <2>2. ~ OnWindows'
    BY <1>3, <2>1, PosixTypes DEF TypeInv, OnWindows
  <2>3. file' \in [{STDOUT} -> Seq(Int)]
    BY <1>1, <2>2 DEF Inv, PosixInv
  <2> QED BY <1>1, <1>3, <2>1, <2>2, <2>3, PosixTypes DEF TypeInv, TypeOK
<1>4. CASE Next /\ OnWindows
  <2>1. /\ target' = target
        /\ \/ Windows!Start \/ Windows!print_string(Message) \/ Windows!exit(MainResult)
           \/ Windows!Wrapper \/ Windows!Kernel32
    BY <1>4 DEF Next, ib_start, ib_main, exit, Wrapper, System, Step, posixVars
  <2>2. OnWindows'
    BY <1>4, <2>1 DEF OnWindows
  <2>3. file' \in [Handle -> Seq(Int)]
    BY <1>1, <2>2 DEF Inv, WindowsInv
  <2> QED BY <1>1, <1>4, <2>1, <2>2, <2>3, WindowsTypes DEF TypeInv, TypeOK
<1> QED BY <1>2, <1>3, <1>4

LEMMA TypeInit == ASSUME Init PROVE TypeInv
<1>1. Inv
  BY InitStep
<1>2. CASE Posix!Init
  <2>1. ~ OnWindows /\ mapped = {}
    BY <1>2, TargetAssumption DEF Posix!Init, OnWindows
  <2>2. file \in [{STDOUT} -> Seq(Int)]
    BY <1>1, <2>1 DEF Inv, PosixInv
  <2>3. word \in 0 .. Modulus - 1 /\ status \in -1 .. Modulus - 1 /\ status = -1
    BY <1>2, WordAssumption DEF Posix!Init
  <2>4. request.nr = "none" /\ call.op = "none"
    BY <1>2 DEF Posix!Init, Posix!NoRequest
  <2>5. mapped \subseteq [at : {}, offset : Nat]
    BY <2>1
  <2>6. target \in Target /\ pc = "start" /\ reply = 0 /\ refused \in BOOLEAN
    BY <1>2 DEF Posix!Init
  <2>7. Posix!TypeOK
    BY <2>2, <2>3, <2>4, <2>5, <2>6 DEF Posix!TypeOK
  <2> QED BY <1>1, <2>1, <2>3, <2>7 DEF TypeInv, TypeOK
<1>3. CASE Windows!Init /\ target = "windows"
  <2>1. OnWindows
    BY <1>3 DEF OnWindows
  <2>2. file \in [Handle -> Seq(Int)]
    BY <1>1, <2>1 DEF Inv, WindowsInv
  <2>3. written \in 0 .. Dword - 1 /\ status \in -1 .. Dword - 1 /\ status = -1
    BY <1>3, WordAssumption DEF Windows!Init
  <2> QED BY <1>1, <1>3, <2>1, <2>2, <2>3
          DEF Windows!Init, Windows!NoRequest, Windows!TypeOK, TypeInv, TypeOK
<1> QED BY <1>2, <1>3 DEF Init

(* With either backend every word, count and handle of ib_app keeps its     *)
(* type, and the exit status is 0 or not yet there.                         *)
THEOREM TypeCorrect == Spec => []TypeOK
<1>1. Init => TypeInv
  BY TypeInit
<1>2. TypeInv /\ [Next]_vars => TypeInv'
  BY TypeStep
<1>3. TypeInv => TypeOK
  BY DEF TypeInv
<1> QED BY <1>1, <1>2, <1>3, PTL DEF Spec
=============================================================================
