-------------------------- MODULE WindowsSysProofs --------------------------
(***************************************************************************)
(* syscall_windows.cpp keeps the promises of SysApi for every width of     *)
(* DWORD, every set of handles and every buffer, however long.             *)
(***************************************************************************)
EXTENDS WindowsSys, StringTheorems

(* What the refinement needs to know of a state. *)
Inv ==
    /\ pc \in {"start", "client", "kernel32", "return", "exited"}
    /\ running \in {"none", "get_std_handle", "get_console_mode", "write_console_w",
                    "write_file", "print", "exit"}
    /\ std \in [StdHandle -> AnyHandle]
    /\ call.op = "write" => call.fd \in Int /\ call.data \in Seq(Int)
    /\ file \in [Handle -> Seq(Int)]
    /\ RequestIsCall

(* The low 32 bits of a size are no more than the size.                     *)
LEMMA TruncatedSize ==
    ASSUME NEW n \in Nat
    PROVE  U32(n) \in 0 .. n
BY DwordAssumption DEF U32

(* STD_OUTPUT_HANDLE, cast as the switch casts it.                          *)
LEMMA OutputNumber == n_std_handle("Output") = StdNumber["Output"]
<1>1. U32(-11) = Dword - 11
  BY DwordAssumption, SMTT(60) DEF U32
<1> QED BY <1>1 DEF n_std_handle, StdNumber

(* The exit code of a status is the word of SysApi for what is left of it.  *)
LEMMA StatusWord ==
    ASSUME NEW s \in Status
    PROVE  /\ s \in Int /\ U32(s) \in 0 .. Dword - 1 /\ AsI32(s) \in Int
           /\ U32(s) = IF AsI32(s) >= 0 THEN AsI32(s) ELSE AsI32(s) + Dword
<1>1. s \in Int
  BY StatusAssumption
<1>2. U32(s) \in 0 .. Dword - 1
  BY <1>1, DwordAssumption DEF U32
<1> QED BY <1>1, <1>2, DwordAssumption DEF AsI32

(* Of a status that is an i32, nothing is lost.                             *)
LEMMA ShortStatusWord ==
    ASSUME NEW s \in Int, - Dword <= 2 * s, 2 * s < Dword
    PROVE  U32(s) = IF s >= 0 THEN s ELSE s + Dword
BY DwordAssumption DEF U32

-----------------------------------------------------------------------------
(* The program's calls. *)

LEMMA AskStep ==
    ASSUME Inv
    PROVE  /\ \A which \in StdHandle :
                get_std_handle(which) => Inv' /\ UNCHANGED Api!vars
           /\ \A h \in AnyHandle :
                get_console_mode(h) => Inv' /\ UNCHANGED Api!vars
BY DEF get_std_handle, get_console_mode, Import, Inv, RequestIsCall, Api!vars, Heard,
       Writing, Served, Failed

LEMMA DirectWriteStep ==
    ASSUME Inv, NEW h \in AnyHandle, NEW data \in Buffer, NEW n \in Counts(data),
           write_console_w(h, data, n) \/ write_file(h, data, n)
    PROVE  Inv' /\ Api!Call
<1>1. data \in Seq(Int) /\ n \in 0 .. Len(data) /\ h \in Int
  BY BufferAssumption, HandleAssumption
     DEF Counts, AnyHandle, NULL_HANDLE, INVALID_HANDLE_VALUE
<1>2. /\ Len(SubSeq(data, 1, n)) = n /\ SubSeq(data, 1, n) \in Seq(Int)
      /\ \A k \in 0 .. n : SubSeq(SubSeq(data, 1, n), 1, k) = SubSeq(data, 1, k)
  BY <1>1, PrefixOfPrefix
<1>3. /\ pc = "client" /\ pc' = "kernel32"
      /\ call' = [op |-> "write", fd |-> h, data |-> SubSeq(data, 1, n)]
      /\ running' \in {"write_console_w", "write_file"}
      /\ request'.fn \in {"WriteConsoleW", "WriteFile"}
      /\ request'.handle = h /\ request'.data = data /\ request'.units = n
      /\ UNCHANGED <<std, value, reply, file, status, written>>
  BY DEF write_console_w, write_file, Import
<1>4. Inv'
  BY <1>1, <1>2, <1>3 DEF Inv, RequestIsCall, Served
<1>5. Api!WriteCall(call')
  BY <1>1, <1>2, <1>3 DEF Api!WriteCall, Heard
<1> QED BY <1>3, <1>4, <1>5 DEF Api!Call, Writing, Served, Failed, Heard

LEMMA PrintStep ==
    ASSUME Inv, NEW data \in Seq(Int), NEW size \in 0 .. Len(data),
           print_data(data, size)
    PROVE  Inv' /\ Api!Call
<1>1. SubSeq(data, 1, size) \in Seq(Int)
  BY PrefixOfPrefix
<1>2. std["Output"] \in Int
  <2>1. std["Output"] \in AnyHandle
    BY DEF Inv, StdHandle
  <2>2. AnyHandle \subseteq Int
    BY HandleAssumption DEF AnyHandle, NULL_HANDLE, INVALID_HANDLE_VALUE
  <2> QED BY <2>1, <2>2
<1>3. n_std_handle("Output") = StdNumber["Output"]
  BY OutputNumber
<1>4. /\ pc = "client" /\ pc' = "kernel32" /\ running' = "print"
      /\ call' = [op |-> "write", fd |-> std["Output"], data |-> SubSeq(data, 1, size)]
      /\ request'.fn = "GetStdHandle" /\ request'.n = StdNumber["Output"]
      /\ UNCHANGED <<std, value, reply, file, status, written>>
  BY <1>3 DEF print_data, Import
<1>5. Inv'
  BY <1>1, <1>2, <1>4 DEF Inv, RequestIsCall, Served
<1>6. Api!WriteCall(call')
  BY <1>1, <1>2, <1>4 DEF Api!WriteCall, Heard
<1> QED BY <1>4, <1>5, <1>6 DEF Api!Call, Writing, Served, Failed, Heard

LEMMA ExitStep ==
    ASSUME Inv, NEW s \in Status, exit(s)
    PROVE  Inv' /\ Api!Call
BY StatusWord DEF exit, Import, Inv, RequestIsCall, Api!Call, Api!ExitCall, Heard,
                  Writing, Served, Failed

LEMMA ClientStep ==
    ASSUME Inv, Client
    PROVE  Inv' /\ [Api!Next]_(Api!vars)
<1>1. ASSUME NEW data \in Buffer, NEW size \in Size, size <= Len(data),
             print_data(data, size)
      PROVE  Inv' /\ Api!Call
  <2>1. data \in Seq(Int) /\ size \in 0 .. Len(data)
    BY <1>1, BufferAssumption
  <2> QED BY <1>1, <2>1, PrintStep
<1>2. ASSUME NEW s \in Buffer, HasNUL(s), print_string(s)
      PROVE  Inv' /\ Api!Call
  <2>1. s \in Seq(Int) /\ str_length(s) \in 0 .. Len(s)
    BY <1>2, BufferAssumption, StrLengthInBuffer
  <2> QED BY <1>2, <2>1, PrintStep DEF print_string
<1> QED BY <1>1, <1>2, AskStep, DirectWriteStep, ExitStep DEF Client, Api!Next

-----------------------------------------------------------------------------
(* The wrappers, once kernel32 has returned. *)

LEMMA HasHandleStep ==
    ASSUME Inv, HasHandle
    PROVE  Inv' /\ [Api!Next]_(Api!vars)
<1>1. /\ pc = "return" /\ running = "print" /\ request.fn = "GetStdHandle"
      /\ running' = running /\ call' = call
  BY DEF HasHandle
<1>2. /\ call.op = "write" /\ call.fd = std["Output"] /\ value = call.fd
      /\ call.data \in Seq(Int)
  BY <1>1 DEF Inv, RequestIsCall
<1>3. CASE value = INVALID_HANDLE_VALUE
  <2>1. /\ reply' = -1 /\ pc' = "client"
        /\ UNCHANGED <<std, value, written, file, status>>
    BY <1>3 DEF HasHandle
  <2>2. Inv'
    BY <1>1, <1>2, <2>1 DEF Inv, RequestIsCall, Served
  <2>3. Api!Answer
    BY <1>1, <1>3, <2>1 DEF Api!Answer, Writing, Served, Failed, Heard
  <2> QED BY <2>2, <2>3 DEF Api!Next
<1>4. CASE value # INVALID_HANDLE_VALUE
  <2>1. /\ pc' = "kernel32" /\ request'.fn = "WriteFile" /\ request'.handle = value
        /\ request'.data = call.data /\ request'.units = U32(Len(call.data))
        /\ UNCHANGED <<std, value, reply, file, status>>
    BY <1>4 DEF HasHandle, Import
  <2>2. Len(call.data) \in Nat /\ U32(Len(call.data)) \in 0 .. Len(call.data)
    BY <1>2, TruncatedSize
  <2>3. Inv'
    BY <1>1, <1>2, <2>1, <2>2 DEF Inv, RequestIsCall, Served
  <2>4. UNCHANGED Api!vars
    BY <1>1, <1>4, <2>1 DEF Api!vars, Writing, Served, Failed, Heard
  <2> QED BY <2>3, <2>4
<1> QED BY <1>3, <1>4

LEMMA ReportStep ==
    ASSUME Inv, Report
    PROVE  Inv' /\ Api!Answer
<1>1. /\ pc = "return" /\ request.fn \in {"WriteFile", "WriteConsoleW"}
      /\ reply' = Count /\ pc' = "client"
      /\ UNCHANGED <<std, running, call, value, written, file, status>>
  BY DEF Report
<1>2. running \in {"print", "write_file", "write_console_w"}
  BY <1>1 DEF Inv, RequestIsCall
<1>3. Inv'
  BY <1>1 DEF Inv, RequestIsCall, Served
<1> QED BY <1>1, <1>2, <1>3 DEF Api!Answer, Writing, Served, Failed, Heard

LEMMA HandBackStep ==
    ASSUME Inv, HandBack
    PROVE  Inv' /\ UNCHANGED Api!vars
BY DEF HandBack, Inv, RequestIsCall, Api!vars, Writing, Served, Failed, Heard

-----------------------------------------------------------------------------
(* kernel32. *)

LEMMA GetStdHandleStep ==
    ASSUME Inv, GetStdHandle
    PROVE  Inv' /\ [Api!Next]_(Api!vars)
<1>1. PICK which \in StdHandle : StdNumber[which] = request.n /\ value' = std[which]
  BY DEF GetStdHandle
<1>2. /\ pc = "kernel32" /\ request.fn = "GetStdHandle" /\ pc' = "return"
      /\ UNCHANGED <<std, running, call, request, written, reply, file, status>>
  BY DEF GetStdHandle
<1>3. CASE running = "get_std_handle"
  BY <1>2, <1>3 DEF Inv, RequestIsCall, Served, Failed, Writing, Api!vars, Heard
<1>4. CASE running = "print"
  <2>1. /\ call.op = "write" /\ call.fd = std["Output"]
        /\ request.n = StdNumber["Output"]
    BY <1>2, <1>4 DEF Inv, RequestIsCall
  <2>2. which = "Output"
    BY <1>1, <2>1, DwordAssumption DEF StdNumber, StdHandle
  <2>3. value' = call.fd
    BY <1>1, <2>1, <2>2
  <2>4. Inv'
    BY <1>2, <1>4, <2>1, <2>3 DEF Inv, RequestIsCall, Served
  <2>5. CASE value' = INVALID_HANDLE_VALUE
    <3>1. Api!WriteError
      BY <1>2, <1>4, <2>1, <2>5
         DEF Api!WriteError, Served, Failed, Writing, INVALID_HANDLE_VALUE, Heard
    <3> QED BY <2>4, <3>1 DEF Api!Next
  <2>6. CASE value' # INVALID_HANDLE_VALUE
    BY <1>2, <1>4, <2>4, <2>6 DEF Api!vars, Served, Failed, Writing, Heard
  <2> QED BY <2>5, <2>6
<1> QED BY <1>2, <1>3, <1>4 DEF Inv, RequestIsCall

LEMMA GetConsoleModeStep ==
    ASSUME Inv, GetConsoleMode
    PROVE  Inv' /\ UNCHANGED Api!vars
BY DEF GetConsoleMode, Inv, RequestIsCall, Served, Failed, Writing, Api!vars, Heard

(* What a request to write says of the program's call.                      *)
LEMMA WriteInFlight ==
    ASSUME Inv, pc = "kernel32", request.fn \in {"WriteFile", "WriteConsoleW"}
    PROVE  /\ running \in {"print", "write_file", "write_console_w"}
           /\ call.op = "write" /\ request.handle = call.fd
           /\ call.fd \in Int /\ call.data \in Seq(Int)
           /\ request.units \in 0 .. Len(call.data)
           /\ \A n \in 0 .. request.units :
                SubSeq(request.data, 1, n) = SubSeq(call.data, 1, n)
BY DEF Inv, RequestIsCall

LEMMA WriteStep ==
    ASSUME Inv, Write
    PROVE  Inv' /\ Api!Write
<1>1. /\ pc = "kernel32" /\ request.fn \in {"WriteFile", "WriteConsoleW"}
      /\ request.handle \in Handle /\ value' = 1 /\ pc' = "return"
      /\ UNCHANGED <<std, running, call, request, reply, status>>
  BY HandleAssumption DEF Write
<1>2. PICK n \in 0 .. request.units :
         /\ file' = [file EXCEPT ![request.handle] = @ \o SubSeq(request.data, 1, n)]
         /\ written' = n
  BY DEF Write
<1>3. /\ running \in {"print", "write_file", "write_console_w"}
      /\ call.op = "write" /\ request.handle = call.fd /\ call.fd \in Handle
      /\ call.data \in Seq(Int) /\ request.units \in 0 .. Len(call.data)
      /\ \A k \in 0 .. request.units :
           SubSeq(request.data, 1, k) = SubSeq(call.data, 1, k)
  BY <1>1, WriteInFlight
<1>4. n \in 0 .. Len(call.data) /\ n \in Nat
  BY <1>2, <1>3
<1>5. /\ SubSeq(call.data, 1, n) \in Seq(Int)
      /\ file' = [file EXCEPT ![call.fd] = @ \o SubSeq(call.data, 1, n)]
  BY <1>2, <1>3, <1>4, PrefixOfPrefix
<1>6. file' \in [Handle -> Seq(Int)]
  <2>1. file[call.fd] \o SubSeq(call.data, 1, n) \in Seq(Int)
    BY <1>3, <1>5 DEF Inv
  <2> QED BY <1>3, <1>5, <2>1 DEF Inv
<1>7. Inv'
  BY <1>1, <1>2, <1>3, <1>4, <1>6 DEF Inv, RequestIsCall
<1>8. Api!Write
  <2>1. Served' /\ Writing' /\ Count' = n
    BY <1>1, <1>2, <1>3 DEF Served, Writing, Count
  <2>2. Writing /\ ~ Served /\ ~ Failed /\ pc = "kernel32"
    BY <1>1, <1>3 DEF Served, Failed, Writing
  <2> QED BY <1>1, <1>3, <1>4, <1>5, <2>1, <2>2 DEF Api!Write, Heard
<1> QED BY <1>7, <1>8

LEMMA WriteFailsStep ==
    ASSUME Inv, WriteFails
    PROVE  Inv' /\ Api!WriteError
<1>1. /\ pc = "kernel32" /\ request.fn \in {"WriteFile", "WriteConsoleW"}
      /\ value' = 0 /\ pc' = "return"
      /\ UNCHANGED <<std, running, call, request, reply, file, status>>
  BY DEF WriteFails
<1>2. /\ running \in {"print", "write_file", "write_console_w"}
      /\ call.op = "write"
  BY <1>1, WriteInFlight
<1>3. Inv'
  BY <1>1, <1>2 DEF Inv, RequestIsCall
<1>4. Served' /\ Writing' /\ Count' = -1
  BY <1>1, <1>2 DEF Served, Writing, Count
<1>5. Writing /\ ~ Served /\ ~ Failed
  BY <1>1, <1>2 DEF Served, Failed, Writing
<1> QED BY <1>1, <1>2, <1>3, <1>4, <1>5 DEF Api!WriteError, Heard

LEMMA ExitProcessStep ==
    ASSUME Inv, ExitProcess
    PROVE  Inv' /\ Api!Exit
<1>1. /\ pc = "kernel32" /\ request.fn = "ExitProcess"
      /\ status' = request.code /\ pc' = "exited"
      /\ UNCHANGED <<std, running, call, request, value, written, reply, file>>
  BY DEF ExitProcess
<1>2. /\ running = "exit" /\ call.op = "exit" /\ call.status \in Status
      /\ status' = U32(call.status)
  BY <1>1 DEF Inv, RequestIsCall
<1>3. status' = IF AsI32(call.status) >= 0 THEN AsI32(call.status)
                ELSE AsI32(call.status) + Dword
  BY <1>2, StatusWord
<1>4. Inv'
  BY <1>1, <1>2 DEF Inv, RequestIsCall, Served
<1> QED BY <1>1, <1>2, <1>3, <1>4 DEF Api!Exit, Served, Failed, Writing, Heard

LEMMA Step ==
    ASSUME Inv, [Next]_vars
    PROVE  Inv' /\ [Api!Next]_(Api!vars)
<1>1. CASE Start
  BY <1>1 DEF Start, Inv, RequestIsCall, Served, Failed, Writing, Api!vars, Heard
<1>2. CASE Client
  BY <1>2, ClientStep
<1>3. CASE HasHandle
  BY <1>3, HasHandleStep
<1>4. CASE Report
  BY <1>4, ReportStep DEF Api!Next
<1>5. CASE HandBack
  BY <1>5, HandBackStep
<1>6. CASE GetStdHandle
  BY <1>6, GetStdHandleStep
<1>7. CASE GetConsoleMode
  BY <1>7, GetConsoleModeStep
<1>8. CASE Write
  BY <1>8, WriteStep DEF Api!Next
<1>9. CASE WriteFails
  BY <1>9, WriteFailsStep DEF Api!Next
<1>10. CASE ExitProcess
  BY <1>10, ExitProcessStep DEF Api!Next
<1>11. CASE UNCHANGED vars
  BY <1>11 DEF vars, Inv, RequestIsCall, Served, Failed, Writing, Count, Api!vars, Heard
<1> QED
  BY <1>1, <1>2, <1>3, <1>4, <1>5, <1>6, <1>7, <1>8, <1>9, <1>10, <1>11
     DEF Next, Wrapper, Kernel32

LEMMA InitStep == ASSUME Init PROVE Inv /\ Api!Init
BY HandleAssumption DEF Init, Inv, RequestIsCall, Served, Failed, Writing, Api!Init, Heard

(* print, its handle, its size cast to 32 bits and its two answers, and the *)
(* other writers and exit of syscall_windows.cpp are the operations that    *)
(* their comments promise.                                                  *)
THEOREM WindowsImplementsApi == Spec => Implements
<1>1. Init => Inv /\ Api!Init
  BY InitStep
<1>2. Inv /\ [Next]_vars => Inv' /\ [Api!Next]_(Api!vars)
  BY Step
<1> QED BY <1>1, <1>2, PTL DEF Spec, Implements, Api!Spec

(* kernel32 is asked for what the program called.                           *)
THEOREM RequestsAreCalls == Spec => []RequestIsCall
<1>1. Init => Inv
  BY InitStep
<1>2. Inv /\ [Next]_vars => Inv'
  BY Step
<1>3. Inv => RequestIsCall
  BY DEF Inv
<1> QED BY <1>1, <1>2, <1>3, PTL DEF Spec

-----------------------------------------------------------------------------
(* Types: a DWORD that kernel32 fills in stays a DWORD.                     *)

TypeInv == Inv /\ TypeOK

LEMMA CastRange ==
    ASSUME NEW x \in Int
    PROVE  U32(x) \in 0 .. Dword - 1
BY DwordAssumption DEF U32

LEMMA ClientTypes ==
    ASSUME TypeInv, Client
    PROVE  TypeOK'
<1> USE DEF TypeInv, TypeOK, Import
<1>1. ASSUME NEW which \in StdHandle, get_std_handle(which)
      PROVE  TypeOK'
  BY <1>1 DEF get_std_handle
<1>2. ASSUME NEW h \in AnyHandle, get_console_mode(h)
      PROVE  TypeOK'
  BY <1>2 DEF get_console_mode
<1>3. ASSUME NEW h \in AnyHandle, NEW data \in Buffer, NEW n \in Counts(data),
             write_console_w(h, data, n) \/ write_file(h, data, n)
      PROVE  TypeOK'
  <2>1. n \in 0 .. Dword - 1
    BY BufferAssumption, DwordAssumption DEF Counts
  <2> QED BY <1>3, <2>1 DEF write_console_w, write_file
<1>4. ASSUME NEW data, NEW size, print_data(data, size)
      PROVE  TypeOK'
  BY <1>4 DEF print_data
<1>5. ASSUME NEW s \in Status, exit(s)
      PROVE  TypeOK'
  <2>1. U32(s) \in 0 .. Dword - 1
    BY StatusAssumption, CastRange
  <2> QED BY <1>5, <2>1 DEF exit
<1> QED BY <1>1, <1>2, <1>3, <1>4, <1>5 DEF Client, print_string

LEMMA TypeStep ==
    ASSUME TypeInv, [Next]_vars
    PROVE  TypeInv'
<1>1. Inv'
  BY Step DEF TypeInv
<1>2. TypeOK'
  <2> USE DEF TypeInv, TypeOK
  <2>1. CASE Start
    BY <2>1 DEF Start
  <2>2. CASE Client
    BY <2>2, ClientTypes
  <2>3. CASE HasHandle
    <3>1. call.data \in Seq(Int)
      BY <2>3 DEF HasHandle, Inv, RequestIsCall
    <3>2. U32(Len(call.data)) \in 0 .. Dword - 1
      <4>1. Len(call.data) \in Int
        BY <3>1
      <4> QED BY <4>1, CastRange
    <3>3. 0 \in 0 .. Dword - 1
      BY DwordAssumption
    <3> QED BY <2>3, <3>2, <3>3 DEF HasHandle, Import, NoRequest
  <2>4. CASE Report
    BY <2>4 DEF Report, Count, NoRequest
  <2>5. CASE HandBack
    BY <2>5 DEF HandBack, NoRequest
  <2>6. CASE GetStdHandle
    <3>1. PICK which \in StdHandle : value' = std[which]
      BY <2>6 DEF GetStdHandle
    <3>2. value' \in AnyHandle
      BY <3>1 DEF Inv
    <3> QED BY <2>6, <3>2 DEF GetStdHandle
  <2>7. CASE GetConsoleMode
    BY <2>7 DEF GetConsoleMode
  <2>8. CASE Write
    <3>1. PICK n \in 0 .. request.units : written' = n
      BY <2>8 DEF Write
    <3>2. request.units \in 0 .. Dword - 1
      BY <2>8 DEF Write
    <3>3. written' \in 0 .. Dword - 1
      BY <3>1, <3>2, DwordAssumption
    <3>4. file' \in [Handle -> Seq(Int)]
      BY <1>1 DEF Inv
    <3> QED BY <2>8, <3>3, <3>4 DEF Write
  <2>9. CASE WriteFails
    BY <2>9, DwordAssumption DEF WriteFails
  <2>10. CASE ExitProcess
    BY <2>10, DwordAssumption DEF ExitProcess
  <2>11. CASE UNCHANGED vars
    BY <2>11 DEF vars
  <2> QED
    BY <2>1, <2>2, <2>3, <2>4, <2>5, <2>6, <2>7, <2>8, <2>9, <2>10, <2>11
       DEF Next, Wrapper, Kernel32
<1> QED BY <1>1, <1>2 DEF TypeInv

(* Every count and exit code stays a DWORD, whatever size print is given.   *)
THEOREM TypeCorrect == Spec => []TypeOK
<1>1. Init => TypeInv
  <2> SUFFICES ASSUME Init PROVE TypeInv
    OBVIOUS
  <2>1. Inv
    BY InitStep
  <2>2. file \in [Handle -> Seq(Int)]
    BY <2>1 DEF Inv
  <2> QED BY <2>1, <2>2, DwordAssumption DEF Init, NoRequest, TypeInv, TypeOK
<1>2. TypeInv /\ [Next]_vars => TypeInv'
  BY TypeStep
<1>3. TypeInv => TypeOK
  BY DEF TypeInv
<1> QED BY <1>1, <1>2, <1>3, PTL DEF Spec
-----------------------------------------------------------------------------
(* Two documented promises that the code breaks for values past 32 bits,    *)
(* and keeps for the others.                                                *)

(* A print in progress is one of a size that fits, and asks for all of it.  *)
ShortPrint ==
    pc \in {"kernel32", "return"} /\ running = "print" =>
        /\ call.data \in Seq(Int) /\ Len(call.data) < Dword
        /\ request.fn = "WriteFile" => request.units = U32(Len(call.data))

LEMMA ShortSize ==
    ASSUME NEW n \in Nat, n < Dword
    PROVE  U32(n) = n
BY DwordAssumption DEF U32

(* What is asked to be written is never nothing, if no buffer is longer     *)
(* than the cast of print can say.                                          *)
THEOREM PrintsAskForSome ==
    ASSUME \A d \in Buffer : Len(d) < Dword
    PROVE  Spec => []AsksForSome
<1>1. Init => ShortPrint
  BY DEF Init, ShortPrint
<1>2. ShortPrint /\ [Next]_vars => ShortPrint'
  <2> SUFFICES ASSUME ShortPrint, [Next]_vars
               PROVE  ShortPrint'
    OBVIOUS
  <2>1. ASSUME NEW data \in Buffer, NEW size \in 0 .. Len(data), print_data(data, size)
        PROVE  ShortPrint'
    <3>1. data \in Seq(Int) /\ Len(data) < Dword
      BY BufferAssumption
    <3>2. /\ SubSeq(data, 1, size) \in Seq(Int)
          /\ Len(SubSeq(data, 1, size)) = size
      BY <3>1, PrefixOfPrefix
    <3> QED BY <2>1, <3>1, <3>2, DwordAssumption DEF print_data, Import, ShortPrint
  <2>2. CASE Client
    <3>1. ASSUME NEW data \in Buffer, NEW size \in Size, size <= Len(data),
                 print_data(data, size)
          PROVE  ShortPrint'
      BY <2>1, <3>1, BufferAssumption
    <3>2. ASSUME NEW s \in Buffer, HasNUL(s), print_string(s)
          PROVE  ShortPrint'
      <4>1. str_length(s) \in 0 .. Len(s)
        BY <3>2, BufferAssumption, StrLengthInBuffer
      <4> QED BY <2>1, <3>2, <4>1 DEF print_string
    <3>3. CASE running' # "print"
      BY <3>3 DEF ShortPrint
    <3> QED BY <2>2, <3>1, <3>2, <3>3
            DEF Client, get_std_handle, get_console_mode, write_console_w, write_file, exit
  <2>3. CASE HasHandle
    BY <2>3 DEF HasHandle, Import, ShortPrint
  <2>4. CASE Start \/ Report \/ HandBack \/ ExitProcess
    BY <2>4 DEF Start, Report, HandBack, ExitProcess, ShortPrint
  <2>5. CASE GetStdHandle \/ GetConsoleMode \/ Write \/ WriteFails
    BY <2>5 DEF GetStdHandle, GetConsoleMode, Write, WriteFails, ShortPrint
  <2>6. CASE UNCHANGED vars
    BY <2>6 DEF vars, ShortPrint
  <2> QED BY <2>2, <2>3, <2>4, <2>5, <2>6 DEF Next, Wrapper, Kernel32
<1>3. ShortPrint => AsksForSome
  <2> SUFFICES ASSUME call.data \in Seq(Int), call.data # << >>,
                      Len(call.data) < Dword, request.units = U32(Len(call.data))
               PROVE  request.units > 0
    BY DEF ShortPrint, AsksForSome
  <2>1. Len(call.data) \in Nat /\ Len(call.data) # 0
    OBVIOUS
  <2> QED BY <2>1, ShortSize
<1> QED BY <1>1, <1>2, <1>3, PTL DEF Spec

(* "Terminates the process with the given exit code": the code the system   *)
(* sees is the status, a negative one in two's complement.  It is not where *)
(* the isize does not fit 32 bits.                                          *)
GivenExitCode ==
    pc = "exited" =>
        status = IF call.status >= 0 THEN call.status ELSE call.status + Dword

(* The exit code is the cast of the status given to exit.                   *)
ExitCodeOfCall ==
    pc = "exited" =>
        call.op = "exit" /\ call.status \in Status /\ status = U32(call.status)

(* An exit status that is an i32 reaches the system as it is.               *)
THEOREM ExitCodeGiven ==
    ASSUME \A s \in Status : - Dword <= 2 * s /\ 2 * s < Dword
    PROVE  Spec => []GivenExitCode
<1>1. Init => Inv /\ ExitCodeOfCall
  BY InitStep DEF Init, ExitCodeOfCall
<1>2. Inv /\ ExitCodeOfCall /\ [Next]_vars => Inv' /\ ExitCodeOfCall'
  <2> SUFFICES ASSUME Inv, ExitCodeOfCall, [Next]_vars
               PROVE  Inv' /\ ExitCodeOfCall'
    OBVIOUS
  <2>1. Inv'
    BY Step
  <2>2. CASE ExitProcess
    BY <2>1, <2>2 DEF ExitProcess, Inv, RequestIsCall, ExitCodeOfCall
  <2>3. CASE UNCHANGED vars
    BY <2>1, <2>3 DEF vars, ExitCodeOfCall
  <2>4. CASE pc' # "exited"
    BY <2>1, <2>4 DEF ExitCodeOfCall
  <2> QED BY <2>2, <2>3, <2>4
          DEF Next, Start, Client, Wrapper, Kernel32, get_std_handle, get_console_mode,
              write_console_w, write_file, print_data, print_string, exit, Import,
              HasHandle, Report, HandBack, GetStdHandle, GetConsoleMode, Write, WriteFails
<1>3. Inv /\ ExitCodeOfCall => GivenExitCode
  BY StatusAssumption, ShortStatusWord DEF ExitCodeOfCall, GivenExitCode
<1> QED BY <1>1, <1>2, <1>3, PTL DEF Spec
=============================================================================
