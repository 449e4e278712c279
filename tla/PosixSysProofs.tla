--------------------------- MODULE PosixSysProofs ---------------------------
(***************************************************************************)
(* posix.cpp keeps the promises of SysApi for every word size, set of      *)
(* pages, offset and buffer, and reports failures on the kernels that      *)
(* negate their error numbers.                                             *)
(***************************************************************************)
EXTENDS PosixSys, StringTheorems

(* What the refinement needs to know of a state. *)
Inv ==
    /\ target \in Target
    /\ pc \in {"start", "client", "kernel", "decode", "exited"}
    /\ pc = "decode" => call.op \in {"write", "mmap"}
    /\ file \in [Fd -> Seq(Int)]
    /\ status \in Int
    /\ RequestIsCall

(* A word that is a cast of a signed value determines it. *)
LEMMA WordInjective ==
    ASSUME NEW x \in AnyFd, NEW y \in AnyFd, Word(x) = Word(y)
    PROVE  x = y
BY SignedAssumption, ModulusAssumption DEF Word, PageSize

(* Each call of the program leaves the request that the invariant describes. *)
LEMMA WriteRequest ==
    ASSUME Inv, NEW fd \in AnyFd, NEW data \in Buffer, NEW size \in 0 .. Len(data),
           write(fd, data, size)
    PROVE  /\ Inv'
           /\ pc = "client" /\ pc' = "kernel" /\ Api!WriteCall(call')
           /\ UNCHANGED <<file, mapped, reply, status>>
<1>1. data \in Seq(Int) /\ size \in Nat /\ fd \in Int
  BY BufferAssumption, SignedAssumption
<1>2. Word(size) = size
  BY <1>1 DEF Word
<1>3. SubSeq(data, 1, size) \in Seq(Int)
  BY <1>1, PrefixOfPrefix
<1> QED BY <1>1, <1>2, <1>3
        DEF write, Syscall, Inv, RequestIsCall, Api!WriteCall

LEMMA MmapRequest ==
    ASSUME PaddingAsDocumented, Inv, NEW offset \in Offset, mmap(offset)
    PROVE  /\ Inv'
           /\ pc = "client" /\ Api!MmapCall(call')
           /\ UNCHANGED <<file, mapped, status>>
           /\ \/ pc' = "kernel" /\ reply' = reply
              \/ pc' = "client" /\ call'.op = "mmap" /\ reply' = MAP_FAILED
<1>1. offset \in Int /\ - Modulus <= 2 * offset /\ 2 * offset < Modulus
  BY SignedAssumption
<1>2. pc = "client" /\ Api!MmapCall(call') /\ call'.op = "mmap"
      /\ call'.offset = offset /\ target' = target
      /\ UNCHANGED <<file, mapped, status>>
  BY <1>1 DEF mmap, Syscall, Api!MmapCall
<1>3. CASE target = "linux32" /\ offset % PageSize # 0
  BY <1>2, <1>3 DEF mmap, Inv, RequestIsCall
<1>4. CASE ~ (target = "linux32" /\ offset % PageSize # 0)
  <2>1. pc' = "kernel" /\ reply' = reply /\ request'.nr = "MMAP"
    BY <1>4 DEF mmap, Syscall
  <2>2. IF offset >= 0 THEN ByteOffset' = offset ELSE 2 * ByteOffset' >= Modulus
    <3>1. CASE target = "linux32"
      <4>1. request'.args[6] = Word(offset \div PageSize)
        BY <1>4, <3>1 DEF mmap, Syscall, Passed
      <4>2. ByteOffset' = PageSize * Word(offset \div PageSize)
        BY <1>2, <3>1, <4>1 DEF ByteOffset
      <4>3. offset % PageSize = 0
        BY <1>4, <3>1
      <4> QED BY <1>1, <4>2, <4>3, ModulusAssumption DEF Word, PageSize
    <3> target \in Padded <=> target \in KernelPads
      BY DEF Inv, PaddingAsDocumented
    <3>2. CASE target # "linux32" /\ target \in Padded
      <4>1. request'.args[7] = Word(offset)
        BY <1>4, <3>2 DEF mmap, Syscall, Passed
      <4>2. ByteOffset' = Word(offset)
        BY <1>2, <3>2, <4>1 DEF ByteOffset
      <4> QED BY <1>1, <4>2, ModulusAssumption DEF Word, PageSize
    <3>3. CASE target # "linux32" /\ target \notin Padded
      <4>1. request'.args[6] = Word(offset)
        BY <1>4, <3>3 DEF mmap, Syscall, Passed
      <4>2. ByteOffset' = Word(offset)
        BY <1>2, <3>3, <4>1 DEF ByteOffset
      <4> QED BY <1>1, <4>2, ModulusAssumption DEF Word, PageSize
    <3> QED BY <3>1, <3>2, <3>3
  <2> QED BY <1>2, <2>1, <2>2 DEF Inv, RequestIsCall
<1> QED BY <1>3, <1>4

LEMMA ExitRequest ==
    ASSUME Inv, NEW s \in Status, exit(s)
    PROVE  /\ Inv'
           /\ pc = "client" /\ pc' = "kernel" /\ Api!ExitCall(call')
           /\ UNCHANGED <<file, mapped, reply, status>>
BY SignedAssumption DEF exit, Syscall, Inv, RequestIsCall, Api!ExitCall

-----------------------------------------------------------------------------
(* One step of the program, a wrapper or the kernel is one step of SysApi   *)
(* or none, and keeps the invariant.                                        *)

LEMMA ClientStep ==
    ASSUME PaddingAsDocumented, Inv, Client
    PROVE  Inv' /\ [Api!Next]_(Api!vars)
<1>1. ASSUME NEW fd \in AnyFd, NEW data \in Buffer, NEW size \in 0 .. Len(data),
             write(fd, data, size)
      PROVE  Inv' /\ Api!Call
  BY <1>1, WriteRequest DEF Api!Call
<1>2. ASSUME NEW fd \in AnyFd, NEW s \in Buffer, HasNUL(s), write_string(fd, s)
      PROVE  Inv' /\ Api!Call
  <2>1. str_length(s) \in 0 .. Len(s)
    BY <1>2, StrLengthInBuffer, BufferAssumption
  <2> QED BY <1>1, <1>2, <2>1 DEF write_string
<1>3. STDOUT \in AnyFd
  BY FdAssumption DEF STDOUT
<1>4. ASSUME NEW data \in Buffer, NEW size \in 0 .. Len(data), print_data(data, size)
      PROVE  Inv' /\ Api!Call
  BY <1>1, <1>3, <1>4 DEF print_data
<1>5. ASSUME NEW s \in Buffer, HasNUL(s), print_string(s)
      PROVE  Inv' /\ Api!Call
  BY <1>2, <1>3, <1>5 DEF print_string
<1>6. ASSUME NEW offset \in Offset, mmap(offset)
      PROVE  Inv' /\ (Api!Call \/ Api!MmapReject)
  BY <1>6, MmapRequest DEF Api!Call, Api!MmapReject, Told
<1>7. ASSUME NEW s \in Status, exit(s)
      PROVE  Inv' /\ Api!Call
  BY <1>7, ExitRequest DEF Api!Call
<1> QED BY <1>1, <1>2, <1>4, <1>5, <1>6, <1>7 DEF Client, Api!Next

LEMMA DecodeStep ==
    ASSUME Inv, Decode
    PROVE  Inv' /\ Api!Answer
BY DEF Decode, Decoded, Told, Inv, RequestIsCall, Api!Answer

(* What a wrapper makes of the three kinds of words the kernel leaves.      *)
LEMMA DecodeCount ==
    ASSUME NEW n \in Nat, n <= FileLimit
    PROVE  Signed(n) = n
BY BufferAssumption, ModulusAssumption DEF Signed

LEMMA DecodeErrno ==
    ASSUME NEW e \in Errno
    PROVE  Signed(Modulus - e) = - e /\ - e \in Int /\ - e < 0 /\ - e > - PageSize
BY ErrnoAssumption, ModulusAssumption DEF Signed, PageSize

LEMMA DecodeAddress ==
    ASSUME NEW a \in Page
    PROVE  ~ (Signed(a) < 0 /\ Signed(a) > - PageSize)
BY PageAssumption, ModulusAssumption DEF Signed, PageSize

LEMMA ServeWriteStep ==
    ASSUME Inv, ServeWrite
    PROVE  Inv' /\ Api!Write
<1>1. PICK fd \in Fd, n \in 0 .. request.args[3] :
         /\ Word(fd) = request.args[1]
         /\ Len(file[fd]) + n <= FileLimit
         /\ file' = [file EXCEPT ![fd] = @ \o SubSeq(request.args[2], 1, n)]
         /\ KernelReturns(n, FALSE)
  BY DEF ServeWrite
<1>2. /\ call.op = "write" /\ call.fd \in AnyFd /\ request.args[1] = Word(call.fd)
      /\ request.args[2] \in Seq(Int)
      /\ request.args[3] \in 0 .. Len(request.args[2])
      /\ call.data = SubSeq(request.args[2], 1, request.args[3])
  BY DEF ServeWrite, Inv, RequestIsCall
<1>3. call.fd = fd
  BY <1>1, <1>2, FdAssumption, WordInjective
<1>4. /\ Len(call.data) = request.args[3]
      /\ SubSeq(call.data, 1, n) = SubSeq(request.args[2], 1, n)
      /\ SubSeq(call.data, 1, n) \in Seq(Int)
  BY <1>2, PrefixOfPrefix
<1>5. n \in Nat /\ n <= FileLimit
  <2>1. file[fd] \in Seq(Int)
    BY DEF Inv
  <2>2. Len(file[fd]) \in Nat /\ n \in Nat
    BY <1>2, <2>1
  <2> QED BY <1>1, <2>2, BufferAssumption
<1>6. Told(Decoded)' = n
  BY <1>1, <1>2, <1>5, DecodeCount DEF KernelReturns, Told, Decoded
<1>7. /\ pc = "kernel" /\ pc' = "decode" /\ UNCHANGED <<target, call, status, mapped>>
      /\ file' = [file EXCEPT ![call.fd] = @ \o SubSeq(call.data, 1, n)]
  BY <1>1, <1>3, <1>4 DEF ServeWrite, KernelReturns
<1>8. file' \in [Fd -> Seq(Int)]
  <2>1. file[fd] \o SubSeq(call.data, 1, n) \in Seq(Int)
    BY <1>4 DEF Inv
  <2> QED BY <1>3, <1>7, <2>1 DEF Inv
<1>9. Inv'
  BY <1>2, <1>7, <1>8 DEF Inv, RequestIsCall
<1>10. Api!Write
  BY <1>2, <1>3, <1>4, <1>6, <1>7 DEF Api!Write, Told
<1> QED BY <1>9, <1>10

LEMMA ServeMmapStep ==
    ASSUME Inv, ServeMmap
    PROVE  Inv' /\ Api!Mmap
<1>1. PICK a \in Page :
         /\ \A m \in mapped : m.at # a
         /\ mapped' = mapped \union {[at |-> a, offset |-> ByteOffset]}
         /\ KernelReturns(a, FALSE)
  BY DEF ServeMmap
<1>2. /\ call.op = "mmap"
      /\ IF call.offset >= 0 THEN ByteOffset = call.offset ELSE 2 * ByteOffset >= Modulus
  BY DEF ServeMmap, Inv, RequestIsCall
<1>3. /\ pc = "kernel" /\ pc' = "decode" /\ word' = a
      /\ UNCHANGED <<target, call, status, file>>
  BY <1>1 DEF ServeMmap, KernelReturns
<1>4. Told(Decoded)' = a
  BY <1>1, <1>2, <1>3, DecodeAddress DEF KernelReturns, Told, Decoded
<1>5. Inv'
  BY <1>2, <1>3 DEF Inv, RequestIsCall
<1>6. Api!Mmap
  <2> DEFINE m == [at |-> a, offset |-> ByteOffset]
  <2>1. m \in mapped' /\ mapped' = mapped \union {m}
    BY <1>1
  <2>2. m.at = a /\ m.offset = ByteOffset
    OBVIOUS
  <2> HIDE DEF m
  <2> QED BY <1>1, <1>2, <1>3, <1>4, <2>1, <2>2 DEF Api!Mmap, Told
<1> QED BY <1>5, <1>6

LEMMA RefuseStep ==
    ASSUME Inv, NEW e \in Errno, Refuse(e)
    PROVE  Inv' /\ (Api!WriteError \/ Api!MmapError)
<1>1. /\ pc = "kernel" /\ pc' = "decode"
      /\ target \notin FlagsErrors => word' = Modulus - e
      /\ refused'
      /\ UNCHANGED <<target, call, status, file, mapped>>
      /\ request.nr \in {"WRITE", "MMAP"}
  BY DEF Refuse, KernelReturns
<1>2. call.op \in {"write", "mmap"}
  BY <1>1 DEF Inv, RequestIsCall
<1>3. Inv'
  BY <1>1, <1>2 DEF Inv, RequestIsCall
<1>4. CASE call.op = "write"
  <2>1. Told(Decoded)' \in Int /\ Told(Decoded)' < 0
    <3>1. CASE target \in FlagsErrors
      BY <1>1, <1>4, <3>1 DEF Told
    <3>2. CASE target \notin FlagsErrors
      BY <1>1, <1>4, <3>2, DecodeErrno DEF Told, Decoded
    <3> QED BY <3>1, <3>2
  <2> QED BY <1>1, <1>3, <1>4, <2>1 DEF Api!WriteError, Told
<1>5. CASE call.op = "mmap"
  <2>1. Told(Decoded)' = MAP_FAILED
    BY <1>1, <1>5, DecodeErrno DEF Told, Decoded
  <2> QED BY <1>1, <1>3, <1>5, <2>1 DEF Api!MmapError, Told
<1> QED BY <1>2, <1>3, <1>4, <1>5

LEMMA TerminateStep ==
    ASSUME Inv, Terminate
    PROVE  Inv' /\ Api!Exit
<1>1. /\ pc = "kernel" /\ pc' = "exited" /\ status' = request.args[1]
      /\ UNCHANGED <<target, call, word, reply, refused, file, mapped>>
  BY DEF Terminate
<1>2. call.op = "exit" /\ call.status \in Status /\ status' = Word(call.status)
  BY <1>1 DEF Terminate, Inv, RequestIsCall
<1>3. /\ status' = IF call.status >= 0 THEN call.status ELSE call.status + Modulus
      /\ status' \in Int
  BY <1>2, SignedAssumption, ModulusAssumption DEF Word, PageSize
<1> QED BY <1>1, <1>2, <1>3 DEF Inv, RequestIsCall, Told, Api!Exit

LEMMA StartStep ==
    ASSUME Inv, Start
    PROVE  Inv' /\ UNCHANGED Api!vars
BY DEF Start, Inv, RequestIsCall, Told, Api!vars

LEMMA Step ==
    ASSUME PaddingAsDocumented, Inv, [Next]_vars
    PROVE  Inv' /\ [Api!Next]_(Api!vars)
<1>1. CASE Start
  BY <1>1, StartStep
<1>2. CASE Client
  BY <1>2, ClientStep
<1>3. CASE Decode
  BY <1>3, DecodeStep DEF Api!Next
<1>4. CASE ServeWrite
  BY <1>4, ServeWriteStep DEF Api!Next
<1>5. CASE ServeMmap
  BY <1>5, ServeMmapStep DEF Api!Next
<1>6. CASE \E e \in Errno : Refuse(e)
  BY <1>6, RefuseStep DEF Api!Next
<1>7. CASE Terminate
  BY <1>7, TerminateStep DEF Api!Next
<1>8. CASE UNCHANGED vars
  BY <1>8 DEF vars, Inv, RequestIsCall, ByteOffset, Told, Decoded, Api!vars
<1> QED BY <1>1, <1>2, <1>3, <1>4, <1>5, <1>6, <1>7, <1>8 DEF Next, Kernel

LEMMA InitStep == ASSUME Init PROVE Inv /\ Api!Init
BY DEF Init, Inv, RequestIsCall, Told, Api!Init

(* Every behaviour of the posix layer and the kernel is one of SysApi: bytes*)
(* reported are bytes written, MAP_FAILED is returned exactly when nothing  *)
(* was mapped, a mapping has the offset asked for, and nothing happens      *)
(* after exit; of a refusal that the kernel flags, the program is taken to  *)
(* have been told.                                                          *)
THEOREM PosixImplementsApi ==
    ASSUME PaddingAsDocumented
    PROVE  Spec => Implements
<1>1. Init => Inv /\ Api!Init
  BY InitStep
<1>2. Inv /\ [Next]_vars => Inv' /\ [Api!Next]_(Api!vars)
  BY Step
<1> QED BY <1>1, <1>2, PTL DEF Spec, Implements, Api!Spec

(* The request a kernel finds is the call the program made, on any target. *)
THEOREM RequestsAreCalls ==
    ASSUME PaddingAsDocumented
    PROVE  Spec => []RequestIsCall
<1>1. Init => Inv
  BY InitStep
<1>2. Inv /\ [Next]_vars => Inv'
  BY Step
<1>3. Inv => RequestIsCall
  BY DEF Inv
<1> QED BY <1>1, <1>2, <1>3, PTL DEF Spec

-----------------------------------------------------------------------------
(* What is known of the kernel's word between the trap and the decoding.    *)

\* A mapping at address a starts where the last call asked for.
MappedAsAsked(a) ==
    \E m \in mapped :
        /\ m.at = a
        /\ IF call.offset >= 0 THEN m.offset = call.offset
           ELSE 2 * m.offset >= Modulus

DeliveredInv ==
    /\ Inv
    /\ pc = "decode" /\ ~ refused /\ call.op = "mmap" =>
         word \in Page /\ MappedAsAsked(word)
    /\ pc = "start" => call.op = "none"
    /\ MappingDelivered

RefusedInv ==
    /\ Inv
    /\ pc = "decode" /\ refused /\ target \notin FlagsErrors =>
         \E e \in Errno : word = Modulus - e
    /\ pc = "start" => ~ refused
    /\ NegatedErrorReported

(* The program's own steps lead to the kernel, but for a refused mmap.      *)
LEMMA ClientLeaves ==
    ASSUME Client
    PROVE  \/ pc' = "kernel"
           \/ pc' = "client" /\ call'.op = "mmap" /\ refused' /\ reply' = MAP_FAILED
<1>1. ASSUME NEW fd, NEW data, NEW size, write(fd, data, size)
      PROVE  pc' = "kernel"
  BY <1>1 DEF write, Syscall
<1>2. ASSUME NEW fd, NEW s, write_string(fd, s)
      PROVE  pc' = "kernel"
  BY <1>1, <1>2 DEF write_string
<1>3. ASSUME NEW offset \in Offset, mmap(offset)
      PROVE  \/ pc' = "kernel"
             \/ pc' = "client" /\ call'.op = "mmap" /\ refused' /\ reply' = MAP_FAILED
  BY <1>3 DEF mmap, Syscall
<1>4. ASSUME NEW s \in Status, exit(s)
      PROVE  pc' = "kernel"
  BY <1>4 DEF exit, Syscall
<1> QED BY <1>1, <1>2, <1>3, <1>4 DEF Client, print_data, print_string

LEMMA DeliveredStep ==
    ASSUME PaddingAsDocumented, DeliveredInv, [Next]_vars
    PROVE  DeliveredInv'
<1>1. Inv'
  BY Step DEF DeliveredInv
<1>2. CASE Start
  BY <1>1, <1>2 DEF Start, DeliveredInv, MappingDelivered
<1>3. CASE Client
  BY <1>1, <1>3, ClientLeaves DEF DeliveredInv, MappingDelivered
<1>4. CASE Decode
  <2>1. call.op = "mmap" /\ ~ refused => reply' = word /\ MappedAsAsked(word)
    BY <1>4, DecodeAddress DEF Decode, Decoded, DeliveredInv
  <2> QED BY <1>1, <1>4, <2>1 DEF Decode, DeliveredInv, MappingDelivered, MappedAsAsked
<1>5. CASE ServeWrite
  <2>1. call.op = "write"
    BY <1>5 DEF ServeWrite, DeliveredInv, Inv, RequestIsCall
  <2> QED BY <1>1, <1>5, <2>1
        DEF ServeWrite, KernelReturns, DeliveredInv, MappingDelivered
<1>6. CASE ServeMmap
  <2>1. PICK a \in Page :
           /\ mapped' = mapped \union {[at |-> a, offset |-> ByteOffset]}
           /\ KernelReturns(a, FALSE)
    BY <1>6 DEF ServeMmap
  <2>2. IF call.offset >= 0 THEN ByteOffset = call.offset ELSE 2 * ByteOffset >= Modulus
    BY <1>6 DEF ServeMmap, DeliveredInv, Inv, RequestIsCall
  <2>3. MappedAsAsked(a)'
    <3> DEFINE m == [at |-> a, offset |-> ByteOffset]
    <3>1. m \in mapped' /\ m.at = a /\ m.offset = ByteOffset
      BY <2>1
    <3>2. call' = call
      BY <2>1 DEF KernelReturns
    <3> HIDE DEF m
    <3> QED BY <2>2, <3>1, <3>2 DEF MappedAsAsked
  <2> QED BY <1>1, <2>1, <2>3 DEF KernelReturns, DeliveredInv, MappingDelivered, MappedAsAsked
<1>7. CASE \E e \in Errno : Refuse(e)
  BY <1>1, <1>7 DEF Refuse, KernelReturns, DeliveredInv, MappingDelivered
<1>8. CASE Terminate
  BY <1>1, <1>8 DEF Terminate, DeliveredInv, MappingDelivered
<1>9. CASE UNCHANGED vars
  BY <1>1, <1>9 DEF vars, DeliveredInv, MappingDelivered, MappedAsAsked
<1> QED BY <1>2, <1>3, <1>4, <1>5, <1>6, <1>7, <1>8, <1>9 DEF Next, Kernel

LEMMA RefusedStep ==
    ASSUME PaddingAsDocumented, RefusedInv, [Next]_vars
    PROVE  RefusedInv'
<1>1. Inv'
  BY Step DEF RefusedInv
<1>2. CASE Start
  BY <1>1, <1>2 DEF Start, RefusedInv, NegatedErrorReported, FailureReported
<1>3. CASE Client
  BY <1>1, <1>3, ClientLeaves DEF RefusedInv, NegatedErrorReported, FailureReported
<1>4. CASE Decode
  <2>1. ASSUME refused, target \notin FlagsErrors
        PROVE  \/ call.op = "write" /\ Decoded < 0
               \/ call.op = "mmap" /\ Decoded = MAP_FAILED
    BY <1>4, <2>1, DecodeErrno DEF Decode, Decoded, RefusedInv, Inv
  <2> QED BY <1>1, <1>4, <2>1 DEF Decode, RefusedInv, NegatedErrorReported, FailureReported
<1>5. CASE ServeWrite
  BY <1>1, <1>5 DEF ServeWrite, KernelReturns, RefusedInv, NegatedErrorReported, FailureReported
<1>6. CASE ServeMmap
  BY <1>1, <1>6 DEF ServeMmap, KernelReturns, RefusedInv, NegatedErrorReported, FailureReported
<1>7. CASE \E e \in Errno : Refuse(e)
  BY <1>1, <1>7 DEF Refuse, KernelReturns, RefusedInv, Inv, NegatedErrorReported, FailureReported
<1>8. CASE Terminate
  BY <1>1, <1>8 DEF Terminate, RefusedInv, NegatedErrorReported, FailureReported
<1>9. CASE UNCHANGED vars
  BY <1>1, <1>9 DEF vars, RefusedInv, NegatedErrorReported, FailureReported
<1> QED BY <1>2, <1>3, <1>4, <1>5, <1>6, <1>7, <1>8, <1>9 DEF Next, Kernel

(* mmap returns the address of the mapping the kernel made, at the offset   *)
(* asked for, on any target: a success is never decoded as a failure.       *)
THEOREM MappingsDelivered ==
    ASSUME PaddingAsDocumented
    PROVE  Spec => []MappingDelivered
<1>1. Init => DeliveredInv
  <2> SUFFICES ASSUME Init PROVE DeliveredInv
    OBVIOUS
  <2>1. Inv /\ pc = "start" /\ call.op = "none"
    BY InitStep DEF Init
  <2> QED BY <2>1 DEF DeliveredInv, MappingDelivered
<1>2. DeliveredInv /\ [Next]_vars => DeliveredInv'
  BY DeliveredStep
<1>3. DeliveredInv => MappingDelivered
  BY DEF DeliveredInv
<1> QED BY <1>1, <1>2, <1>3, PTL DEF Spec

(* On kernels that return -errno a failure is reported as one, whatever the *)
(* error number below the window's 4096.                                    *)
THEOREM FailuresReported ==
    ASSUME PaddingAsDocumented
    PROVE  Spec => []NegatedErrorReported
<1>1. Init => RefusedInv
  BY InitStep DEF Init, RefusedInv, NegatedErrorReported, FailureReported
<1>2. RefusedInv /\ [Next]_vars => RefusedInv'
  BY RefusedStep
<1>3. RefusedInv => NegatedErrorReported
  BY DEF RefusedInv
<1> QED BY <1>1, <1>2, <1>3, PTL DEF Spec

-----------------------------------------------------------------------------
(* Types: that the kernel's words are words and its offsets are numbers     *)
(* depends on the request being the call.                                   *)

TypeInv ==
    /\ Inv
    /\ TypeOK
    /\ pc = "kernel" /\ request.nr = "MMAP" => ByteOffset \in Nat

LEMMA WordRange ==
    ASSUME NEW x \in AnyFd \union Offset \union Status
    PROVE  Word(x) \in 0 .. Modulus - 1
BY SignedAssumption, ModulusAssumption DEF Word, PageSize

LEMMA ClientTypes ==
    ASSUME PaddingAsDocumented, TypeInv, Client
    PROVE  /\ call'.op \in {"write", "mmap", "exit"}
           /\ request'.nr \in {"none", "WRITE", "MMAP", "EXIT"}
           /\ pc' \in {"client", "kernel"}
           /\ reply' \in Int /\ refused' \in BOOLEAN
           /\ UNCHANGED <<target, word, file, mapped, status>>
           /\ pc' = "kernel" /\ request'.nr = "MMAP" => ByteOffset' \in Nat
<1> USE DEF TypeInv, TypeOK
<1>1. ASSUME NEW fd, NEW data, NEW size, write(fd, data, size)
      PROVE  /\ call'.op = "write" /\ request'.nr = "WRITE" /\ pc' = "kernel"
             /\ UNCHANGED <<target, word, reply, refused, file, mapped, status>>
  BY <1>1 DEF write, Syscall
<1>2. ASSUME NEW s \in Status, exit(s)
      PROVE  /\ call'.op = "exit" /\ request'.nr = "EXIT" /\ pc' = "kernel"
             /\ UNCHANGED <<target, word, reply, refused, file, mapped, status>>
  BY <1>2 DEF exit, Syscall
<1>3. ASSUME NEW offset \in Offset, mmap(offset)
      PROVE  /\ call'.op = "mmap" /\ pc' \in {"client", "kernel"}
             /\ request'.nr \in {"none", "WRITE", "MMAP", "EXIT"}
             /\ reply' \in Int /\ refused' \in BOOLEAN
             /\ UNCHANGED <<target, word, file, mapped, status>>
             /\ pc' = "kernel" => ByteOffset' \in Nat
  <2>1. offset \in Int /\ - Modulus <= 2 * offset /\ 2 * offset < Modulus
        /\ Word(offset) \in Nat
    BY SignedAssumption, WordRange, ModulusAssumption
  <2>2. CASE target = "linux32" /\ offset % PageSize # 0
    BY <1>3, <2>2, ModulusAssumption DEF mmap, MAP_FAILED
  <2>3. CASE ~ (target = "linux32" /\ offset % PageSize # 0)
    <3>1. /\ call'.op = "mmap" /\ pc' = "kernel" /\ request'.nr = "MMAP"
          /\ UNCHANGED <<target, word, reply, refused, file, mapped, status>>
          /\ request'.args = Passed \o
                (IF target = "linux32" THEN <<Word(offset \div PageSize)>>
                 ELSE IF target \in Padded THEN <<0, Word(offset)>>
                 ELSE <<Word(offset)>>)
      BY <1>3, <2>3 DEF mmap, Syscall
    <3>2. CASE target = "linux32"
      <4>1. Word(offset \div PageSize) \in Nat
        BY <2>1, ModulusAssumption DEF Word, PageSize
      <4>2. request'.args[6] = Word(offset \div PageSize)
        BY <3>1, <3>2 DEF Passed
      <4>3. ByteOffset' = PageSize * Word(offset \div PageSize)
        BY <3>1, <3>2, <4>2 DEF ByteOffset
      <4>4. ByteOffset' \in Nat
        BY <4>1, <4>3 DEF PageSize
      <4> QED BY <3>1, <4>4
    <3>3. CASE target # "linux32" /\ target \in Padded
      <4>1. request'.args[6] = 0 /\ request'.args[7] = Word(offset)
        BY <3>1, <3>3 DEF Passed
      <4>2. target \in KernelPads
        BY <3>3 DEF PaddingAsDocumented
      <4>3. ByteOffset' = Word(offset)
        BY <3>1, <3>3, <4>1, <4>2 DEF ByteOffset
      <4> QED BY <2>1, <3>1, <4>3
    <3>4. CASE target # "linux32" /\ target \notin Padded /\ target \notin KernelPads
      <4>1. request'.args[6] = Word(offset)
        BY <3>1, <3>4 DEF Passed
      <4>2. ByteOffset' = Word(offset)
        BY <3>1, <3>4, <4>1 DEF ByteOffset
      <4> QED BY <2>1, <3>1, <4>2
    <3>5. target \in Padded <=> target \in KernelPads
      BY DEF PaddingAsDocumented
    <3> QED BY <3>1, <3>2, <3>3, <3>4, <3>5
  <2> QED BY <2>2, <2>3
<1> QED BY <1>1, <1>2, <1>3 DEF Client, write_string, print_data, print_string

LEMMA TypeStep ==
    ASSUME PaddingAsDocumented, TypeInv, [Next]_vars
    PROVE  TypeInv'
<1>1. Inv'
  BY Step DEF TypeInv
<1>2. CASE Start
  BY <1>1, <1>2 DEF Start, TypeInv, TypeOK
<1>3. CASE Client
  BY <1>1, <1>3, ClientTypes DEF TypeInv, TypeOK
<1>4. CASE Decode
  <2>1. Decoded \in Int
    BY ModulusAssumption DEF Decoded, MAP_FAILED, Signed, TypeInv, TypeOK
  <2> QED BY <1>1, <1>4, <2>1 DEF Decode, TypeInv, TypeOK
<1>5. CASE ServeWrite
  <2>1. PICK fd \in Fd, n \in 0 .. request.args[3] :
           Len(file[fd]) + n <= FileLimit /\ KernelReturns(n, FALSE)
    BY <1>5 DEF ServeWrite
  <2>2. request.args[3] \in Nat
    <3>1. request.args[2] \in Seq(Int) /\ request.args[3] \in 0 .. Len(request.args[2])
      BY <1>5 DEF ServeWrite, TypeInv, Inv, RequestIsCall
    <3> QED BY <3>1
  <2>3. file[fd] \in Seq(Int) /\ Len(file[fd]) \in Nat
    BY DEF TypeInv, TypeOK
  <2>4. n \in 0 .. Modulus - 1
    BY <2>1, <2>2, <2>3, BufferAssumption, ModulusAssumption
  <2>5. file' \in [Fd -> Seq(Int)]
    BY <1>1 DEF Inv
  <2> QED BY <1>1, <1>5, <2>1, <2>4, <2>5
          DEF ServeWrite, KernelReturns, NoRequest, TypeInv, TypeOK
<1>6. CASE ServeMmap
  <2>1. PICK a \in Page :
           /\ mapped' = mapped \union {[at |-> a, offset |-> ByteOffset]}
           /\ KernelReturns(a, FALSE)
    BY <1>6 DEF ServeMmap
  <2>2. ByteOffset \in Nat
    BY <1>6 DEF ServeMmap, TypeInv
  <2>3. a \in 0 .. Modulus - 1
    BY <2>1, PageAssumption, ModulusAssumption DEF PageSize
  <2>4. mapped' \subseteq [at : Page, offset : Nat]
    BY <2>1, <2>2 DEF TypeInv, TypeOK
  <2> QED BY <1>1, <1>6, <2>1, <2>3, <2>4
          DEF ServeMmap, KernelReturns, NoRequest, TypeInv, TypeOK
<1>7. CASE \E e \in Errno : Refuse(e)
  <2>1. PICK e \in Errno : Refuse(e)
    BY <1>7
  <2>2. e \in 0 .. Modulus - 1 /\ Modulus - e \in 0 .. Modulus - 1
    BY <2>1, ErrnoAssumption, ModulusAssumption DEF PageSize
  <2> QED BY <1>1, <2>1, <2>2 DEF Refuse, KernelReturns, NoRequest, TypeInv, TypeOK
<1>8. CASE Terminate
  <2>1. status' = Word(call.status) /\ call.status \in Status
    BY <1>8 DEF Terminate, TypeInv, Inv, RequestIsCall
  <2>2. status' \in 0 .. Modulus - 1
    BY <2>1, WordRange
  <2> QED BY <1>1, <1>8, <2>2, ModulusAssumption DEF Terminate, TypeInv, TypeOK
<1>9. CASE UNCHANGED vars
  BY <1>1, <1>9 DEF vars, TypeInv, TypeOK, ByteOffset
<1> QED BY <1>2, <1>3, <1>4, <1>5, <1>6, <1>7, <1>8, <1>9 DEF Next, Kernel

(* Every word of the layer and the kernel stays a word, every offset a      *)
(* number, on any target.                                                   *)
THEOREM TypeCorrect ==
    ASSUME PaddingAsDocumented
    PROVE  Spec => []TypeOK
<1>1. Init => TypeInv
  <2> SUFFICES ASSUME Init PROVE TypeInv
    OBVIOUS
  <2>1. Inv
    BY InitStep
  <2>2. file \in [Fd -> Seq(Int)] /\ target \in Target
    BY <2>1 DEF Inv
  <2>3. request.nr = "none" /\ call.op = "none"
    BY DEF Init, NoRequest
  <2>4. word \in 0 .. Modulus - 1 /\ status \in -1 .. Modulus - 1
    BY ModulusAssumption DEF Init, PageSize
  <2>5. mapped \subseteq [at : Page, offset : Nat]
    BY DEF Init
  <2>6. pc = "start" /\ reply = 0 /\ refused \in BOOLEAN
    BY DEF Init
  <2>7. TypeOK
    BY <2>2, <2>3, <2>4, <2>5, <2>6 DEF TypeOK
  <2> QED BY <2>1, <2>6, <2>7 DEF TypeInv
<1>2. TypeInv /\ [Next]_vars => TypeInv'
  BY TypeStep
<1>3. TypeInv => TypeOK
  BY DEF TypeInv
<1> QED BY <1>1, <1>2, <1>3, PTL DEF Spec
=============================================================================
