---------------------------- MODULE SyscallTables ----------------------------
(***************************************************************************)
(* The asm statements of the syscall_*.cpp partitions, one definition per  *)
(* partition, and beside them the conventions of the kernels.  The latter  *)
(* are what the stand-alone programs of syscall_demos/ pass and declare    *)
(* for write and exit, completed with the argument registers past the      *)
(* third that the kernels document.  One list is not independent of the    *)
(* partitions: what the ppc64 kernel of Linux destroys, which its program  *)
(* does not say, is what the clobbers of syscall3 say.                     *)
(* "memory" clobbers are left out: the words modelled are private to the   *)
(* caller, which "memory" does not cover.                                  *)
(* A definition whose name ends in Mutant is a bug the runs must find; see *)
(* the README.                                                             *)
(***************************************************************************)
EXTENDS SyscallMachine

\* The condition codes: "cc" in a clobber list, and in effect in every one of
\* amd64 and i386, where the compiler takes any asm to destroy them.  A caller
\* that compares before the call and branches after it keeps a word there.
CC == {"flags"}

push(i) == [op |-> "push", arg |-> i, off |-> 0]
poke(i, off) == [op |-> "poke", arg |-> i, off |-> off]
adjust(off) == [op |-> "adjust", arg |-> 0, off |-> off]
trap == [op |-> "trap", arg |-> 0, off |-> 0]

\* Operand i in the (i+1)-th register of the list: the number comes first.
InRegisters(list) ==
    [reg |-> [i \in 0 .. Len(list) - 1 |-> list[i + 1]], mem |-> << >>]

\* syscall<k>: every operand bound to a register, the template one trap.
RegisterCall(k, list, out, clobbers) ==
    [arity |-> k, places |-> {InRegisters(list)}, out |-> out, clobbers |-> clobbers,
     code |-> <<trap>>, depth |-> <<0, 0>>, laid |-> <<{}, {}>>]

\* Without the push of the return address slot.
NoSlotMutant(k, places) ==
    [arity |-> k, places |-> places, out |-> "eax", clobbers |-> CC,
     code |-> [j \in 1 .. k + 2 |->
                 IF j <= k THEN push(k + 1 - j) ELSE IF j = k + 1 THEN trap ELSE adjust(k)],
     depth |-> [j \in 1 .. k + 3 |-> IF j <= k + 1 THEN 1 - j ELSE 0],
     laid |-> [j \in 1 .. k + 3 |-> {}]]

\* With an addl that forgets the return address slot.
ShortDropMutant(k, places) ==
    [arity |-> k, places |-> places, out |-> "eax", clobbers |-> CC,
     code |-> [j \in 1 .. k + 3 |->
                 IF j <= k + 1 THEN push(k + 1 - j)
                 ELSE IF j = k + 2 THEN trap ELSE adjust(k)],
     depth |-> [j \in 1 .. k + 4 |-> 0],
     laid |-> [j \in 1 .. k + 4 |-> {}]]

\* syscall<k> that pushes its "g" operands, then eax for the return address
\* slot of a C call, and drops them with one addl.
PushCall(k, places) ==
    [arity |-> k, places |-> places, out |-> "eax", clobbers |-> CC,
     code |-> [j \in 1 .. k + 3 |->
                 IF j <= k + 1 THEN push(k + 1 - j)
                 ELSE IF j = k + 2 THEN trap ELSE adjust(k + 1)],
     depth |-> [j \in 1 .. k + 4 |->
                 IF j <= k + 2 THEN 1 - j ELSE IF j = k + 3 THEN - (k + 1) ELSE 0],
     laid |-> [j \in 1 .. k + 4 |->
                 IF j <= k + 2 THEN {[arg |-> k + 1 - m, at |-> - m] : m \in 1 .. j - 1}
                 ELSE {}]]

\* With the seventh argument stored where the return address would be.
LowPokeMutant(list, out, clobbers) ==
    [arity |-> 7, places |-> {InRegisters(list)}, out |-> out, clobbers |-> clobbers,
     code |-> <<adjust(-2), poke(7, 0), trap, adjust(2)>>,
     depth |-> <<0, -2, -2, -2, 0>>,
     laid |-> <<{}, {}, {[arg |-> 7, at |-> -1]}, {}, {}>>]

\* syscall7 with six register arguments and the seventh stored, after
\* subq $16, at 8(%rsp); a7 is the eighth of the registers.
PokeCall(list, out, clobbers) ==
    [arity |-> 7, places |-> {InRegisters(list)}, out |-> out, clobbers |-> clobbers,
     code |-> <<adjust(-2), poke(7, 1), trap, adjust(2)>>,
     depth |-> <<0, -2, -2, -2, 0>>,
     laid |-> <<{}, {}, {[arg |-> 7, at |-> -1]}, {}, {}>>]

-----------------------------------------------------------------------------
(* Linux *)

AMD64Args == <<"rdi", "rsi", "rdx", "r10", "r8", "r9">>

\* Without the clobbers of the syscall instruction.
UndeclaredMutant(k) ==
    RegisterCall(k, <<"rax">> \o SubSeq(AMD64Args, 1, k), "rax", CC)

AMD64Call(k) ==
    RegisterCall(k, <<"rax">> \o SubSeq(AMD64Args, 1, k), "rax", {"rcx", "r11"} \union CC)

LinuxAMD64 == {AMD64Call(3), AMD64Call(6)}

LinuxI386 ==
    {RegisterCall(3, <<"eax", "ebx", "ecx", "edx">>, "eax", CC),
     RegisterCall(6, <<"eax", "ebx", "ecx", "edx", "esi", "edi", "ebp">>, "eax", CC)}

LinuxARM ==
    {RegisterCall(3, <<"r7", "r0", "r1", "r2">>, "r0", CC),
     RegisterCall(6, <<"r7", "r0", "r1", "r2", "r3", "r4", "r5">>, "r0", CC)}

\* With the number's register read back.
NumberBackMutant ==
    {RegisterCall(3, <<"x8", "x0", "x1", "x2">>, "x8", {}),
     RegisterCall(6, <<"x8", "x0", "x1", "x2", "x3", "x4", "x5">>, "x8", {})}

LinuxAArch64 ==
    {RegisterCall(3, <<"x8", "x0", "x1", "x2">>, "x0", {}),
     RegisterCall(6, <<"x8", "x0", "x1", "x2", "x3", "x4", "x5">>, "x0", {})}

LinuxRISCV64 ==
    {RegisterCall(3, <<"a7", "a0", "a1", "a2">>, "a0", {}),
     RegisterCall(6, <<"a7", "a0", "a1", "a2", "a3", "a4", "a5">>, "a0", {})}

LinuxLoongArch64 ==
    {RegisterCall(3, <<"a7", "a0", "a1", "a2">>, "a0", {}),
     RegisterCall(6, <<"a7", "a0", "a1", "a2", "a3", "a4", "a5">>, "a0", {})}

LinuxMIPS64 ==
    {RegisterCall(3, <<"$2", "$4", "$5", "$6">>, "$2", {"$1", "$3", "$7"}),
     RegisterCall(6, <<"$2", "$4", "$5", "$6", "$7", "$8", "$9">>, "$2",
                  {"$1", "$3", "$10", "$11"})}

LinuxPPC64 ==
    {RegisterCall(3, <<"r0", "r3", "r4", "r5">>, "r3",
                  {"r6", "r7", "r8", "r9", "r10", "r11", "r12", "ctr", "xer"} \union CC),
     RegisterCall(6, <<"r0", "r3", "r4", "r5", "r6", "r7", "r8">>, "r3",
                  {"r9", "r10", "r11", "r12", "ctr", "xer"} \union CC)}

LinuxS390X ==
    {RegisterCall(3, <<"r1", "r2", "r3", "r4">>, "r2", CC),
     RegisterCall(6, <<"r1", "r2", "r3", "r4", "r5", "r6", "r7">>, "r2", CC)}

-----------------------------------------------------------------------------
(* FreeBSD, DragonFly, OpenBSD, NetBSD.  syscall7 exists on the last two. *)

\* syscall3 binds r10, r8 and r9 too, to zeros.  The seventh argument is an
\* "r" operand: rbx stands for any register the statement does not name.
BSDAMD64 ==
    {[AMD64Call(6) EXCEPT !.arity = 3], AMD64Call(6),
     PokeCall(<<"rax">> \o AMD64Args \o <<"rbx">>, "rax",
              {"rcx", "r11"} \union CC)}

\* The compiler picks a place for each "g" operand.  The placements explored:
\* none, three or five operands in registers (ebp is not always allocatable)
\* and the others in frame slots, or else immediates.
I386Registers == <<"ecx", "edx", "ebx", "esi", "edi">>
GeneralPlace(k, m, inFrame) ==
    [reg |-> [i \in 0 .. m |-> IF i = 0 THEN "eax" ELSE I386Registers[i]],
     mem |-> [i \in {j \in m + 1 .. k : inFrame} |-> FrameSP + i]]
GeneralPlaces(k) ==
    {GeneralPlace(k, m, inFrame) : m \in {0, 3, 5} \intersect 0 .. k, inFrame \in BOOLEAN}

BSDI386 ==
    {PushCall(3, GeneralPlaces(3)), PushCall(6, GeneralPlaces(6)),
     PushCall(7, GeneralPlaces(7))}

BSDARM ==
    {RegisterCall(3, <<"r7", "r0", "r1", "r2">>, "r0", CC),
     RegisterCall(6, <<"r7", "r0", "r1", "r2", "r3", "r4", "r5">>, "r0", CC),
     RegisterCall(7, <<"r7", "r0", "r1", "r2", "r3", "r4", "r5", "r6">>, "r0", CC)}

BSDAArch64 ==
    {RegisterCall(3, <<"x8", "x0", "x1", "x2">>, "x0", CC),
     RegisterCall(6, <<"x8", "x0", "x1", "x2", "x3", "x4", "x5">>, "x0", CC),
     RegisterCall(7, <<"x8", "x0", "x1", "x2", "x3", "x4", "x5", "x6">>, "x0", CC)}

BSDRISCV64 ==
    {RegisterCall(3, <<"a7", "a0", "a1", "a2">>, "a0", {}),
     RegisterCall(6, <<"a7", "a0", "a1", "a2", "a3", "a4", "a5">>, "a0", {}),
     RegisterCall(7, <<"a7", "a0", "a1", "a2", "a3", "a4", "a5", "a6">>, "a0", {})}

BSDPPC64 ==
    {RegisterCall(3, <<"r0", "r3", "r4", "r5">>, "r3",
                  {"r6", "r7", "r8", "r9", "r10", "r11", "r12"} \union CC),
     RegisterCall(6, <<"r0", "r3", "r4", "r5", "r6", "r7", "r8">>, "r3",
                  {"r9", "r10", "r11", "r12"} \union CC),
     RegisterCall(7, <<"r0", "r3", "r4", "r5", "r6", "r7", "r8", "r9">>, "r3",
                  {"r10", "r11", "r12"} \union CC)}

\* The #if around syscall7 in all six.
WithoutSyscall7(prims) == {p \in prims : p.arity < 7}

-----------------------------------------------------------------------------
(* macOS and Solaris *)

DarwinAMD64 ==
    {AMD64Call(3), AMD64Call(6),
     PokeCall(<<"rax">> \o AMD64Args \o <<"rbx">>, "rax",
              {"rcx", "r11"} \union CC)}

\* With the number where the other aarch64 systems take it.
NumberInX8Mutant ==
    {RegisterCall(3, <<"x8", "x0", "x1", "x2">>, "x0", {}),
     RegisterCall(6, <<"x8", "x0", "x1", "x2", "x3", "x4", "x5">>, "x0", {}),
     RegisterCall(7, <<"x8", "x0", "x1", "x2", "x3", "x4", "x5", "x6">>, "x0", {})}

DarwinAArch64 ==
    {RegisterCall(3, <<"x16", "x0", "x1", "x2">>, "x0", {}),
     RegisterCall(6, <<"x16", "x0", "x1", "x2", "x3", "x4", "x5">>, "x0", {}),
     RegisterCall(7, <<"x16", "x0", "x1", "x2", "x3", "x4", "x5", "x6">>, "x0", {})}

SolarisAMD64 == {AMD64Call(3), AMD64Call(6)}

SolarisSPARC64 ==
    {RegisterCall(3, <<"g1", "o0", "o1", "o2">>, "o0", CC),
     RegisterCall(6, <<"g1", "o0", "o1", "o2", "o3", "o4", "o5">>, "o0", CC)}

-----------------------------------------------------------------------------
(* The kernels' side.  The condition codes are destroyed where the program  *)
(* of syscall_demos/ lists "cc"; most kernels report an error in one.       *)

Convention(number, arguments, result, volatile) ==
    [number |-> number, args |-> arguments, result |-> result, volatile |-> volatile]

\* One convention for every amd64 system.
AMD64Kernel ==
    Convention("rax", <<"rdi", "rsi", "rdx", "r10", "r8", "r9">>, "rax",
               {"rcx", "r11"} \union CC)

LinuxKernel ==
    [amd64   |-> AMD64Kernel,
     i386    |-> Convention("eax", <<"ebx", "ecx", "edx", "esi", "edi", "ebp">>, "eax", CC),
     arm     |-> Convention("r7", <<"r0", "r1", "r2", "r3", "r4", "r5">>, "r0", CC),
     aarch64 |-> Convention("x8", <<"x0", "x1", "x2", "x3", "x4", "x5">>, "x0", {}),
     riscv64 |-> Convention("a7", <<"a0", "a1", "a2", "a3", "a4", "a5">>, "a0", {}),
     loongarch64 |-> Convention("a7", <<"a0", "a1", "a2", "a3", "a4", "a5">>, "a0", {}),
     \* "cc" from hello_linux.cpp:146, the registers from syscall3 itself
     ppc64   |-> Convention("r0", <<"r3", "r4", "r5", "r6", "r7", "r8">>, "r3",
                   {"r6", "r7", "r8", "r9", "r10", "r11", "r12", "ctr", "xer"} \union CC),
     s390x   |-> Convention("r1", <<"r2", "r3", "r4", "r5", "r6", "r7">>, "r2", CC)]

\* The n64 kernel reports errors in $7, so it writes the register of the
\* fourth argument.
MIPS64Kernel ==
    Convention("$2", <<"$4", "$5", "$6", "$7", "$8", "$9">>, "$2", {"$1", "$3", "$7"})

\* On i386 all arguments are on the stack, on amd64 those past the sixth.
BSDKernel ==
    [amd64   |-> AMD64Kernel,
     i386    |-> Convention("eax", << >>, "eax", CC),
     arm     |-> Convention("r7", <<"r0", "r1", "r2", "r3", "r4", "r5", "r6">>, "r0", CC),
     aarch64 |-> Convention("x8", <<"x0", "x1", "x2", "x3", "x4", "x5", "x6">>, "x0", CC),
     riscv64 |-> Convention("a7", <<"a0", "a1", "a2", "a3", "a4", "a5", "a6">>, "a0", {}),
     ppc64   |-> Convention("r0", <<"r3", "r4", "r5", "r6", "r7", "r8", "r9">>, "r3",
                   {"r6", "r7", "r8", "r9", "r10", "r11", "r12"} \union CC)]

\* Like the BSDs macOS reports errors in the carry flag; hello_macos.cpp lists
\* "cc" as little as the partition does, so this is the kernel's documented part.
DarwinKernel ==
    [amd64   |-> AMD64Kernel,
     aarch64 |-> Convention("x16", <<"x0", "x1", "x2", "x3", "x4", "x5", "x6">>, "x0", CC)]

SolarisKernel ==
    [amd64   |-> AMD64Kernel,
     sparc64 |-> Convention("g1", <<"o0", "o1", "o2", "o3", "o4", "o5">>, "o0", CC)]

-----------------------------------------------------------------------------
(* The builds of the library the contract is met in. *)

\* Every register the tables name.
RegisterNames ==
    {"rax", "rbx", "rcx", "rdx", "rsi", "rdi", "r8", "r9", "r10", "r11",
     "eax", "ebx", "ecx", "edx", "esi", "edi", "ebp",
     "r0", "r1", "r2", "r3", "r4", "r5", "r6", "r7", "r12", "ctr", "xer",
     "x0", "x1", "x2", "x3", "x4", "x5", "x6", "x8", "x16",
     "a0", "a1", "a2", "a3", "a4", "a5", "a6", "a7",
     "$1", "$2", "$3", "$4", "$5", "$6", "$7", "$8", "$9", "$10", "$11",
     "g1", "o0", "o1", "o2", "o3", "o4", "o5", "flags"}

\* The kernel, where it spares the condition codes.
Sparing(kernel) == [kernel EXCEPT !.volatile = @ \ CC]

\* The build compiles statements of this table for this kernel.
Compiles(b, kernel, table) == b.kernel = kernel /\ b.prims \subseteq table

\* Of the library's partitions, all but these: syscall6 and syscall7 of mips64
\* and ppc64, whose kernels destroy registers they are bound to, and macOS on
\* aarch64 with a kernel that sets flags.  syscall7 of amd64 and all of i386
\* BSD ask something of the build.
Sound(b) ==
    /\ b.redZone \in Nat /\ b.framePointer \in BOOLEAN
    /\ \/ Compiles(b, LinuxKernel.amd64, LinuxAMD64)
       \/ Compiles(b, LinuxKernel.i386, LinuxI386)
       \/ Compiles(b, LinuxKernel.arm, LinuxARM)
       \/ Compiles(b, LinuxKernel.aarch64, LinuxAArch64)
       \/ Compiles(b, LinuxKernel.riscv64, LinuxRISCV64)
       \/ Compiles(b, LinuxKernel.loongarch64, LinuxLoongArch64)
       \/ Compiles(b, LinuxKernel.s390x, LinuxS390X)
       \/ Compiles(b, MIPS64Kernel, {p \in LinuxMIPS64 : p.arity = 3})
       \/ Compiles(b, LinuxKernel.ppc64, {p \in LinuxPPC64 : p.arity = 3})
       \/ Compiles(b, BSDKernel.arm, BSDARM)
       \/ Compiles(b, BSDKernel.aarch64, BSDAArch64)
       \/ Compiles(b, BSDKernel.riscv64, BSDRISCV64)
       \/ Compiles(b, BSDKernel.ppc64, {p \in BSDPPC64 : p.arity = 3})
       \/ Compiles(b, Sparing(DarwinKernel.aarch64), DarwinAArch64)
       \/ Compiles(b, SolarisKernel.sparc64, SolarisSPARC64)
       \/ Compiles(b, SolarisKernel.amd64, SolarisAMD64)
       \/ Compiles(b, BSDKernel.amd64, WithoutSyscall7(BSDAMD64))
       \/ Compiles(b, DarwinKernel.amd64, WithoutSyscall7(DarwinAMD64))
       \/ b.redZone = 0 /\ Compiles(b, BSDKernel.amd64, BSDAMD64)
       \/ b.redZone = 0 /\ Compiles(b, DarwinKernel.amd64, DarwinAMD64)
       \/ b.redZone = 0 /\ b.framePointer /\ Compiles(b, BSDKernel.i386, BSDI386)
=============================================================================
