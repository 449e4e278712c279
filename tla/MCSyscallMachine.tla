--------------------------- MODULE MCSyscallMachine ---------------------------
(***************************************************************************)
(* Instances of SyscallMachine for TLC: the builds of the library, with    *)
(* words of the call and of the machine numbered so that every stale word  *)
(* is a wrong word.                                                        *)
(***************************************************************************)
EXTENDS SyscallTables

\* Stack words 9..16 are the caller's frame, 0..8 lie below it: syscall7 on
\* i386 pushes eight words and spills at most seven operands.
MCFrameSP == 9
MCCell == 0 .. 16

\* The 128 bytes of the red zone are sixteen words; two are modelled.
RedZoneWords == 2

MCRegister == RegisterNames

\* Two argument vectors without a common word: 10..17 and 20..27.  70 and 71
\* are the kernel's answers.
MCArgument == {[i \in 0 .. 7 |-> 10 * v + i] : v \in {1, 2}}
MCAnswer == {70, 71}
MCValue == {0, 50, 99} \union 10 .. 17 \union 20 .. 27 \union MCAnswer

Compiled(target, kernel, prims, framePointer, redZone) ==
    [target |-> target, kernel |-> kernel, prims |-> prims,
     framePointer |-> framePointer, redZone |-> redZone]

\* What all targets but the exceptions below run without surprise.
SoundBuild ==
    {Compiled("linux_amd64", LinuxKernel.amd64, LinuxAMD64, FALSE, RedZoneWords),
     Compiled("linux_i386", LinuxKernel.i386, LinuxI386, FALSE, 0),
     Compiled("linux_arm", LinuxKernel.arm, LinuxARM, FALSE, 0),
     Compiled("linux_aarch64", LinuxKernel.aarch64, LinuxAArch64, FALSE, 0),
     Compiled("linux_riscv64", LinuxKernel.riscv64, LinuxRISCV64, FALSE, 0),
     Compiled("linux_loongarch64", LinuxKernel.loongarch64, LinuxLoongArch64, FALSE, 0),
     Compiled("linux_s390x", LinuxKernel.s390x, LinuxS390X, FALSE, 0),
     Compiled("freebsd_amd64", BSDKernel.amd64, WithoutSyscall7(BSDAMD64), FALSE,
              RedZoneWords),
     Compiled("netbsd_amd64", BSDKernel.amd64, BSDAMD64, FALSE, 0),
     Compiled("netbsd_i386", BSDKernel.i386, BSDI386, TRUE, 0),
     Compiled("netbsd_arm", BSDKernel.arm, BSDARM, FALSE, 0),
     Compiled("netbsd_aarch64", BSDKernel.aarch64, BSDAArch64, FALSE, 0),
     Compiled("netbsd_riscv64", BSDKernel.riscv64, BSDRISCV64, FALSE, 0),
     Compiled("macos_amd64", DarwinKernel.amd64, DarwinAMD64, FALSE, 0),
     Compiled("solaris_amd64", SolarisKernel.amd64, SolarisAMD64, FALSE, RedZoneWords),
     Compiled("solaris_sparc64", SolarisKernel.sparc64, SolarisSPARC64, FALSE, 0)}
    \union
    \* the three whose syscall6 passes arguments in registers the kernel
    \* overwrites, restricted to syscall3
    {Compiled("linux_mips64", MIPS64Kernel, {p \in LinuxMIPS64 : p.arity = 3}, FALSE, 0),
     Compiled("linux_ppc64", LinuxKernel.ppc64, {p \in LinuxPPC64 : p.arity = 3}, FALSE, 0),
     Compiled("freebsd_ppc64", BSDKernel.ppc64, {p \in BSDPPC64 : p.arity = 3}, FALSE, 0)}
    \union
    \* and the one whose statements do not mention the condition codes, with a
    \* kernel that spares them
    {Compiled("macos_aarch64", Sparing(DarwinKernel.aarch64), DarwinAArch64, FALSE, 0)}

\* The run is an instance of what is proved of the tables.
ASSUME BuildsAreSound == \A b \in SoundBuild : Sound(b)

\* i386 BSD compiled with -fomit-frame-pointer.
NoFramePointerBuild ==
    {Compiled("netbsd_i386", BSDKernel.i386, BSDI386, FALSE, 0)}

\* syscall7 in a leaf function of an amd64 ABI with a red zone.
LeafBuild ==
    {Compiled("netbsd_amd64", BSDKernel.amd64, BSDAMD64, FALSE, RedZoneWords),
     Compiled("macos_amd64", DarwinKernel.amd64, DarwinAMD64, FALSE, RedZoneWords)}

\* syscall6 and syscall7 of mips64 and ppc64, and macOS on aarch64.
VolatileInputBuild ==
    {Compiled("linux_mips64", MIPS64Kernel, LinuxMIPS64, FALSE, 0),
     Compiled("linux_ppc64", LinuxKernel.ppc64, LinuxPPC64, FALSE, 0),
     Compiled("netbsd_ppc64", BSDKernel.ppc64, BSDPPC64, FALSE, 0),
     Compiled("macos_aarch64", DarwinKernel.aarch64, DarwinAArch64, FALSE, 0)}
=============================================================================
