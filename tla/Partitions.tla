------------------------------ MODULE Partitions ------------------------------
(***************************************************************************)
(* What the sources of ib.sys come to once the preprocessor has run: the   *)
(* OS() and ARCH() macros of macros.hpp, the #if around each partition of  *)
(* the module, the names the partitions export under it, and the names     *)
(* posix.cpp needs from them.  `pre` is the set of macros the compiler     *)
(* predefines for its target.                                              *)
(***************************************************************************)

\* The macro each OS(...) of macros.hpp tests.
OSMacro ==
    [WINDOWS   |-> "_WIN32",
     ANDROID   |-> "__ANDROID__",
     MACOS     |-> "__ENVIRONMENT_MAC_OS_X_VERSION_MIN_REQUIRED__",
     IOS       |-> "__ENVIRONMENT_IPHONE_OS_VERSION_MIN_REQUIRED__",
     LINUX     |-> "__linux__",
     FREEBSD   |-> "__FreeBSD__",
     OPENBSD   |-> "__OpenBSD__",
     NETBSD    |-> "__NetBSD__",
     DRAGONFLY |-> "__DragonFly__",
     SOLARIS   |-> "__sun__",
     ILLUMOS   |-> "__illumos__",
     OHOS      |-> "__OHOS__"]

OS(pre, feature) == OSMacro[feature] \in pre

\* The macros of which ARCH(...) wants one; __riscv with __riscv_xlen == 64
\* counts as one.
ArchMacro ==
    [AMD64       |-> {"__amd64__", "_M_AMD64"},
     I386        |-> {"__i386__", "_M_IX86"},
     AARCH64     |-> {"__aarch64__", "_M_ARM64"},
     ARM         |-> {"__arm__", "_M_ARM"},
     PPC64       |-> {"__powerpc64__", "__ppc64__"},
     MIPS64      |-> {"__mips64"},
     RISCV64     |-> {"__riscv 64"},
     S390X       |-> {"__s390x__"},
     LOONGARCH64 |-> {"__loongarch64"}]

ARCH(pre, feature) == ArchMacro[feature] \intersect pre # {}

-----------------------------------------------------------------------------
(* The partitions: a name, the SYS_* numbers and the primitives exported.   *)

Partition(name, numbers, code) == [name |-> name, numbers |-> numbers, code |-> code]
NoNumbers == << >>

Exported(p) == DOMAIN p.numbers \union p.code

Numbers(write, exit, mmap) == [SYS_WRITE |-> write, SYS_EXIT |-> exit, SYS_MMAP |-> mmap]
Numbers2(write, exit, mmap2) == [SYS_WRITE |-> write, SYS_EXIT |-> exit, SYS_MMAP2 |-> mmap2]

\* LoongArch numbered like x86-64.
CopiedNumbersMutant ==
    [AMD64       |-> Numbers(1, 60, 9),
     I386        |-> Numbers2(4, 1, 192),
     ARM         |-> Numbers2(4, 1, 192),
     AARCH64     |-> Numbers(64, 93, 222),
     MIPS64      |-> Numbers(5001, 5058, 5009),
     PPC64       |-> Numbers(4, 1, 90),
     RISCV64     |-> Numbers(64, 93, 222),
     S390X       |-> Numbers(4, 1, 90),
     LOONGARCH64 |-> Numbers(1, 60, 9)]

LinuxNumbers ==
    [AMD64       |-> Numbers(1, 60, 9),
     I386        |-> Numbers2(4, 1, 192),
     ARM         |-> Numbers2(4, 1, 192),
     AARCH64     |-> Numbers(64, 93, 222),
     MIPS64      |-> Numbers(5001, 5058, 5009),
     PPC64       |-> Numbers(4, 1, 90),
     RISCV64     |-> Numbers(64, 93, 222),
     S390X       |-> Numbers(4, 1, 90),
     LOONGARCH64 |-> Numbers(64, 93, 222)]

\* #if ... #endif
When(condition, partitions) == IF condition THEN partitions ELSE {}

\* The i386 partition compiled on every Linux.
GuardMutant(pre) ==
    UNION {When(OS(pre, "LINUX") /\ (a = "I386" \/ ARCH(pre, a)),
                {Partition(<<"linux", a>>, LinuxNumbers[a], {"syscall3", "syscall6"})})
             : a \in DOMAIN LinuxNumbers}

\* syscall_linux_<arch>.cpp
Linux(pre) ==
    UNION {When(OS(pre, "LINUX") /\ ARCH(pre, a),
                {Partition(<<"linux", a>>, LinuxNumbers[a], {"syscall3", "syscall6"})})
             : a \in DOMAIN LinuxNumbers}

AnyBSD(pre) == \E f \in {"FREEBSD", "OPENBSD", "NETBSD", "DRAGONFLY"} : OS(pre, f)

BSDMmap == [FREEBSD |-> 477, OPENBSD |-> 49, NETBSD |-> 197, DRAGONFLY |-> 197]

Syscall7(pre) == When(OS(pre, "NETBSD") \/ OS(pre, "OPENBSD"), {"syscall7"})

\* syscall_bsd.cpp, syscall_bsd_<arch>.cpp and syscall_<os>.cpp
BSD(pre) ==
    When(AnyBSD(pre),
         {Partition(<<"bsd", "numbers">>, [SYS_WRITE |-> 4, SYS_EXIT |-> 1], {})})
    \union
    (UNION {When(AnyBSD(pre) /\ ARCH(pre, a),
                 {Partition(<<"bsd", a>>, NoNumbers,
                            {"syscall3", "syscall6"} \union Syscall7(pre))})
              : a \in {"AMD64", "I386", "AARCH64", "ARM", "PPC64", "RISCV64"}})
    \union
    (UNION {When(OS(pre, f), {Partition(<<"bsd", f>>, [SYS_MMAP |-> BSDMmap[f]], {})})
              : f \in DOMAIN BSDMmap})

\* syscall_darwin.cpp and syscall_darwin_<arch>.cpp; the numbers carry the
\* class 0x2000000.
Darwin(pre) ==
    When(OS(pre, "MACOS"),
         {Partition(<<"darwin", "numbers">>, Numbers(33554436, 33554433, 33554629), {})})
    \union
    (UNION {When(OS(pre, "MACOS") /\ ARCH(pre, a),
                 {Partition(<<"darwin", a>>, NoNumbers,
                            {"syscall3", "syscall6", "syscall7"})})
              : a \in {"AMD64", "AARCH64"}})

SPARC64(pre) ==
    \/ {"__sparcv9", "__sparc64__"} \intersect pre # {}
    \/ {"__sparc__", "__arch64__"} \subseteq pre

SolarisCode(arch) == {Partition(<<"solaris", arch>>, NoNumbers, {"syscall3", "syscall6"})}

\* syscall_solaris.cpp and its two partitions
Solaris(pre) ==
    When(OS(pre, "SOLARIS"), {Partition(<<"solaris", "numbers">>, Numbers(4, 1, 115), {})})
    \union When(OS(pre, "SOLARIS") /\ ARCH(pre, "AMD64"), SolarisCode("AMD64"))
    \union When(OS(pre, "SOLARIS") /\ SPARC64(pre), SolarisCode("SPARC64"))

\* syscall_windows.cpp
Windows(pre) ==
    When(OS(pre, "WINDOWS"),
         {Partition(<<"windows", "kernel32">>, NoNumbers, {"print", "exit"})})

Active(pre) == Linux(pre) \union BSD(pre) \union Darwin(pre) \union Solaris(pre) \union Windows(pre)

\* The per-OS groups that bring code.
Backends(pre) == {p.name[1] : p \in {q \in Active(pre) : q.code # {}}}

-----------------------------------------------------------------------------
(* posix.cpp *)

PosixActive(pre) ==
    \E f \in {"LINUX", "FREEBSD", "OPENBSD", "NETBSD", "DRAGONFLY", "MACOS", "SOLARIS"} :
        OS(pre, f)

\* mmap2 on every Linux.
AlwaysMmap2Mutant(pre) ==
    IF OS(pre, "LINUX") THEN {"SYS_MMAP2", "syscall6"}
    ELSE IF OS(pre, "NETBSD") \/ OS(pre, "OPENBSD") \/ OS(pre, "MACOS")
    THEN {"SYS_MMAP", "syscall7"}
    ELSE {"SYS_MMAP", "syscall6"}

\* The names in the branch of mmap that is compiled.
MmapUses(pre) ==
    IF OS(pre, "LINUX") /\ (ARCH(pre, "I386") \/ ARCH(pre, "ARM"))
    THEN {"SYS_MMAP2", "syscall6"}
    ELSE IF OS(pre, "NETBSD") \/ OS(pre, "OPENBSD") \/ OS(pre, "MACOS")
    THEN {"SYS_MMAP", "syscall7"}
    ELSE {"SYS_MMAP", "syscall6"}

PosixUses(pre) ==
    When(PosixActive(pre), {"SYS_WRITE", "SYS_EXIT", "syscall3"} \union MmapUses(pre))

\* Of what it exports a program needs these two, on Windows from elsewhere.
Posix(pre) ==
    When(PosixActive(pre), {Partition(<<"posix", "wrappers">>, NoNumbers, {"print", "exit"})})

Exporters(pre, name) == {p \in Active(pre) \union Posix(pre) : name \in Exported(p)}
=============================================================================
