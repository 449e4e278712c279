--------------------------- MODULE PlatformProofs ---------------------------
(***************************************************************************)
(* A build and its run, for every set of configurations whose names fit    *)
(* their machines.  The parts: the partitions of each group and the names  *)
(* they export; what a compiler predefines; what the scripts conclude from *)
(* a plat or a triple, and that it is the same; the entry point; the notes;*)
(* and from these together, that a configuration with a backend builds and *)
(* runs to its exit without a failure.                                     *)
(***************************************************************************)
EXTENDS Platform, FiniteSetTheorems, SequenceTheorems, WellFoundedInduction, TLAPS

Systems ==
    {"LINUX", "FREEBSD", "OPENBSD", "NETBSD", "DRAGONFLY", "MACOS", "SOLARIS", "WINDOWS"}

OneSystem(pre) ==
    \A f, g \in Systems : OS(pre, f) /\ OS(pre, g) => f = g

OneArch(pre) ==
    /\ \A a, b \in DOMAIN ArchMacro : ARCH(pre, a) /\ ARCH(pre, b) => a = b
    /\ ~ (SPARC64(pre) /\ ARCH(pre, "AMD64"))

LEMMA SystemsAreOS == Systems \subseteq DOMAIN OSMacro
BY DEF Systems, OSMacro

-----------------------------------------------------------------------------
(* The partitions of each group, one by one. *)

LinuxPart(a) == Partition(<<"linux", a>>, LinuxNumbers[a], {"syscall3", "syscall6"})

LEMMA LinuxParts ==
    ASSUME NEW pre, NEW p \in Linux(pre)
    PROVE  /\ OS(pre, "LINUX")
           /\ \E a \in DOMAIN LinuxNumbers : ARCH(pre, a) /\ p = LinuxPart(a)
           /\ Exported(p) \subseteq
                {"SYS_WRITE", "SYS_EXIT", "SYS_MMAP", "SYS_MMAP2", "syscall3", "syscall6"}
<1>1. PICK a \in DOMAIN LinuxNumbers :
         OS(pre, "LINUX") /\ ARCH(pre, a) /\ p = LinuxPart(a)
  BY DEF Linux, When, LinuxPart
<1>2. DOMAIN LinuxNumbers[a] \subseteq {"SYS_WRITE", "SYS_EXIT", "SYS_MMAP", "SYS_MMAP2"}
  BY DEF LinuxNumbers, Numbers, Numbers2
<1>3. p.numbers = LinuxNumbers[a] /\ p.code = {"syscall3", "syscall6"}
  BY <1>1 DEF LinuxPart, Partition
<1> QED BY <1>1, <1>2, <1>3 DEF Exported

BSDSystems == {"FREEBSD", "OPENBSD", "NETBSD", "DRAGONFLY"}
BSDArchs == {"AMD64", "I386", "AARCH64", "ARM", "PPC64", "RISCV64"}

BSDNumbersPart == Partition(<<"bsd", "numbers">>, [SYS_WRITE |-> 4, SYS_EXIT |-> 1], {})
BSDArchPart(pre, a) ==
    Partition(<<"bsd", a>>, NoNumbers, {"syscall3", "syscall6"} \union Syscall7(pre))
BSDSystemPart(f) == Partition(<<"bsd", f>>, [SYS_MMAP |-> BSDMmap[f]], {})

LEMMA BSDParts ==
    ASSUME NEW pre, NEW p \in BSD(pre)
    PROVE  /\ \E f \in BSDSystems : OS(pre, f)
           /\ \/ p = BSDNumbersPart /\ Exported(p) = {"SYS_WRITE", "SYS_EXIT"}
              \/ /\ \E a \in BSDArchs : ARCH(pre, a) /\ p = BSDArchPart(pre, a)
                 /\ Exported(p) \subseteq {"syscall3", "syscall6", "syscall7"}
              \/ /\ \E f \in BSDSystems : OS(pre, f) /\ p = BSDSystemPart(f)
                 /\ Exported(p) = {"SYS_MMAP"}
<1>1. DOMAIN NoNumbers = {}
  BY DEF NoNumbers
<1>2. Syscall7(pre) \subseteq {"syscall7"}
  BY DEF Syscall7, When
<1>3. DOMAIN BSDMmap = BSDSystems
  BY DEF BSDMmap, BSDSystems
<1>4. AnyBSD(pre) => \E f \in BSDSystems : OS(pre, f)
  BY DEF AnyBSD, BSDSystems
<1>5. \/ AnyBSD(pre) /\ p = BSDNumbersPart
      \/ \E a \in BSDArchs : AnyBSD(pre) /\ ARCH(pre, a) /\ p = BSDArchPart(pre, a)
      \/ \E f \in BSDSystems : OS(pre, f) /\ p = BSDSystemPart(f)
  <2> DEFINE One == When(AnyBSD(pre), {BSDNumbersPart})
             Arch(a) == When(AnyBSD(pre) /\ ARCH(pre, a), {BSDArchPart(pre, a)})
             System(f) == When(OS(pre, f), {BSDSystemPart(f)})
             Archs == UNION {Arch(a) : a \in BSDArchs}
             Kinds == UNION {System(f) : f \in BSDSystems}
  <2>1. BSD(pre) = One \union Archs \union Kinds
    BY <1>3 DEF BSD, BSDArchs, BSDNumbersPart, BSDArchPart, BSDSystemPart
  <2>2. p \in One \/ (\E a \in BSDArchs : p \in Arch(a)) \/ (\E f \in BSDSystems : p \in System(f))
    <3>1. CASE p \in One
      BY <3>1
    <3>2. CASE p \in Archs
      <4> HIDE DEF Arch
      <4>1. \E a \in BSDArchs : p \in Arch(a)
        BY <3>2
      <4> QED BY <4>1
    <3>3. CASE p \in Kinds
      <4> HIDE DEF System
      <4>1. \E f \in BSDSystems : p \in System(f)
        BY <3>3
      <4> QED BY <4>1
    <3>4. p \in One \/ p \in Archs \/ p \in Kinds
      <4> HIDE DEF One, Archs, Kinds
      <4> QED BY <2>1
    <3> QED BY <3>1, <3>2, <3>3, <3>4
  <2> QED BY <2>2 DEF When
<1>6. CASE AnyBSD(pre) /\ p = BSDNumbersPart
  BY <1>4, <1>6 DEF BSDNumbersPart, Partition, Exported
<1>7. CASE \E a \in BSDArchs : AnyBSD(pre) /\ ARCH(pre, a) /\ p = BSDArchPart(pre, a)
  <2>1. PICK a \in BSDArchs : AnyBSD(pre) /\ ARCH(pre, a) /\ p = BSDArchPart(pre, a)
    BY <1>7
  <2>2. Exported(p) = {"syscall3", "syscall6"} \union Syscall7(pre)
    BY <1>1, <2>1 DEF Exported, Partition, BSDArchPart
  <2> QED BY <1>2, <1>4, <2>1, <2>2
<1>8. CASE \E f \in BSDSystems : OS(pre, f) /\ p = BSDSystemPart(f)
  <2>1. PICK f \in BSDSystems : OS(pre, f) /\ p = BSDSystemPart(f)
    BY <1>8
  <2>2. Exported(p) = {"SYS_MMAP"}
    BY <2>1 DEF Exported, Partition, BSDSystemPart
  <2> QED BY <2>1, <2>2
<1> QED BY <1>5, <1>6, <1>7, <1>8

DarwinNumbersPart ==
    Partition(<<"darwin", "numbers">>, Numbers(33554436, 33554433, 33554629), {})
DarwinArchPart(a) ==
    Partition(<<"darwin", a>>, NoNumbers, {"syscall3", "syscall6", "syscall7"})

LEMMA DarwinParts ==
    ASSUME NEW pre, NEW p \in Darwin(pre)
    PROVE  /\ OS(pre, "MACOS")
           /\ \/ /\ p = DarwinNumbersPart
                 /\ Exported(p) = {"SYS_WRITE", "SYS_EXIT", "SYS_MMAP"}
              \/ /\ \E a \in {"AMD64", "AARCH64"} : ARCH(pre, a) /\ p = DarwinArchPart(a)
                 /\ Exported(p) = {"syscall3", "syscall6", "syscall7"}
<1>1. DOMAIN NoNumbers = {}
  BY DEF NoNumbers
<1>2. /\ OS(pre, "MACOS")
      /\ \/ p = DarwinNumbersPart
         \/ \E a \in {"AMD64", "AARCH64"} : ARCH(pre, a) /\ p = DarwinArchPart(a)
  BY DEF Darwin, When, DarwinNumbersPart, DarwinArchPart
<1>3. Exported(DarwinNumbersPart) = {"SYS_WRITE", "SYS_EXIT", "SYS_MMAP"}
  BY DEF Exported, Partition, Numbers, DarwinNumbersPart
<1>4. \A a : Exported(DarwinArchPart(a)) = {"syscall3", "syscall6", "syscall7"}
  BY <1>1 DEF Exported, Partition, DarwinArchPart
<1> QED BY <1>2, <1>3, <1>4

SolarisNumbersPart == Partition(<<"solaris", "numbers">>, Numbers(4, 1, 115), {})
SolarisArchPart(a) == Partition(<<"solaris", a>>, NoNumbers, {"syscall3", "syscall6"})

LEMMA SolarisParts ==
    ASSUME NEW pre, NEW p \in Solaris(pre)
    PROVE  /\ OS(pre, "SOLARIS")
           /\ \/ /\ p = SolarisNumbersPart
                 /\ Exported(p) = {"SYS_WRITE", "SYS_EXIT", "SYS_MMAP"}
              \/ /\ \/ ARCH(pre, "AMD64") /\ p = SolarisArchPart("AMD64")
                    \/ SPARC64(pre) /\ p = SolarisArchPart("SPARC64")
                 /\ Exported(p) = {"syscall3", "syscall6"}
<1>1. DOMAIN NoNumbers = {}
  BY DEF NoNumbers
<1>2. /\ OS(pre, "SOLARIS")
      /\ \/ p = SolarisNumbersPart
         \/ ARCH(pre, "AMD64") /\ p = SolarisArchPart("AMD64")
         \/ SPARC64(pre) /\ p = SolarisArchPart("SPARC64")
  BY DEF Solaris, SolarisCode, When, SolarisNumbersPart, SolarisArchPart
<1>3. Exported(SolarisNumbersPart) = {"SYS_WRITE", "SYS_EXIT", "SYS_MMAP"}
  BY DEF Exported, Partition, Numbers, SolarisNumbersPart
<1>4. \A a : Exported(SolarisArchPart(a)) = {"syscall3", "syscall6"}
  BY <1>1 DEF Exported, Partition, SolarisArchPart
<1> QED BY <1>2, <1>3, <1>4

WindowsPart == Partition(<<"windows", "kernel32">>, NoNumbers, {"print", "exit"})
PosixPart == Partition(<<"posix", "wrappers">>, NoNumbers, {"print", "exit"})

LEMMA WrapperParts ==
    ASSUME NEW pre, NEW p \in Windows(pre) \union Posix(pre)
    PROVE  /\ \/ OS(pre, "WINDOWS") /\ p = WindowsPart
              \/ PosixActive(pre) /\ p = PosixPart
           /\ Exported(p) = {"print", "exit"}
<1>1. DOMAIN NoNumbers = {}
  BY DEF NoNumbers
<1>2. \/ OS(pre, "WINDOWS") /\ p = WindowsPart
      \/ PosixActive(pre) /\ p = PosixPart
  BY DEF Windows, Posix, When, WindowsPart, PosixPart
<1>3. Exported(WindowsPart) = {"print", "exit"} /\ Exported(PosixPart) = {"print", "exit"}
  BY <1>1 DEF Exported, Partition, WindowsPart, PosixPart
<1> QED BY <1>2, <1>3

-----------------------------------------------------------------------------
(* Two partitions with a name in common are one: they belong to one group,  *)
(* the systems being exclusive, and there they are told apart by what they  *)
(* export, by the architecture, or by the system.                           *)
Groups(pre) ==
    <<Linux(pre), BSD(pre), Darwin(pre), Solaris(pre), Windows(pre) \union Posix(pre)>>

LEMMA RawExports ==
    ASSUME NEW pre, NEW r \in Linux(pre) \union BSD(pre) \union Darwin(pre) \union Solaris(pre)
    PROVE  "print" \notin Exported(r) /\ "exit" \notin Exported(r)
BY LinuxParts, BSDParts, DarwinParts, SolarisParts

LEMMA SameGroup ==
    ASSUME NEW pre, OneSystem(pre), NEW p \in Active(pre) \union Posix(pre),
           NEW q \in Active(pre) \union Posix(pre), Exported(p) \intersect Exported(q) # {}
    PROVE  \E i \in 1 .. 5 : p \in Groups(pre)[i] /\ q \in Groups(pre)[i]
<1> DEFINE Raw == Linux(pre) \union BSD(pre) \union Darwin(pre) \union Solaris(pre)
           Wrap == Windows(pre) \union Posix(pre)
<1>1. /\ \A r \in Raw : "print" \notin Exported(r) /\ "exit" \notin Exported(r)
      /\ \A r \in Wrap : Exported(r) = {"print", "exit"}
  BY RawExports, WrapperParts
<1>3. (p \in Raw /\ q \in Raw) \/ (p \in Wrap /\ q \in Wrap)
  BY <1>1 DEF Active
<1>4. /\ p \in Linux(pre) \/ q \in Linux(pre) => OS(pre, "LINUX")
      /\ p \in BSD(pre) \/ q \in BSD(pre) => \E f \in BSDSystems : OS(pre, f)
      /\ p \in Darwin(pre) \/ q \in Darwin(pre) => OS(pre, "MACOS")
      /\ p \in Solaris(pre) \/ q \in Solaris(pre) => OS(pre, "SOLARIS")
  BY LinuxParts, BSDParts, DarwinParts, SolarisParts
<1>5. \/ p \in Wrap /\ q \in Wrap
      \/ p \in Linux(pre) /\ q \in Linux(pre)
      \/ p \in BSD(pre) /\ q \in BSD(pre)
      \/ p \in Darwin(pre) /\ q \in Darwin(pre)
      \/ p \in Solaris(pre) /\ q \in Solaris(pre)
  BY <1>3, <1>4 DEF OneSystem, Systems, BSDSystems
<1> QED BY <1>5 DEF Groups

LEMMA NamesOnce ==
    ASSUME NEW pre, OneSystem(pre), OneArch(pre),
           NEW p \in Active(pre) \union Posix(pre), NEW q \in Active(pre) \union Posix(pre),
           Exported(p) \intersect Exported(q) # {}
    PROVE  p = q
<1>1. CASE p \in Linux(pre) /\ q \in Linux(pre)
  <2>1. DOMAIN LinuxNumbers \subseteq DOMAIN ArchMacro
    BY DEF LinuxNumbers, ArchMacro
  <2> QED BY <1>1, <2>1, LinuxParts DEF OneArch
<1>2. CASE p \in BSD(pre) /\ q \in BSD(pre)
  <2>1. BSDArchs \subseteq DOMAIN ArchMacro /\ BSDSystems \subseteq Systems
    BY DEF BSDArchs, ArchMacro, BSDSystems, Systems
  <2> QED BY <1>2, <2>1, BSDParts DEF OneArch, OneSystem
<1>3. CASE p \in Darwin(pre) /\ q \in Darwin(pre)
  <2>1. {"AMD64", "AARCH64"} \subseteq DOMAIN ArchMacro
    BY DEF ArchMacro
  <2> QED BY <1>3, <2>1, DarwinParts DEF OneArch
<1>4. CASE p \in Solaris(pre) /\ q \in Solaris(pre)
  BY <1>4, SolarisParts DEF OneArch
<1>5. CASE p \in Windows(pre) \union Posix(pre) /\ q \in Windows(pre) \union Posix(pre)
  <2>1. ~ (OS(pre, "WINDOWS") /\ PosixActive(pre))
    BY DEF PosixActive, OneSystem, Systems
  <2> QED BY <1>5, <2>1, WrapperParts
<1> QED BY SameGroup, <1>1, <1>2, <1>3, <1>4, <1>5 DEF Groups

-----------------------------------------------------------------------------
(* A compiler for a known machine predefines the macros of one system and    *)
(* one architecture.                                                         *)
CpuSets ==
    {{"__amd64__"}, {"__i386__"}, {"__aarch64__"}, {"__arm__"}, {"__powerpc64__"},
     {"__mips64"}, {"__riscv 64"}, {"__s390x__"}, {"__loongarch64"},
     {"__sparc__", "__arch64__"}, {}, {"_M_AMD64"}, {"_M_IX86"}, {"_M_ARM64"}, {"_M_ARM"}}

ArchNames ==
    {"__amd64__", "_M_AMD64", "__i386__", "_M_IX86", "__aarch64__", "_M_ARM64", "__arm__",
     "_M_ARM", "__powerpc64__", "__ppc64__", "__mips64", "__riscv 64", "__s390x__",
     "__loongarch64"}
SparcNames == {"__sparcv9", "__sparc64__", "__sparc__", "__arch64__"}

LEMMA PredefinedParts ==
    ASSUME NEW m, Known(m)
    PROVE  /\ m.sys \in DOMAIN SysMacros
           /\ \E cpu \in CpuSets : Predefined(m) = SysMacros[m.sys] \union cpu
<1>1. \A c \in DOMAIN CpuMacros : CpuMacros[c] \in CpuSets
  <2>1. DOMAIN CpuMacros = {"amd64", "i386", "aarch64", "arm", "ppc64", "mips64", "riscv64",
                            "s390x", "loongarch64", "sparc64", "wasm32"}
    BY DEF CpuMacros
  <2>2. /\ CpuMacros["amd64"] = {"__amd64__"} /\ CpuMacros["i386"] = {"__i386__"}
        /\ CpuMacros["aarch64"] = {"__aarch64__"} /\ CpuMacros["arm"] = {"__arm__"}
        /\ CpuMacros["ppc64"] = {"__powerpc64__"} /\ CpuMacros["mips64"] = {"__mips64"}
        /\ CpuMacros["riscv64"] = {"__riscv 64"} /\ CpuMacros["s390x"] = {"__s390x__"}
        /\ CpuMacros["loongarch64"] = {"__loongarch64"}
        /\ CpuMacros["sparc64"] = {"__sparc__", "__arch64__"} /\ CpuMacros["wasm32"] = {}
    BY DEF CpuMacros
  <2> QED BY <2>1, <2>2, Zenon DEF CpuSets
<1>2. \A c \in DOMAIN MSVCMacros : MSVCMacros[c] \in CpuSets
  <2>1. DOMAIN MSVCMacros = {"amd64", "i386", "aarch64", "arm"}
    BY DEF MSVCMacros
  <2>2. /\ MSVCMacros["amd64"] = {"_M_AMD64"} /\ MSVCMacros["i386"] = {"_M_IX86"}
        /\ MSVCMacros["aarch64"] = {"_M_ARM64"} /\ MSVCMacros["arm"] = {"_M_ARM"}
    BY DEF MSVCMacros
  <2> QED BY <2>1, <2>2, Zenon DEF CpuSets
<1> QED BY <1>1, <1>2 DEF Known, Predefined

LEMMA CpuShapes ==
    ASSUME NEW cpu \in CpuSets
    PROVE  \/ \E x \in ArchNames : cpu = {x}
           \/ cpu = {"__sparc__", "__arch64__"}
           \/ cpu = {}
BY DEF CpuSets, ArchNames

LEMMA CpuApart ==
    ASSUME NEW cpu \in CpuSets, NEW f \in DOMAIN OSMacro
    PROVE  OSMacro[f] \notin cpu
<1>1. OSMacro[f] \in {"_WIN32", "__ANDROID__", "__linux__", "__FreeBSD__", "__OpenBSD__",
         "__NetBSD__", "__DragonFly__", "__sun__", "__illumos__", "__OHOS__",
         "__ENVIRONMENT_MAC_OS_X_VERSION_MIN_REQUIRED__",
         "__ENVIRONMENT_IPHONE_OS_VERSION_MIN_REQUIRED__"}
  BY DEF OSMacro
<1>2. OSMacro[f] \notin ArchNames /\ OSMacro[f] \notin {"__sparc__", "__arch64__"}
  BY <1>1 DEF ArchNames
<1> QED BY <1>2, CpuShapes

LEMMA KnownOneSystem ==
    ASSUME NEW m, Known(m)
    PROVE  OneSystem(Predefined(m))
<1> DEFINE s == m.sys
<1>1. PICK cpu \in CpuSets : s \in DOMAIN SysMacros /\ Predefined(m) = SysMacros[s] \union cpu
  BY PredefinedParts
<1>2. \A f \in Systems : OS(Predefined(m), f) <=> OSMacro[f] \in SysMacros[s]
  BY <1>1, CpuApart, SystemsAreOS DEF OS
<1>3. \A f, g \in Systems :
         OSMacro[f] \in SysMacros[s] /\ OSMacro[g] \in SysMacros[s] => f = g
  <2> HIDE DEF s
  <2> QED BY <1>1 DEF Systems, OSMacro, SysMacros
<1> QED BY <1>2, <1>3 DEF OneSystem

LEMMA SystemNoArch ==
    ASSUME NEW s \in DOMAIN SysMacros
    PROVE  (ArchNames \union SparcNames) \intersect SysMacros[s] = {}
<1>1. SysMacros[s] \subseteq
        {"_WIN32", "__ANDROID__", "__ENVIRONMENT_MAC_OS_X_VERSION_MIN_REQUIRED__",
         "__ENVIRONMENT_IPHONE_OS_VERSION_MIN_REQUIRED__", "__linux__", "__FreeBSD__",
         "__OpenBSD__", "__NetBSD__", "__DragonFly__", "__sun__"}
  BY DEF SysMacros, OSMacro
<1> QED BY <1>1 DEF ArchNames, SparcNames

ArchKeys ==
    {"AMD64", "I386", "AARCH64", "ARM", "PPC64", "MIPS64", "RISCV64", "S390X", "LOONGARCH64"}

LEMMA ArchNamesApart ==
    /\ \A a \in DOMAIN ArchMacro : ArchMacro[a] \subseteq ArchNames
    /\ \A a, b \in DOMAIN ArchMacro :
          \A x \in ArchMacro[a] : x \in ArchMacro[b] => a = b
<1>1. DOMAIN ArchMacro = ArchKeys
  BY DEF ArchMacro, ArchKeys
<1>2. /\ ArchMacro["AMD64"] = {"__amd64__", "_M_AMD64"}
      /\ ArchMacro["I386"] = {"__i386__", "_M_IX86"}
      /\ ArchMacro["AARCH64"] = {"__aarch64__", "_M_ARM64"}
      /\ ArchMacro["ARM"] = {"__arm__", "_M_ARM"}
      /\ ArchMacro["PPC64"] = {"__powerpc64__", "__ppc64__"}
      /\ ArchMacro["MIPS64"] = {"__mips64"} /\ ArchMacro["RISCV64"] = {"__riscv 64"}
      /\ ArchMacro["S390X"] = {"__s390x__"}
      /\ ArchMacro["LOONGARCH64"] = {"__loongarch64"}
  BY DEF ArchMacro
<1>3. \A a \in DOMAIN ArchMacro : ArchMacro[a] \subseteq ArchNames
  <2> SUFFICES ASSUME NEW a \in ArchKeys, NEW x \in ArchMacro[a] PROVE x \in ArchNames
    BY <1>1
  <2> QED BY <1>2 DEF ArchKeys, ArchNames
<1>4. ASSUME NEW a \in ArchKeys, NEW b \in ArchKeys, NEW x \in ArchMacro[a], x \in ArchMacro[b]
      PROVE  a = b
  <2>1. \A c \in ArchKeys : x \in ArchMacro[c] =>
           c = IF x \in {"__amd64__", "_M_AMD64"} THEN "AMD64"
               ELSE IF x \in {"__i386__", "_M_IX86"} THEN "I386"
               ELSE IF x \in {"__aarch64__", "_M_ARM64"} THEN "AARCH64"
               ELSE IF x \in {"__arm__", "_M_ARM"} THEN "ARM"
               ELSE IF x \in {"__powerpc64__", "__ppc64__"} THEN "PPC64"
               ELSE IF x = "__mips64" THEN "MIPS64"
               ELSE IF x = "__riscv 64" THEN "RISCV64"
               ELSE IF x = "__s390x__" THEN "S390X" ELSE "LOONGARCH64"
    BY <1>2 DEF ArchKeys
  <2> QED BY <1>4, <2>1
<1> QED BY <1>1, <1>3, <1>4

LEMMA KnownOneArch ==
    ASSUME NEW m, Known(m)
    PROVE  OneArch(Predefined(m))
<1> DEFINE s == m.sys
<1>1. PICK cpu \in CpuSets : s \in DOMAIN SysMacros /\ Predefined(m) = SysMacros[s] \union cpu
  BY PredefinedParts
<1>2. \A a \in DOMAIN ArchMacro :
         ARCH(Predefined(m), a) => \E x \in cpu : x \in ArchMacro[a]
  BY <1>1, SystemNoArch, ArchNamesApart DEF ARCH
<1>3. \A x, y \in cpu : x \in ArchNames => x = y
  <2>1. "__sparc__" \notin ArchNames /\ "__arch64__" \notin ArchNames
    BY DEF ArchNames
  <2> QED BY <2>1, CpuShapes
<1>4. SPARC64(Predefined(m)) => \E x \in cpu : x \in SparcNames
  BY <1>1, SystemNoArch DEF SPARC64, SparcNames
<1>5. "AMD64" \in DOMAIN ArchMacro
  BY DEF ArchMacro
<1>6. ArchNames \intersect SparcNames = {}
  BY DEF ArchNames, SparcNames
<1> QED BY <1>2, <1>3, <1>4, <1>5, <1>6, ArchNamesApart DEF OneArch

-----------------------------------------------------------------------------
(* Whatever a script has stored is what it detects, and whatever a target    *)
(* is compiled for is the machine of the configuration.                      *)
BuildInv ==
    /\ config \in Config
    /\ info = [t \in Target |-> info[t]] /\ machine = [t \in Target |-> machine[t]]
    /\ stage = [t \in Target |-> stage[t]]
    /\ \A t \in Target : info[t] \in {None, detect(config)}
    /\ \A t \in Target : machine[t] \in {None, MachineOf(config)}
    /\ options \in {{}, EntryOptions(detect(config))}
    /\ stage["ib_app"] # "new" => options = EntryOptions(detect(config))
    /\ \A t \in Target : stage[t] \in {"configured", "built", "linked"} =>
          machine[t] = MachineOf(config)
    /\ stage["ib_app"] \in {"loaded", "configured", "built", "linked"} =>
          info["ib_app"] = detect(config)
    /\ stage["ib_app"] \in {"built", "linked"} =>
          Found(Predefined(MachineOf(config)), "print")

LEMMA MachineKnown ==
    ASSUME NEW c \in Config
    PROVE  Known(MachineOf(c))
BY KnownAssumption DEF MachineOf

LEMMA GetDetects ==
    ASSUME BuildInv, NEW t \in Target
    PROVE  get(t) = detect(config)
BY DEF BuildInv, get

LEMMA LoadBuild == ASSUME BuildInv, Load PROVE BuildInv'
<1> USE DEF Target
<1>1. /\ stage["ib_app"] = "new"
      /\ info' = [info EXCEPT !["ib_app"] = get("ib_app")]
      /\ options' = EntryOptions(info'["ib_app"])
      /\ stage' = [stage EXCEPT !["ib_app"] = "loaded"]
      /\ UNCHANGED <<config, machine>>
  BY DEF Load, Reaches
<1>2. info'["ib_app"] = detect(config) /\ detect(config)' = detect(config)
  BY <1>1, GetDetects DEF BuildInv, detect, OSName, ArchName, ByTriple
<1>3. EntryOptions(detect(config))' = EntryOptions(detect(config))
  BY <1>2 DEF EntryOptions
<1>4. MachineOf(config)' = MachineOf(config)
  BY <1>1 DEF MachineOf
<1> HIDE DEF Target
<1>5. /\ config' \in Config /\ options' = EntryOptions(detect(config))
      /\ info' = [t \in Target |-> info'[t]] /\ machine' = [t \in Target |-> machine'[t]]
      /\ stage' = [t \in Target |-> stage'[t]]
      /\ \A t \in Target : info'[t] \in {None, detect(config)}
      /\ \A t \in Target : machine'[t] \in {None, MachineOf(config)}
      /\ stage'["ib_app"] = "loaded"
      /\ \A t \in Target : stage'[t] \in {"configured", "built", "linked"} =>
            stage[t] = stage'[t]
  BY <1>1, <1>2 DEF BuildInv, Target
<1> QED BY <1>1, <1>2, <1>3, <1>4, <1>5 DEF BuildInv

LEMMA ConfigureBuild == ASSUME BuildInv, NEW t \in Target, Configure(t) PROVE BuildInv'
<1>1. /\ stage[t] = "loaded" /\ stage["ib_app"] # "new"
      /\ stage' = [stage EXCEPT ![t] = "configured"] /\ UNCHANGED <<config, options>>
  BY DEF Configure, Reaches
<1>2. /\ info' = info \/ info' = [info EXCEPT ![t] = detect(config)]
      /\ machine' = [machine EXCEPT ![t] = MachineOf(config)]
  <2>1. CASE config.cxx \in {"clang", "clangxx"}
    <3>1. /\ info' = [info EXCEPT ![t] = detect(config)]
          /\ machine' = [machine EXCEPT ![t] =
                            IF info'[t].triple = None THEN config.native
                            ELSE info'[t].triple.machine]
      BY <2>1, GetDetects DEF Configure
    <3>2. info'[t] = detect(config)
      BY <3>1 DEF BuildInv
    <3>3. detect(config).triple = config.cross
      BY DEF detect
    <3>4. (IF info'[t].triple = None THEN config.native ELSE info'[t].triple.machine)
             = MachineOf(config)
      BY <2>1, <3>2, <3>3 DEF MachineOf
    <3> QED BY <3>1, <3>4
  <2>2. CASE config.cxx \notin {"clang", "clangxx"}
    BY <2>2 DEF Configure, MachineOf
  <2> QED BY <2>1, <2>2
<1>3. "ib_app" \in Target
  BY DEF Target
<1> QED BY <1>1, <1>2, <1>3 DEF BuildInv

LEMMA CompileBuild == ASSUME BuildInv, NEW t \in Target, Compile(t) PROVE BuildInv'
<1>1. /\ stage[t] = "configured"
      /\ stage' = [stage EXCEPT ![t] = IF Compiles(t) THEN "built" ELSE "error"]
      /\ UNCHANGED <<config, info, options, machine>>
  BY DEF Compile, Reaches
<1>2. t = "ib_app" /\ Compiles(t) => Found(Predefined(MachineOf(config)), "print")
  BY <1>1 DEF Compiles, BuildInv
<1>3. "ib_app" \in Target
  BY DEF Target
<1> QED BY <1>1, <1>2, <1>3 DEF BuildInv

LEMMA LinkBuild == ASSUME BuildInv, Link PROVE BuildInv'
<1>1. /\ stage["ib_app"] = "built"
      /\ \E s \in {"linked", "error"} : stage' = [stage EXCEPT !["ib_app"] = s]
      /\ UNCHANGED <<config, info, options, machine>>
  BY DEF Link, Reaches
<1>2. "ib_app" \in Target
  BY DEF Target
<1> QED BY <1>1, <1>2 DEF BuildInv

LEMMA BuildInvInductive == BuildInv /\ [Next]_vars => BuildInv'
<1> SUFFICES ASSUME BuildInv, [Next]_vars PROVE BuildInv'
  OBVIOUS
<1>1. CASE UNCHANGED <<config, info, options, machine, stage>>
  BY <1>1 DEF BuildInv
<1>2. Exec \/ ReadNote \/ EndNotes \/ Run => UNCHANGED <<config, info, options, machine, stage>>
  BY DEF Exec, ReadNote, EndNotes, Run, Serve
<1> QED BY <1>1, <1>2, LoadBuild, ConfigureBuild, CompileBuild, LinkBuild DEF Next, vars

(* "importing all of them is unambiguous" (mod.cppm): in no build do two     *)
(* partitions export one name, whatever the configurations.                  *)
THEOREM NamesUnambiguous == Spec => []Unambiguous
<1>1. Init => BuildInv
  BY DEF Init, BuildInv, Target
<1>2. BuildInv => Unambiguous
  BY NamesOnce, KnownOneSystem, KnownOneArch, MachineKnown DEF BuildInv, Unambiguous
<1> QED BY <1>1, <1>2, BuildInvInductive, PTL DEF Spec

-----------------------------------------------------------------------------
(* OSMAP.  The rows are looked through in their order, so that a key that    *)
(* names the system must stand before all that a triple may contain besides. *)

\* The os that the scripts give to a system.
ScriptOS(sys) == IF sys = "ios" THEN "iphoneos" ELSE sys

Row ==
    [android |-> 1, emscripten |-> 2, wasi |-> 3, wasm |-> 4, freebsd |-> 5, openbsd |-> 6,
     netbsd |-> 7, dragonfly |-> 8, solaris |-> 9, darwin |-> 10, macos |-> 11, ios |-> 12,
     watchos |-> 13, tvos |-> 14, apple |-> 15, linux |-> 16, mingw |-> 17, cygwin |-> 18,
     windows |-> 19, uefi |-> 20, none |-> 21, elf |-> 22]

LEMMA RowOfKey ==
    /\ DOMAIN OSMAP = 1 .. 22
    /\ \A i \in 1 .. 22 : OSMAP[i][1] \in DOMAIN Row /\ Row[OSMAP[i][1]] = i
BY DEF OSMAP, Row

Systems12 ==
    {"windows", "mingw", "android", "linux", "macos", "ios", "freebsd", "openbsd", "netbsd",
     "dragonfly", "solaris", "wasm"}

LEMMA SystemDomain == DOMAIN SysMacros = Systems12
BY DEF SysMacros, Systems12

LEMMA NameBeforeBesides ==
    ASSUME NEW sys \in Systems12, NEW name \in TripleNames[sys]
    PROVE  /\ OSMAP[Row[name]] = <<name, ScriptOS(sys)>> /\ Row[name] \in 1 .. 22
           /\ \A b \in Besides(sys) : Row[name] < Row[b]
<1>1. /\ OSMAP[Row[name]] = <<name, ScriptOS(sys)>>
      /\ Row[name] \in 1 .. 22
  BY DEF OSMAP, Row, ScriptOS, TripleNames, Systems12
<1>2. \A b \in Besides(sys) : Row[name] < Row[b]
  BY DEF Row, Besides, TripleNames, Systems12
<1> QED BY <1>1, <1>2

LEMMA LeastElement ==
    ASSUME NEW S, S \subseteq Nat, S # {}
    PROVE  \E i \in S : \A j \in S : i <= j
<1> DEFINE R == {ss \in Nat \X Nat : ss[1] < ss[2]}
<1>1. IsWellFoundedOn(R, Nat)
  BY NatLessThanWellFounded DEF OpToRel
<1>2. PICK i \in S : \A j \in S : <<j, i>> \notin R
  <2> HIDE DEF R
  <2> QED BY <1>1, WFMin
<1>3. ASSUME NEW j \in S PROVE i <= j
  <2>1. i \in Nat /\ j \in Nat /\ <<j, i>> \notin R
    BY <1>2
  <2>2. j < i => <<j, i>> \in R
    BY <2>1
  <2> QED BY <2>1, <2>2
<1> QED BY <1>3

LEMMA SystemNamed ==
    ASSUME NEW sys \in Systems12, NEW tri, tri.keys \intersect TripleNames[sys] # {},
           tri.keys \subseteq TripleNames[sys] \union Besides(sys)
    PROVE  os_from_triple(tri) = ScriptOS(sys)
<1> DEFINE hits == {i \in DOMAIN OSMAP : OSMAP[i][1] \in tri.keys}
           first == CHOOSE i \in hits : \A j \in hits : i <= j
<1>1. PICK name \in tri.keys : name \in TripleNames[sys]
  OBVIOUS
<1>2. Row[name] \in hits
  BY <1>1, NameBeforeBesides, RowOfKey
<1>3. first \in hits /\ \A j \in hits : first <= j
  <2>1. hits \subseteq Nat
    BY RowOfKey
  <2> HIDE DEF hits
  <2> QED BY <1>2, <2>1, LeastElement
<1>4. os_from_triple(tri) = OSMAP[first][2]
  BY <1>2 DEF os_from_triple
<1>5. OSMAP[first][1] \in TripleNames[sys] \union Besides(sys) /\ Row[OSMAP[first][1]] = first
  BY <1>3, RowOfKey
<1> HIDE DEF first, hits
<1>6. OSMAP[first][1] \notin Besides(sys)
  <2>1. first <= Row[name] /\ first \in Int /\ Row[name] \in Int
    BY <1>1, <1>2, <1>3, NameBeforeBesides, RowOfKey DEF hits
  <2> QED BY <1>1, <1>5, <2>1, NameBeforeBesides
<1>7. OSMAP[first] = <<OSMAP[first][1], ScriptOS(sys)>>
  BY <1>5, <1>6, NameBeforeBesides
<1> QED BY <1>4, <1>7

LEMMA OSNamed ==
    ASSUME NEW c \in Config
    PROVE  MachineOf(c).sys \in Systems12 /\ OSName(c) = ScriptOS(MachineOf(c).sys)
<1> DEFINE sys == MachineOf(c).sys
<1>1. sys \in Systems12 /\ NamesSystem(c, sys)
  BY MachineKnown, SystemDomain, NamesAssumption DEF Known
<1> HIDE DEF sys
<1>2. CASE ByTriple(c)
  <2>1. c.cross # None /\ os_from_triple(c.cross) = ScriptOS(sys)
    BY <1>1, <1>2, SystemNamed DEF NamesSystem
  <2> QED BY <1>1, <1>2, <2>1 DEF OSName, sys
<1>3. CASE ~ ByTriple(c)
  <2>1. c.plat \in PlatNames[sys]
    BY <1>1, <1>3 DEF NamesSystem
  <2>2. Alias(PLAT_ALIAS, c.plat) = ScriptOS(sys)
    BY <1>1, <2>1 DEF Alias, PLAT_ALIAS, ScriptOS, PlatNames, Systems12
  <2> QED BY <1>1, <1>3, <2>2 DEF OSName, sys
<1> QED BY <1>2, <1>3

-----------------------------------------------------------------------------
(* What the compiler predefines for a machine is what the scripts conclude.  *)

CpuSet(m) == (IF m.sys = "windows" THEN MSVCMacros ELSE CpuMacros)[m.cpu]

LEMMA SystemAgrees ==
    ASSUME NEW m, Known(m), NEW os, os = ScriptOS(m.sys), NEW f \in DOMAIN OSMacro
    PROVE  OS(Predefined(m), f) <=> \/ os \in DOMAIN OSFeature /\ f = OSFeature[os]
                                    \/ os = "android" /\ f = "LINUX"
<1>1. PICK cpu \in CpuSets : Predefined(m) = SysMacros[m.sys] \union cpu
  BY PredefinedParts
<1>2. OS(Predefined(m), f) <=> OSMacro[f] \in SysMacros[m.sys]
  BY <1>1, CpuApart DEF OS
<1>3. m.sys \in Systems12
  BY SystemDomain DEF Known
<1>4. OSMacro[f] \in SysMacros[m.sys] <=> \/ os \in DOMAIN OSFeature /\ f = OSFeature[os]
                                          \/ os = "android" /\ f = "LINUX"
  BY <1>3 DEF Systems12, SysMacros, OSMacro, OSFeature, ScriptOS
<1> QED BY <1>2, <1>4

\* The cpu that has a feature of ARCH().
FeatureCpu ==
    [AMD64 |-> "amd64", I386 |-> "i386", AARCH64 |-> "aarch64", ARM |-> "arm",
     RISCV64 |-> "riscv64"]

LEMMA ArchNamed ==
    ASSUME NEW c \in Config, ArchName(c) \in DOMAIN ArchFeature
    PROVE  /\ ArchFeature[ArchName(c)] \in DOMAIN FeatureCpu
           /\ MachineOf(c).cpu = FeatureCpu[ArchFeature[ArchName(c)]]
<1> DEFINE name == IF ByTriple(c) THEN c.cross.token ELSE c.arch
           old == IF ByTriple(c) THEN {"i486", "i586"} ELSE {}
           cpu == MachineOf(c).cpu
<1>1. /\ \A k \in DOMAIN CpuNames : name \in CpuNames[k] => k = cpu
      /\ name \in old => cpu = "i386"
  BY NamesAssumption DEF NamesCpu
<1>2. ArchName(c) = IF ByTriple(c) THEN Alias(ARCH_ALIAS, name) ELSE name
  <2>1. ByTriple(c) => c.cross # None
    BY NamesAssumption DEF NamesSystem
  <2> QED BY <2>1 DEF ArchName, arch_from_triple
<1> HIDE DEF cpu, name
<1>3. CASE ~ ByTriple(c)
  BY <1>1, <1>2, <1>3 DEF ArchFeature, FeatureCpu, CpuNames, cpu
<1>4. CASE ByTriple(c)
  BY <1>1, <1>2, <1>4 DEF ArchFeature, FeatureCpu, CpuNames, Alias, ARCH_ALIAS, cpu
<1> QED BY <1>3, <1>4

LEMMA CpuAgrees ==
    ASSUME NEW m, Known(m), NEW g \in DOMAIN FeatureCpu, m.cpu = FeatureCpu[g],
           NEW f \in DOMAIN ArchMacro
    PROVE  ARCH(Predefined(m), f) <=> f = g
<1>1. \E x \in ArchMacro[g] : CpuSet(m) = {x}
  <2>1. /\ CpuMacros["amd64"] = {"__amd64__"} /\ CpuMacros["i386"] = {"__i386__"}
        /\ CpuMacros["aarch64"] = {"__aarch64__"} /\ CpuMacros["arm"] = {"__arm__"}
        /\ CpuMacros["riscv64"] = {"__riscv 64"}
    BY DEF CpuMacros
  <2>2. /\ MSVCMacros["amd64"] = {"_M_AMD64"} /\ MSVCMacros["i386"] = {"_M_IX86"}
        /\ MSVCMacros["aarch64"] = {"_M_ARM64"} /\ MSVCMacros["arm"] = {"_M_ARM"}
        /\ "riscv64" \notin DOMAIN MSVCMacros
    BY DEF MSVCMacros
  <2>3. /\ ArchMacro["AMD64"] = {"__amd64__", "_M_AMD64"}
        /\ ArchMacro["I386"] = {"__i386__", "_M_IX86"}
        /\ ArchMacro["AARCH64"] = {"__aarch64__", "_M_ARM64"}
        /\ ArchMacro["ARM"] = {"__arm__", "_M_ARM"} /\ ArchMacro["RISCV64"] = {"__riscv 64"}
    BY DEF ArchMacro
  <2>4. \/ g = "AMD64" /\ m.cpu = "amd64"
        \/ g = "I386" /\ m.cpu = "i386"
        \/ g = "AARCH64" /\ m.cpu = "aarch64"
        \/ g = "ARM" /\ m.cpu = "arm"
        \/ g = "RISCV64" /\ m.cpu = "riscv64"
    BY DEF FeatureCpu
  <2>5. m.sys = "windows" => m.cpu \in DOMAIN MSVCMacros
    BY DEF Known
  <2>6. CASE m.sys = "windows"
    BY <2>2, <2>3, <2>4, <2>5, <2>6 DEF CpuSet
  <2>7. CASE m.sys # "windows"
    BY <2>1, <2>3, <2>4, <2>7 DEF CpuSet
  <2> QED BY <2>6, <2>7
<1>2. Predefined(m) = SysMacros[m.sys] \union CpuSet(m) /\ m.sys \in DOMAIN SysMacros
  BY DEF Predefined, CpuSet, Known
<1>3. ArchMacro[f] \intersect SysMacros[m.sys] = {}
  BY <1>2, SystemNoArch, ArchNamesApart
<1>4. g \in DOMAIN ArchMacro
  BY DEF FeatureCpu, ArchMacro
<1>5. ARCH(Predefined(m), f) <=> ArchMacro[f] \intersect CpuSet(m) # {}
  BY <1>2, <1>3 DEF ARCH
<1> QED BY <1>1, <1>4, <1>5, ArchNamesApart

LEMMA DetectAgrees ==
    ASSUME NEW c \in Config
    PROVE  Agree(detect(c), MachineOf(c))
<1>1. Known(MachineOf(c))
  BY MachineKnown
<1>2. detect(c).os = ScriptOS(MachineOf(c).sys) /\ detect(c).arch = ArchName(c)
  BY OSNamed DEF detect
<1>3. ASSUME NEW f \in DOMAIN OSMacro
      PROVE  OS(Predefined(MachineOf(c)), f) <=>
                \/ detect(c).os \in DOMAIN OSFeature /\ f = OSFeature[detect(c).os]
                \/ detect(c).os = "android" /\ f = "LINUX"
  BY <1>1, <1>2, SystemAgrees
<1>4. ASSUME detect(c).arch \in DOMAIN ArchFeature, NEW f \in DOMAIN ArchMacro
      PROVE  ARCH(Predefined(MachineOf(c)), f) <=> f = ArchFeature[detect(c).arch]
  BY <1>1, <1>2, <1>4, ArchNamed, CpuAgrees
<1> QED BY <1>3, <1>4 DEF Agree

(* platform.lua and macros.hpp read one target alike, from whatever triple   *)
(* or plat names the machine: android before linux, ios before apple, an     *)
(* object format or a vendor last.                                           *)
THEOREM ScriptsAndMacrosAgree == Spec => []TargetAgrees
<1>1. Init => BuildInv
  BY DEF Init, BuildInv, Target
<1>2. BuildInv => TargetAgrees
  BY DetectAgrees DEF BuildInv, TargetAgrees
<1> QED BY <1>1, <1>2, BuildInvInductive, PTL DEF Spec

-----------------------------------------------------------------------------
(* The entry point.  The prefix that the scripts put is the one the compiler *)
(* puts, and every option but the one of wasm tells a linker to start there. *)

LEMMA I386Named ==
    ASSUME NEW c \in Config, MachineOf(c).sys \in {"windows", "mingw"}
    PROVE  ArchName(c) \in {"x86", "i386", "i686"} <=> MachineOf(c).cpu = "i386"
<1> DEFINE name == IF ByTriple(c) THEN c.cross.token ELSE c.arch
           old == IF ByTriple(c) THEN {"i486", "i586"} ELSE {}
           cpu == MachineOf(c).cpu
<1>1. /\ \A k \in DOMAIN CpuNames : name \in CpuNames[k] => k = cpu
      /\ name \in old => cpu = "i386"
      /\ cpu = "i386" => name \in CpuNames["i386"] \union old
  BY NamesAssumption DEF NamesCpu
<1>2. ArchName(c) = IF ByTriple(c) THEN Alias(ARCH_ALIAS, name) ELSE name
  <2>1. ByTriple(c) => c.cross # None
    BY NamesAssumption DEF NamesSystem
  <2> QED BY <2>1 DEF ArchName, arch_from_triple
<1> HIDE DEF cpu, name
<1>3. CASE ~ ByTriple(c)
  BY <1>1, <1>2, <1>3 DEF CpuNames, cpu
<1>4. CASE ByTriple(c)
  BY <1>1, <1>2, <1>4 DEF CpuNames, Alias, ARCH_ALIAS, cpu
<1> QED BY <1>3, <1>4

LEMMA PrefixAgrees ==
    ASSUME NEW c \in Config
    PROVE  entry_symbol(detect(c), "ib_start") = Decorated(MachineOf(c), "ib_start")
<1> DEFINE sys == MachineOf(c).sys
           prefix == detect(c).symprefix
<1>1. sys \in Systems12 /\ prefix = Symprefix(Binfmt(ScriptOS(sys)), ArchName(c))
  BY OSNamed DEF detect
<1>2. prefix = IF sys \in {"macos", "ios"} \/ (sys \in {"windows", "mingw"} /\ MachineOf(c).cpu = "i386")
               THEN "_" ELSE ""
  BY <1>1, I386Named DEF Systems12, Symprefix, Binfmt, ScriptOS
<1> QED BY <1>2 DEF entry_symbol, Decorated

LEMMA PrintNeedsSystem ==
    ASSUME NEW m, Known(m), Found(Predefined(m), "print")
    PROVE  m.sys # "wasm"
<1> DEFINE pre == Predefined(m)
<1> SUFFICES ASSUME m.sys = "wasm" PROVE FALSE
  OBVIOUS
<1>1. \A f \in DOMAIN OSMacro : ~ OS(pre, f)
  BY SystemAgrees DEF ScriptOS, OSFeature
<1>2. ~ PosixActive(pre) /\ ~ OS(pre, "WINDOWS")
  BY <1>1 DEF PosixActive, OSMacro
<1>3. Exporters(pre, "print") = {}
  BY <1>2, RawExports, WrapperParts DEF Exporters, Active
<1> QED BY <1>3, FS_EmptySet DEF Found

LEMMA OptionStarts ==
    ASSUME NEW c \in Config, MachineOf(c).sys # "wasm", NEW o \in EntryOptions(detect(c))
    PROVE  \/ o.opt = "-e" /\ o.symbol = Decorated(MachineOf(c), "ib_start")
           \/ o.opt = "/ENTRY" /\ o.symbol = <<"", "ib_start">>
<1> DEFINE sys == MachineOf(c).sys
           pi == detect(c)
           decorated == entry_symbol(pi, "ib_start")
<1>1. /\ sys \in Systems12 /\ pi.os = ScriptOS(sys) /\ pi.binfmt = Binfmt(ScriptOS(sys))
      /\ decorated = Decorated(MachineOf(c), "ib_start")
  BY OSNamed, PrefixAgrees DEF detect
<1>2. pi.binfmt # "wasm"
  BY <1>1 DEF ScriptOS, Binfmt, Systems12
<1> SUFFICES \/ o.opt = "-e" /\ o.symbol = decorated
             \/ o.opt = "/ENTRY" /\ o.symbol = <<"", "ib_start">>
  BY <1>1
<1>3. o \in EntryOptions(pi)
  OBVIOUS
<1> HIDE DEF pi, decorated
<1>4. PICK tools : \/ o = EntryOption("-e", decorated, tools)
                   \/ o = EntryOption("/ENTRY", <<"", "ib_start">>, tools)
  BY <1>2, <1>3, Zenon DEF EntryOptions, decorated
<1>5. CASE o = EntryOption("-e", decorated, tools)
  BY <1>5 DEF EntryOption
<1>6. CASE o = EntryOption("/ENTRY", <<"", "ib_start">>, tools)
  BY <1>6 DEF EntryOption
<1> QED BY <1>4, <1>5, <1>6

EntryInv == BuildInv /\ EntryIsStart

LEMMA EntryInvInductive == EntryInv /\ [Next]_vars => EntryInv'
<1> SUFFICES ASSUME EntryInv, [Next]_vars PROVE EntryInv'
  OBVIOUS
<1>1. BuildInv'
  BY BuildInvInductive DEF EntryInv
<1>2. CASE Link
  <2>1. /\ stage["ib_app"] = "built" /\ UNCHANGED <<config, machine>>
        /\ entry' = IF \E o \in options : StartsAtStart(o)
                    THEN Decorated(machine["ib_app"], "ib_start") ELSE None
    BY <1>2 DEF Link
  <2>2. /\ config \in Config /\ machine["ib_app"] = MachineOf(config)
        /\ options = EntryOptions(detect(config))
        /\ Found(Predefined(MachineOf(config)), "print")
    BY <2>1 DEF EntryInv, BuildInv, Target
  <2>3. \A o \in options : StartsAtStart(o) <=> config.linker \in o.tools
    BY <2>2, MachineKnown, PrintNeedsSystem, OptionStarts DEF StartsAtStart
  <2>4. options' = options
    BY <1>2 DEF Link
  <2> QED BY <1>1, <2>1, <2>3, <2>4 DEF EntryInv, EntryIsStart
<1>3. ASSUME Load \/ (\E t \in Target : Configure(t) \/ Compile(t))
      PROVE  EntryIsStart'
  <2>1. PICK t \in Target :
           /\ \E s \in {"loaded", "configured", "built", "error"} :
                 stage' = [stage EXCEPT ![t] = s]
           /\ machine' = machine \/ (\E m : machine' = [machine EXCEPT ![t] = m])
           /\ entry' = entry /\ config' = config
           /\ t = "ib_app" \/ options' = options
    BY <1>3 DEF Load, Configure, Compile, Reaches, Target
  <2>2. CASE t = "ib_app"
    <3>1. stage'["ib_app"] # "linked"
      BY <2>1, <2>2 DEF EntryInv, BuildInv
    <3> QED BY <3>1 DEF EntryIsStart
  <2>3. CASE t # "ib_app"
    <3>1. stage'["ib_app"] = stage["ib_app"] /\ machine'["ib_app"] = machine["ib_app"]
      BY <2>1, <2>3 DEF EntryInv, BuildInv, Target
    <3> QED BY <2>1, <2>3, <3>1 DEF EntryInv, EntryIsStart
  <2> QED BY <2>2, <2>3
<1>4. Exec \/ ReadNote \/ EndNotes \/ Run \/ UNCHANGED vars =>
        UNCHANGED <<stage, machine, entry, options, config>>
  BY DEF Exec, ReadNote, EndNotes, Run, Serve, vars
<1>5. UNCHANGED <<stage, machine, entry, options, config>> => EntryIsStart'
  BY DEF EntryInv, EntryIsStart
<1> QED BY <1>1, <1>2, <1>3, <1>4, <1>5 DEF Next, EntryInv

(* Every executable that links starts at ib_start, under the prefix of its   *)
(* object format, if ib.entrypoint has an option for the tool name of its    *)
(* linker, whichever that is, and has no entry point if it has none.         *)
THEOREM EntryFound == Spec => []EntryIsStart
<1>1. Init => EntryInv
  BY DEF Init, BuildInv, EntryInv, EntryIsStart, Target
<1>2. EntryInv => EntryIsStart
  BY DEF EntryInv
<1> QED BY <1>1, <1>2, EntryInvInductive, PTL DEF Spec

-----------------------------------------------------------------------------
(* Whoever reads the notes header by header stays on the headers: each note  *)
(* is as long as its own sizes, rounded up, say.                             *)
LEMMA NoteSizes ==
    ASSUME NEW pre, NEW i \in 1 .. Len(ib_abi_note(pre))
    PROVE  LET n == ib_abi_note(pre)[i]
           IN  12 + Align4(n.namesz) + Align4(n.descsz) = NoteBytes
<1> DEFINE n == ib_abi_note(pre)[i]
<1>1. n.namesz \in {7, 8} /\ n.descsz = 4
  BY DEF ib_abi_note, Note
<1>2. Align4(7) = 8 /\ Align4(8) = 8 /\ Align4(4) = 4
  BY DEF Align4
<1> HIDE DEF n
<1>3. 12 + Align4(n.namesz) + Align4(n.descsz) = NoteBytes
  BY <1>1, <1>2 DEF NoteBytes
<1> QED BY <1>3 DEF n

LEMMA SectionLength == \A pre : Len(ib_abi_note(pre)) \in Nat
BY DEF ib_abi_note

NotesInv ==
    /\ stage = [t \in Target |-> stage[t]] /\ machine = [t \in Target |-> machine[t]]
    /\ proc = "none" => at = 0
    /\ proc # "none" => stage["ib_app"] = "linked"
    /\ proc = "branding" => \E k \in 0 .. Len(Section) : at = NoteBytes * k

LEMMA NotesInvInductive == NotesInv /\ [Next]_vars => NotesInv'
<1> SUFFICES ASSUME NotesInv, [Next]_vars PROVE NotesInv'
  OBVIOUS
<1> USE DEF Target
<1>1. ASSUME Load \/ Link \/ (\E t \in Target : Configure(t) \/ Compile(t)) PROVE NotesInv'
  <2>1. UNCHANGED <<proc, at>>
    BY <1>1 DEF Load, Link, Configure, Compile
  <2>2. PICK t \in Target :
           /\ \E s : stage' = [stage EXCEPT ![t] = s]
           /\ t = "ib_app" => stage[t] # "linked"
           /\ machine' = machine \/ (\E m : machine' = [machine EXCEPT ![t] = m])
    BY <1>1 DEF Load, Link, Configure, Compile, Reaches
  <2>3. /\ stage' = [u \in Target |-> stage'[u]] /\ machine' = [u \in Target |-> machine'[u]]
        /\ t # "ib_app" => /\ stage'["ib_app"] = stage["ib_app"]
                           /\ machine'["ib_app"] = machine["ib_app"]
    BY <2>2 DEF NotesInv
  <2>4. CASE t = "ib_app"
    BY <2>1, <2>2, <2>3, <2>4 DEF NotesInv
  <2>5. CASE t # "ib_app"
    <3>1. Section' = Section
      BY <2>3, <2>5 DEF Section
    <3> QED BY <2>1, <2>3, <2>5, <3>1 DEF NotesInv
  <2> QED BY <2>4, <2>5
<1>2. CASE Exec
  <2>1. UNCHANGED <<stage, machine, at>> /\ at = 0 /\ stage["ib_app"] = "linked"
        /\ proc' # "none"
    BY <1>2 DEF Exec, NotesInv
  <2>2. Len(Section) \in Nat /\ Section' = Section
    BY <2>1, SectionLength DEF Section
  <2>3. 0 \in 0 .. Len(Section') /\ at' = NoteBytes * 0
    BY <2>1, <2>2 DEF NoteBytes
  <2> QED BY <2>1, <2>3 DEF NotesInv
<1>3. CASE ReadNote
  <2>1. UNCHANGED <<stage, machine>> /\ proc = "branding" /\ proc' \in {"branding", "killed"}
    BY <1>3 DEF ReadNote
  <2>2. Len(Section) \in Nat /\ Section' = Section
    BY <2>1, SectionLength DEF Section
  <2>3. PICK k \in 0 .. Len(Section) : at = NoteBytes * k
    BY <2>1 DEF NotesInv
  <2>4. k < Len(Section) /\ at % NoteBytes = 0 /\ at \div NoteBytes + 1 = k + 1
    BY <1>3, <2>2, <2>3 DEF ReadNote, NoteBytes
  <2>5. at' = at + 12 + Align4(Section[k + 1].namesz) + Align4(Section[k + 1].descsz)
    BY <1>3, <2>4 DEF ReadNote
  <2>6. k + 1 \in 1 .. Len(Section)
    BY <2>2, <2>4
  <2>7. 12 + Align4(Section[k + 1].namesz) + Align4(Section[k + 1].descsz) = NoteBytes
    BY <2>6, NoteSizes DEF Section
  <2>8. Section[k + 1].namesz \in Nat /\ Section[k + 1].descsz \in Nat
    BY <2>6 DEF Section, ib_abi_note, Note
  <2>9. at' = NoteBytes * (k + 1)
    <3>1. Align4(Section[k + 1].namesz) \in Int /\ Align4(Section[k + 1].descsz) \in Int
      BY <2>8 DEF Align4
    <3> QED BY <2>3, <2>5, <2>7, <3>1 DEF NoteBytes
  <2> QED BY <2>1, <2>2, <2>4, <2>9 DEF NotesInv
<1>4. CASE EndNotes \/ Run
  <2>1. UNCHANGED <<stage, machine, at>> /\ proc # "none" /\ proc' \notin {"none", "branding"}
    BY <1>4 DEF EndNotes, Run, Serve
  <2> QED BY <2>1 DEF NotesInv
<1>5. CASE UNCHANGED vars
  <2>1. UNCHANGED <<stage, machine, at, proc>> /\ Section' = Section
    BY <1>5 DEF vars, Section
  <2> QED BY <2>1 DEF NotesInv
<1> QED BY <1>1, <1>2, <1>3, <1>4, <1>5 DEF Next

(* The notes of crt.cpp, read record by record, end where the section ends   *)
(* and are never entered between two headers.                                *)
THEOREM NotesAreTiled == Spec => []NotesTile
<1>1. Init => NotesInv
  BY DEF Init, NotesInv, Target
<1>2. NotesInv => NotesTile
  <2> SUFFICES ASSUME NotesInv, proc = "branding"
               PROVE  at % NoteBytes = 0 /\ at <= NoteBytes * Len(Section)
    BY DEF NotesTile
  <2>1. PICK k \in 0 .. Len(Section) : at = NoteBytes * k
    BY DEF NotesInv
  <2>2. Len(Section) \in Nat
    BY SectionLength DEF Section
  <2> QED BY <2>1, <2>2 DEF NoteBytes
<1> QED BY <1>1, <1>2, NotesInvInductive, PTL DEF Spec

-----------------------------------------------------------------------------
(* What a backend brings: code for one system and architecture, and with it  *)
(* every name that posix.cpp, main.cpp and crt.cpp import.                   *)

BackendNames(pre) == PosixUses(pre) \union {"print", "exit"}

HasName(pre, name) == \E p \in Active(pre) \union Posix(pre) : name \in Exported(p)

LEMMA PosixUsesOf ==
    ASSUME NEW pre, PosixActive(pre)
    PROVE  /\ BackendNames(pre) = {"SYS_WRITE", "SYS_EXIT", "syscall3", "print", "exit"}
                                    \union MmapUses(pre)
           /\ HasName(pre, "print") /\ HasName(pre, "exit")
<1>1. PosixPart \in Posix(pre)
  BY DEF Posix, When, PosixPart
<1>2. Exported(PosixPart) = {"print", "exit"}
  BY <1>1, WrapperParts
<1> QED BY <1>1, <1>2 DEF BackendNames, PosixUses, When, HasName

LEMMA LinuxNames ==
    ASSUME NEW pre, OneSystem(pre), OneArch(pre), OS(pre, "LINUX"),
           NEW a \in DOMAIN LinuxNumbers, ARCH(pre, a)
    PROVE  \A name \in BackendNames(pre) : HasName(pre, name)
<1>1. LinuxPart(a) \in Active(pre)
  BY DEF Active, Linux, When, LinuxPart
<1>2. Exported(LinuxPart(a)) = {"SYS_WRITE", "SYS_EXIT", "syscall3", "syscall6"} \union
                               {IF a \in {"I386", "ARM"} THEN "SYS_MMAP2" ELSE "SYS_MMAP"}
  <2>1. DOMAIN LinuxNumbers[a] = {"SYS_WRITE", "SYS_EXIT"} \union
                                 {IF a \in {"I386", "ARM"} THEN "SYS_MMAP2" ELSE "SYS_MMAP"}
    BY DEF LinuxNumbers, Numbers, Numbers2
  <2>2. /\ LinuxPart(a).numbers = LinuxNumbers[a]
        /\ LinuxPart(a).code = {"syscall3", "syscall6"}
    BY DEF LinuxPart, Partition
  <2> QED BY <2>1, <2>2 DEF Exported
<1>3. PosixActive(pre)
  BY DEF PosixActive
<1>4. MmapUses(pre) = {IF a \in {"I386", "ARM"} THEN "SYS_MMAP2" ELSE "SYS_MMAP", "syscall6"}
  <2>1. ARCH(pre, "I386") \/ ARCH(pre, "ARM") <=> a \in {"I386", "ARM"}
    <3>1. DOMAIN LinuxNumbers \subseteq DOMAIN ArchMacro /\ {"I386", "ARM"} \subseteq DOMAIN ArchMacro
      BY DEF LinuxNumbers, ArchMacro
    <3> QED BY <3>1 DEF OneArch
  <2>2. ~ OS(pre, "NETBSD") /\ ~ OS(pre, "OPENBSD") /\ ~ OS(pre, "MACOS")
    BY DEF OneSystem, Systems
  <2> QED BY <2>1, <2>2 DEF MmapUses
<1> QED BY <1>1, <1>2, <1>3, <1>4, PosixUsesOf DEF HasName

LEMMA BSDNames ==
    ASSUME NEW pre, OneSystem(pre), NEW f \in BSDSystems, OS(pre, f),
           NEW a \in BSDArchs, ARCH(pre, a)
    PROVE  \A name \in BackendNames(pre) : HasName(pre, name)
<1>1. AnyBSD(pre) /\ DOMAIN BSDMmap = BSDSystems /\ DOMAIN NoNumbers = {}
  BY DEF AnyBSD, BSDSystems, BSDMmap, NoNumbers
<1>2. BSDNumbersPart \in BSD(pre) /\ BSDArchPart(pre, a) \in BSD(pre) /\ BSDSystemPart(f) \in BSD(pre)
  <2>1. BSDNumbersPart \in BSD(pre)
    BY <1>1 DEF BSD, When, BSDNumbersPart
  <2>2. BSDArchPart(pre, a) \in BSD(pre)
    <3>1. BSDArchPart(pre, a) \in
            UNION {When(AnyBSD(pre) /\ ARCH(pre, b),
                 {Partition(<<"bsd", b>>, NoNumbers,
                            {"syscall3", "syscall6"} \union Syscall7(pre))}) : b \in BSDArchs}
      BY <1>1 DEF When, BSDArchPart
    <3> QED BY <3>1 DEF BSD, BSDArchs
  <2>3. BSDSystemPart(f) \in BSD(pre)
    <3>1. BSDSystemPart(f) \in
            UNION {When(OS(pre, g), {Partition(<<"bsd", g>>, [SYS_MMAP |-> BSDMmap[g]], {})})
                     : g \in DOMAIN BSDMmap}
      BY <1>1 DEF When, BSDSystemPart
    <3> QED BY <3>1 DEF BSD
  <2> QED BY <2>1, <2>2, <2>3
<1>3. /\ Exported(BSDNumbersPart) = {"SYS_WRITE", "SYS_EXIT"}
      /\ Exported(BSDSystemPart(f)) = {"SYS_MMAP"}
      /\ Exported(BSDArchPart(pre, a)) = {"syscall3", "syscall6"} \union Syscall7(pre)
  BY <1>1 DEF Exported, Partition, BSDNumbersPart, BSDSystemPart, BSDArchPart
<1>4. PosixActive(pre)
  BY DEF PosixActive, BSDSystems
<1>5. MmapUses(pre) \subseteq {"SYS_MMAP", "syscall6"} \union Syscall7(pre)
  <2>1. ~ OS(pre, "LINUX") /\ ~ OS(pre, "MACOS")
    BY DEF OneSystem, Systems, BSDSystems
  <2> QED BY <2>1 DEF MmapUses, Syscall7, When
<1> QED BY <1>2, <1>3, <1>4, <1>5, PosixUsesOf DEF HasName, Active

LEMMA DarwinNames ==
    ASSUME NEW pre, OneSystem(pre), OS(pre, "MACOS"),
           NEW a \in {"AMD64", "AARCH64"}, ARCH(pre, a)
    PROVE  \A name \in BackendNames(pre) : HasName(pre, name)
<1>1. DOMAIN NoNumbers = {}
  BY DEF NoNumbers
<1>2. DarwinNumbersPart \in Darwin(pre) /\ DarwinArchPart(a) \in Darwin(pre)
  BY DEF Darwin, When, DarwinNumbersPart, DarwinArchPart
<1>3. /\ Exported(DarwinNumbersPart) = {"SYS_WRITE", "SYS_EXIT", "SYS_MMAP"}
      /\ Exported(DarwinArchPart(a)) = {"syscall3", "syscall6", "syscall7"}
  BY <1>1 DEF Exported, Partition, Numbers, DarwinNumbersPart, DarwinArchPart
<1>4. PosixActive(pre)
  BY DEF PosixActive
<1>5. MmapUses(pre) = {"SYS_MMAP", "syscall7"}
  BY DEF OneSystem, Systems, MmapUses
<1> QED BY <1>2, <1>3, <1>4, <1>5, PosixUsesOf DEF HasName, Active

LEMMA SolarisNames ==
    ASSUME NEW pre, OneSystem(pre), OS(pre, "SOLARIS"), ARCH(pre, "AMD64") \/ SPARC64(pre)
    PROVE  \A name \in BackendNames(pre) : HasName(pre, name)
<1>1. DOMAIN NoNumbers = {}
  BY DEF NoNumbers
<1>2. SolarisNumbersPart \in Solaris(pre) /\ \E a : SolarisArchPart(a) \in Solaris(pre)
  BY DEF Solaris, SolarisCode, When, SolarisNumbersPart, SolarisArchPart
<1>3. /\ Exported(SolarisNumbersPart) = {"SYS_WRITE", "SYS_EXIT", "SYS_MMAP"}
      /\ \A a : Exported(SolarisArchPart(a)) = {"syscall3", "syscall6"}
  BY <1>1 DEF Exported, Partition, Numbers, SolarisNumbersPart, SolarisArchPart
<1>4. PosixActive(pre)
  BY DEF PosixActive
<1>5. MmapUses(pre) = {"SYS_MMAP", "syscall6"}
  BY DEF OneSystem, Systems, MmapUses
<1> QED BY <1>2, <1>3, <1>4, <1>5, PosixUsesOf DEF HasName, Active

LEMMA WindowsNames ==
    ASSUME NEW pre, OneSystem(pre), OS(pre, "WINDOWS")
    PROVE  \A name \in BackendNames(pre) : HasName(pre, name)
<1>1. WindowsPart \in Active(pre)
  BY DEF Active, Windows, When, WindowsPart
<1>2. Exported(WindowsPart) = {"print", "exit"}
  <2>1. DOMAIN NoNumbers = {}
    BY DEF NoNumbers
  <2> QED BY <2>1 DEF Exported, Partition, WindowsPart
<1>3. ~ PosixActive(pre)
  BY DEF PosixActive, OneSystem, Systems
<1> QED BY <1>1, <1>2, <1>3 DEF HasName, BackendNames, PosixUses, When

LEMMA BackendExports ==
    ASSUME NEW pre, OneSystem(pre), OneArch(pre), Backends(pre) # {}
    PROVE  \A name \in BackendNames(pre) : Found(pre, name)
<1>1. PICK p \in Active(pre) : p.code # {}
  BY DEF Backends
<1>2. \A name \in BackendNames(pre) : HasName(pre, name)
  <2>1. CASE p \in Linux(pre)
    BY <2>1, LinuxParts, LinuxNames
  <2>2. CASE p \in BSD(pre)
    <3>1. BSDNumbersPart.code = {} /\ \A f : BSDSystemPart(f).code = {}
      BY DEF BSDNumbersPart, BSDSystemPart, Partition
    <3> QED BY <1>1, <2>2, <3>1, BSDParts, BSDNames
  <2>3. CASE p \in Darwin(pre)
    <3>1. DarwinNumbersPart.code = {}
      BY DEF DarwinNumbersPart, Partition
    <3> QED BY <1>1, <2>3, <3>1, DarwinParts, DarwinNames
  <2>4. CASE p \in Solaris(pre)
    <3>1. SolarisNumbersPart.code = {}
      BY DEF SolarisNumbersPart, Partition
    <3> QED BY <1>1, <2>4, <3>1, SolarisParts, SolarisNames
  <2>5. CASE p \in Windows(pre)
    <3>1. OS(pre, "WINDOWS")
      BY <2>5 DEF Windows, When
    <3> QED BY <3>1, WindowsNames
  <2> QED BY <2>1, <2>2, <2>3, <2>4, <2>5 DEF Active
<1>3. ASSUME NEW name \in BackendNames(pre) PROVE Found(pre, name)
  <2>1. PICK q \in Active(pre) \union Posix(pre) : name \in Exported(q)
    BY <1>2 DEF HasName
  <2>2. Exporters(pre, name) = {q}
    BY <2>1, NamesOnce DEF Exporters
  <2> QED BY <2>2, FS_Singleton DEF Found
<1> QED BY <1>3

-----------------------------------------------------------------------------
(* The numbers a backend calls with are the ones of the system it runs on.   *)

LEMMA SystemOf ==
    ASSUME NEW m, Known(m)
    PROVE  /\ OS(Predefined(m), "LINUX") => m.sys \in {"linux", "android"}
           /\ OS(Predefined(m), "MACOS") => m.sys = "macos"
           /\ OS(Predefined(m), "SOLARIS") => m.sys = "solaris"
           /\ OS(Predefined(m), "WINDOWS") => m.sys \in {"windows", "mingw"}
           /\ \A f \in BSDSystems : OS(Predefined(m), f) =>
                 m.sys \in {"freebsd", "openbsd", "netbsd", "dragonfly"}
<1> DEFINE os == ScriptOS(m.sys)
<1>1. \A f \in DOMAIN OSMacro :
         OS(Predefined(m), f) => \/ os \in DOMAIN OSFeature /\ f = OSFeature[os]
                                 \/ os = "android" /\ f = "LINUX"
  BY SystemAgrees
<1>2. m.sys \in Systems12
  BY SystemDomain DEF Known
<1>3. Systems \subseteq DOMAIN OSMacro
  BY SystemsAreOS
<1>4. ASSUME NEW f \in Systems, OS(Predefined(m), f)
      PROVE  \/ f = "LINUX" /\ m.sys \in {"linux", "android"}
             \/ f = "MACOS" /\ m.sys = "macos"
             \/ f = "SOLARIS" /\ m.sys = "solaris"
             \/ f = "WINDOWS" /\ m.sys \in {"windows", "mingw"}
             \/ f \in BSDSystems /\ m.sys \in {"freebsd", "openbsd", "netbsd", "dragonfly"}
  <2>1. \/ os \in DOMAIN OSFeature /\ f = OSFeature[os]
        \/ os = "android" /\ f = "LINUX"
    BY <1>1, <1>3, <1>4
  <2> QED BY <1>2, <2>1 DEF Systems, Systems12, OSFeature, ScriptOS, BSDSystems
<1> HIDE DEF os
<1> QED BY <1>4 DEF Systems, BSDSystems

LinuxCpu ==
    [AMD64 |-> "amd64", I386 |-> "i386", AARCH64 |-> "aarch64", ARM |-> "arm",
     PPC64 |-> "ppc64", MIPS64 |-> "mips64", RISCV64 |-> "riscv64", S390X |-> "s390x",
     LOONGARCH64 |-> "loongarch64"]

LEMMA CpuOf ==
    ASSUME NEW m, Known(m), m.sys # "windows", NEW a \in DOMAIN ArchMacro,
           ARCH(Predefined(m), a)
    PROVE  m.cpu = LinuxCpu[a]
<1>1. Predefined(m) = SysMacros[m.sys] \union CpuMacros[m.cpu] /\ m.cpu \in DOMAIN CpuMacros
      /\ m.sys \in DOMAIN SysMacros
  BY DEF Predefined, Known
<1>2. ArchMacro[a] \intersect SysMacros[m.sys] = {}
  BY <1>1, SystemNoArch, ArchNamesApart
<1>3. PICK x \in CpuMacros[m.cpu] : x \in ArchMacro[a]
  BY <1>1, <1>2 DEF ARCH
<1>4. DOMAIN CpuMacros = {"amd64", "i386", "aarch64", "arm", "ppc64", "mips64", "riscv64",
                          "s390x", "loongarch64", "sparc64", "wasm32"}
  BY DEF CpuMacros
<1>5. /\ CpuMacros["amd64"] = {"__amd64__"} /\ CpuMacros["i386"] = {"__i386__"}
      /\ CpuMacros["aarch64"] = {"__aarch64__"} /\ CpuMacros["arm"] = {"__arm__"}
      /\ CpuMacros["ppc64"] = {"__powerpc64__"} /\ CpuMacros["mips64"] = {"__mips64"}
      /\ CpuMacros["riscv64"] = {"__riscv 64"} /\ CpuMacros["s390x"] = {"__s390x__"}
      /\ CpuMacros["loongarch64"] = {"__loongarch64"}
      /\ CpuMacros["sparc64"] = {"__sparc__", "__arch64__"} /\ CpuMacros["wasm32"] = {}
  BY DEF CpuMacros
<1>6. DOMAIN ArchMacro = ArchKeys
  BY DEF ArchMacro, ArchKeys
<1>7. /\ ArchMacro["AMD64"] = {"__amd64__", "_M_AMD64"}
      /\ ArchMacro["I386"] = {"__i386__", "_M_IX86"}
      /\ ArchMacro["AARCH64"] = {"__aarch64__", "_M_ARM64"}
      /\ ArchMacro["ARM"] = {"__arm__", "_M_ARM"}
      /\ ArchMacro["PPC64"] = {"__powerpc64__", "__ppc64__"}
      /\ ArchMacro["MIPS64"] = {"__mips64"} /\ ArchMacro["RISCV64"] = {"__riscv 64"}
      /\ ArchMacro["S390X"] = {"__s390x__"}
      /\ ArchMacro["LOONGARCH64"] = {"__loongarch64"}
  BY DEF ArchMacro
<1>8. \/ x = "__amd64__" /\ m.cpu = "amd64"
      \/ x = "__i386__" /\ m.cpu = "i386"
      \/ x = "__aarch64__" /\ m.cpu = "aarch64"
      \/ x = "__arm__" /\ m.cpu = "arm"
      \/ x = "__powerpc64__" /\ m.cpu = "ppc64"
      \/ x = "__mips64" /\ m.cpu = "mips64"
      \/ x = "__riscv 64" /\ m.cpu = "riscv64"
      \/ x = "__s390x__" /\ m.cpu = "s390x"
      \/ x = "__loongarch64" /\ m.cpu = "loongarch64"
      \/ x \in {"__sparc__", "__arch64__"}
  BY <1>1, <1>3, <1>4, <1>5
<1>9. \/ x \in {"__amd64__", "_M_AMD64"} /\ a = "AMD64"
      \/ x \in {"__i386__", "_M_IX86"} /\ a = "I386"
      \/ x \in {"__aarch64__", "_M_ARM64"} /\ a = "AARCH64"
      \/ x \in {"__arm__", "_M_ARM"} /\ a = "ARM"
      \/ x \in {"__powerpc64__", "__ppc64__"} /\ a = "PPC64"
      \/ x = "__mips64" /\ a = "MIPS64"
      \/ x = "__riscv 64" /\ a = "RISCV64"
      \/ x = "__s390x__" /\ a = "S390X"
      \/ x = "__loongarch64" /\ a = "LOONGARCH64"
  BY <1>3, <1>6, <1>7 DEF ArchKeys
<1>10. /\ LinuxCpu["AMD64"] = "amd64" /\ LinuxCpu["I386"] = "i386"
       /\ LinuxCpu["AARCH64"] = "aarch64" /\ LinuxCpu["ARM"] = "arm"
       /\ LinuxCpu["PPC64"] = "ppc64" /\ LinuxCpu["MIPS64"] = "mips64"
       /\ LinuxCpu["RISCV64"] = "riscv64" /\ LinuxCpu["S390X"] = "s390x"
       /\ LinuxCpu["LOONGARCH64"] = "loongarch64"
  BY DEF LinuxCpu
<1> QED BY <1>8, <1>9, <1>10

LEMMA LinuxDemo ==
    ASSUME NEW m, m.sys \in {"linux", "android"}, NEW a \in DOMAIN LinuxNumbers,
           m.cpu = LinuxCpu[a]
    PROVE  KernelNumbers(m) = <<LinuxNumbers[a].SYS_WRITE, LinuxNumbers[a].SYS_EXIT>>
<1>1. CASE a = "AMD64"
  BY <1>1 DEF KernelNumbers, HelloLinux, LinuxNumbers, LinuxCpu, Numbers
<1>2. CASE a \in {"AARCH64", "RISCV64", "LOONGARCH64"}
  BY <1>2 DEF KernelNumbers, HelloLinux, LinuxNumbers, LinuxCpu, Numbers
<1>3. CASE a = "MIPS64"
  BY <1>3 DEF KernelNumbers, HelloLinux, LinuxNumbers, LinuxCpu, Numbers
<1>4. CASE a \in {"PPC64", "S390X"}
  BY <1>4 DEF KernelNumbers, HelloLinux, LinuxNumbers, LinuxCpu, Numbers
<1>5. CASE a \in {"I386", "ARM"}
  BY <1>5 DEF KernelNumbers, HelloLinux, LinuxNumbers, LinuxCpu, Numbers2
<1> QED BY <1>1, <1>2, <1>3, <1>4, <1>5 DEF LinuxNumbers

LEMMA NumbersOf ==
    ASSUME NEW m, Known(m), NEW p \in Active(Predefined(m)),
           NEW name \in {"SYS_WRITE", "SYS_EXIT"}, name \in DOMAIN p.numbers
    PROVE  p.numbers[name] = KernelNumbers(m)[IF name = "SYS_WRITE" THEN 1 ELSE 2]
<1> DEFINE pre == Predefined(m)
<1>1. DOMAIN NoNumbers = {}
  BY DEF NoNumbers
<1>2. CASE p \in Linux(pre)
  <2>1. PICK a \in DOMAIN LinuxNumbers : ARCH(pre, a) /\ p = LinuxPart(a)
    BY <1>2, LinuxParts
  <2>2. m.sys \in {"linux", "android"}
    BY <1>2, LinuxParts, SystemOf
  <2>3. m.cpu = LinuxCpu[a]
    <3>1. DOMAIN LinuxNumbers \subseteq DOMAIN ArchMacro
      BY DEF LinuxNumbers, ArchMacro
    <3> QED BY <2>1, <2>2, <3>1, CpuOf
  <2>4. KernelNumbers(m) = <<LinuxNumbers[a].SYS_WRITE, LinuxNumbers[a].SYS_EXIT>>
    BY <2>2, <2>3, LinuxDemo
  <2>5. p.numbers = LinuxNumbers[a]
    BY <2>1 DEF LinuxPart, Partition
  <2> QED BY <2>4, <2>5
<1>3. CASE p \in BSD(pre)
  <2>1. m.sys \in {"freebsd", "openbsd", "netbsd", "dragonfly"}
    BY <1>3, BSDParts, SystemOf
  <2>2. p = BSDNumbersPart
    <3>1. \A a : BSDArchPart(pre, a).numbers = NoNumbers
      BY DEF BSDArchPart, Partition
    <3>2. \A f : DOMAIN BSDSystemPart(f).numbers = {"SYS_MMAP"}
      BY DEF BSDSystemPart, Partition
    <3> QED BY <1>1, <1>3, <3>1, <3>2, BSDParts
  <2>3. p.numbers = [SYS_WRITE |-> 4, SYS_EXIT |-> 1]
    BY <2>2 DEF BSDNumbersPart, Partition
  <2> QED BY <2>1, <2>3 DEF KernelNumbers, HelloFreeBSD
<1>4. CASE p \in Darwin(pre)
  <2>1. m.sys = "macos"
    BY <1>4, DarwinParts, SystemOf
  <2>2. p = DarwinNumbersPart
    <3>1. \A a : DarwinArchPart(a).numbers = NoNumbers
      BY DEF DarwinArchPart, Partition
    <3> QED BY <1>1, <1>4, <3>1, DarwinParts
  <2>3. p.numbers = Numbers(33554436, 33554433, 33554629)
    BY <2>2 DEF DarwinNumbersPart, Partition
  <2> QED BY <2>1, <2>3 DEF KernelNumbers, HelloMacOS, Numbers
<1>5. CASE p \in Solaris(pre)
  <2>1. m.sys = "solaris"
    BY <1>5, SolarisParts, SystemOf
  <2>2. p = SolarisNumbersPart
    <3>1. \A a : SolarisArchPart(a).numbers = NoNumbers
      BY DEF SolarisArchPart, Partition
    <3> QED BY <1>1, <1>5, <3>1, SolarisParts
  <2>3. p.numbers = Numbers(4, 1, 115)
    BY <2>2 DEF SolarisNumbersPart, Partition
  <2> QED BY <2>1, <2>3 DEF KernelNumbers, HelloSolaris, Numbers
<1>6. CASE p \in Windows(pre)
  <2>1. p.numbers = NoNumbers
    BY <1>6 DEF Windows, When, Partition
  <2> QED BY <1>1, <2>1
<1> QED BY <1>2, <1>3, <1>4, <1>5, <1>6 DEF Active

LEMMA ServiceAnswers ==
    ASSUME NEW m, Known(m), Backends(Predefined(m)) # {},
           NEW name \in {"SYS_WRITE", "SYS_EXIT"}
    PROVE  Service(m, name) = name
<1> DEFINE pre == Predefined(m)
           number == (CHOOSE p \in Active(pre) : name \in DOMAIN p.numbers).numbers[name]
<1>1. CASE OS(pre, "WINDOWS")
  BY <1>1 DEF Service
<1>2. CASE ~ OS(pre, "WINDOWS")
  <2>1. \E p \in Active(pre) : name \in DOMAIN p.numbers
    <3>1. PosixActive(pre)
      <4>1. PICK p \in Active(pre) : TRUE
        BY DEF Backends
      <4>2. p \notin Windows(pre)
        BY <1>2 DEF Windows, When
      <4> QED BY <4>1, <4>2, LinuxParts, BSDParts, DarwinParts, SolarisParts
             DEF Active, PosixActive, BSDSystems
    <3>2. Found(pre, name)
      BY <3>1, BackendExports, KnownOneSystem, KnownOneArch, PosixUsesOf
    <3>3. PICK p \in Exporters(pre, name) : TRUE
      BY <3>2, FS_EmptySet DEF Found
    <3>4. name \notin {"print", "exit"}
      OBVIOUS
    <3>5. p \notin Windows(pre) \union Posix(pre)
      BY <3>3, <3>4, WrapperParts DEF Exporters
    <3>6. name \notin p.code
      <4>1. p \in Linux(pre) => p.code = {"syscall3", "syscall6"}
        BY DEF Linux, When, Partition
      <4>2. p \in BSD(pre) => p.code \subseteq {"syscall3", "syscall6", "syscall7"}
        BY BSDParts DEF BSDNumbersPart, BSDArchPart, BSDSystemPart, Partition, Syscall7, When
      <4>3. p \in Darwin(pre) => p.code \subseteq {"syscall3", "syscall6", "syscall7"}
        BY DarwinParts DEF DarwinNumbersPart, DarwinArchPart, Partition
      <4>4. p \in Solaris(pre) => p.code \subseteq {"syscall3", "syscall6"}
        BY SolarisParts DEF SolarisNumbersPart, SolarisArchPart, Partition
      <4> QED BY <3>3, <3>5, <4>1, <4>2, <4>3, <4>4 DEF Exporters, Active
    <3> QED BY <3>3, <3>5, <3>6 DEF Exporters, Exported
  <2>2. number = KernelNumbers(m)[IF name = "SYS_WRITE" THEN 1 ELSE 2]
    BY <2>1, NumbersOf
  <2>3. KernelNumbers(m)[1] # KernelNumbers(m)[2]
    <3>1. PICK p \in Active(pre) : name \in DOMAIN p.numbers
      BY <2>1
    <3>2. CASE m.sys \in {"linux", "android"}
      <4>1. p \in Linux(pre)
        <5>1. DOMAIN NoNumbers = {}
          BY DEF NoNumbers
        <5>2. p \notin Windows(pre)
          BY <1>2 DEF Windows, When
        <5> QED BY <3>1, <3>2, <5>2, SystemOf, BSDParts, DarwinParts, SolarisParts DEF Active
      <4>2. PICK a \in DOMAIN LinuxNumbers : ARCH(pre, a)
        BY <4>1, LinuxParts
      <4>3. DOMAIN LinuxNumbers \subseteq DOMAIN ArchMacro
        BY DEF LinuxNumbers, ArchMacro
      <4>4. KernelNumbers(m) = <<LinuxNumbers[a].SYS_WRITE, LinuxNumbers[a].SYS_EXIT>>
        BY <3>2, <4>2, <4>3, CpuOf, LinuxDemo
      <4>5. LinuxNumbers[a].SYS_WRITE # LinuxNumbers[a].SYS_EXIT
        BY DEF LinuxNumbers, Numbers, Numbers2
      <4> QED BY <4>4, <4>5
    <3>3. CASE m.sys \notin {"linux", "android"}
      BY <3>3 DEF KernelNumbers, HelloMacOS, HelloFreeBSD, HelloSolaris
    <3> QED BY <3>2, <3>3
  <2> HIDE DEF number
  <2> QED BY <1>2, <2>2, <2>3 DEF Service, number
<1> QED BY <1>1, <1>2

-----------------------------------------------------------------------------
(* From the build to the exit.  The invariant adds what the process has done *)
(* so far: whoever has read a note has read the one of its own system, which *)
(* is the first, and the services are the calls of ib_start so far.          *)

LEMMA AllCompile ==
    ASSUME BuildInv, config \in Working, NEW t \in Target, Compile(t)
    PROVE  Compiles(t)
<1> DEFINE m == MachineOf(config)
<1>1. config \in Config /\ Known(m) /\ Backends(Predefined(m)) # {}
  BY BackendAssumption, WorkingAssumption, MachineKnown
<1>2. \A name \in BackendNames(Predefined(m)) : Found(Predefined(m), name)
  BY <1>1, BackendExports, KnownOneSystem, KnownOneArch
<1>3. machine[t] = m /\ (t = "ib_app" => machine["ib"] = m)
  BY DEF Compile, BuildInv, Target
<1> HIDE DEF m
<1> QED BY <1>2, <1>3 DEF Compiles, BackendNames

LEMMA AllLink ==
    ASSUME BuildInv, Link
    PROVE  stage' = [stage EXCEPT !["ib_app"] = "linked"]
<1> DEFINE m == MachineOf(config)
           pre == Predefined(m)
<1>1. /\ config \in Config /\ machine["ib_app"] = m /\ info["ib_app"] = detect(config)
  BY DEF Link, BuildInv, Target
<1>2. "windows" \in Backends(pre) => OS(pre, "WINDOWS")
  <2> SUFFICES ASSUME NEW p \in Active(pre), p.name[1] = "windows" PROVE OS(pre, "WINDOWS")
    BY DEF Backends
  <2>1. /\ \A a : LinuxPart(a).name[1] = "linux"
        /\ BSDNumbersPart.name[1] = "bsd" /\ DarwinNumbersPart.name[1] = "darwin"
        /\ SolarisNumbersPart.name[1] = "solaris"
        /\ \A a : /\ BSDArchPart(pre, a).name[1] = "bsd" /\ BSDSystemPart(a).name[1] = "bsd"
                  /\ DarwinArchPart(a).name[1] = "darwin"
                  /\ SolarisArchPart(a).name[1] = "solaris"
    BY DEF LinuxPart, BSDNumbersPart, BSDArchPart, BSDSystemPart, DarwinNumbersPart,
           DarwinArchPart, SolarisNumbersPart, SolarisArchPart, Partition
  <2>2. p \in Windows(pre)
    BY <2>1, LinuxParts, BSDParts, DarwinParts, SolarisParts DEF Active
  <2> QED BY <2>2 DEF Windows, When
<1>3. OS(pre, "WINDOWS") => detect(config).os \in {"windows", "mingw"}
  <2>1. OS(pre, "WINDOWS") => m.sys \in {"windows", "mingw"}
    BY <1>1, MachineKnown, SystemOf
  <2>2. detect(config).os = ScriptOS(m.sys)
    BY <1>1, OSNamed DEF detect
  <2> QED BY <2>1, <2>2 DEF ScriptOS
<1> HIDE DEF m, pre
<1>4. "windows" \in Backends(Predefined(m)) => detect(config).os \in {"windows", "mingw"}
  BY <1>2, <1>3 DEF pre
<1> QED BY <1>1, <1>4 DEF Link, Reaches

Progress ==
    /\ \A t \in Target : stage[t] # "error"
    /\ proc \in {"none", "branding", "running", "exited"}
    /\ proc = "branding" => Sys \in DOMAIN Brand /\ (at # 0 => branded)
    /\ served = IF proc \in {"none", "branding"} THEN << >>
                ELSE IF proc = "exited" THEN <<"SYS_WRITE", "SYS_EXIT">>
                ELSE IF served = << >> THEN << >> ELSE <<"SYS_WRITE">>

RunInv == EntryInv /\ NotesInv /\ (config \in Working => Progress)

LEMMA FirstNote ==
    ASSUME NEW m, Known(m), m.sys \in DOMAIN Brand
    PROVE  LET notes == ib_abi_note(Predefined(m))
           IN  /\ Len(notes) >= 1
               /\ <<notes[1].owner, notes[1].namesz>> = Brand[m.sys] /\ notes[1].type = 1
<1> DEFINE pre == Predefined(m)
<1>1. \/ m.sys = "freebsd" \/ m.sys = "openbsd" \/ m.sys = "netbsd"
  BY DEF Brand
<1>2. \A f \in DOMAIN OSMacro :
         OS(pre, f) <=> \/ m.sys \in DOMAIN OSFeature /\ f = OSFeature[m.sys]
                        \/ m.sys = "android" /\ f = "LINUX"
  BY <1>1, SystemAgrees DEF ScriptOS
<1>3. /\ OS(pre, "FREEBSD") <=> m.sys = "freebsd"
      /\ OS(pre, "OPENBSD") <=> m.sys = "openbsd"
      /\ OS(pre, "NETBSD") <=> m.sys = "netbsd"
  BY <1>1, <1>2 DEF OSFeature, OSMacro
<1>4. CASE m.sys = "freebsd"
  <2>1. ib_abi_note(pre) = <<Note("FreeBSD", 8, 4, 1, 1203000), Note("FreeBSD", 8, 4, 2, 0),
                             Note("FreeBSD", 8, 4, 4, 0)>>
    BY <1>3, <1>4 DEF ib_abi_note
  <2> QED BY <1>4, <2>1 DEF Note, Brand
<1>5. CASE m.sys = "openbsd"
  <2>1. ib_abi_note(pre) = <<Note("OpenBSD", 8, 4, 1, 0)>>
    BY <1>3, <1>5 DEF ib_abi_note
  <2> QED BY <1>5, <2>1 DEF Note, Brand
<1>6. CASE m.sys = "netbsd"
  <2>1. ib_abi_note(pre) = <<Note("NetBSD", 7, 4, 1, 700000000)>>
    BY <1>3, <1>6 DEF ib_abi_note
  <2> QED BY <1>6, <2>1 DEF Note, Brand
<1> QED BY <1>1, <1>4, <1>5, <1>6

LEMMA BuildProgress ==
    ASSUME RunInv, config \in Working, Progress,
           Load \/ Link \/ (\E t \in Target : Configure(t) \/ Compile(t))
    PROVE  Progress'
<1>1. BuildInv /\ NotesInv
  BY DEF RunInv, EntryInv
<1>2. PICK t \in Target :
         /\ \E s \in {"loaded", "configured", "built", "linked"} :
               stage' = [stage EXCEPT ![t] = s]
         /\ t = "ib_app" => stage[t] # "linked"
         /\ machine' = machine \/ (\E m : machine' = [machine EXCEPT ![t] = m])
  <2>1. CASE Load
    BY <2>1 DEF Load, Reaches, Target
  <2>2. CASE Link
    BY <1>1, <2>2, AllLink DEF Link, Target
  <2>3. ASSUME NEW t \in Target, Configure(t)
        PROVE  /\ stage' = [stage EXCEPT ![t] = "configured"] /\ stage[t] # "linked"
               /\ \E m : machine' = [machine EXCEPT ![t] = m]
    BY <2>3 DEF Configure, Reaches
  <2>4. ASSUME NEW t \in Target, Compile(t)
        PROVE  /\ stage' = [stage EXCEPT ![t] = "built"] /\ stage[t] # "linked"
               /\ machine' = machine
    BY <1>1, <2>4, AllCompile DEF Compile, Reaches
  <2> QED BY <2>1, <2>2, <2>3, <2>4
<1>3. \A u \in Target : stage'[u] # "error"
  BY <1>1, <1>2 DEF Progress, BuildInv
<1>4. UNCHANGED <<proc, served, at, branded>>
  BY DEF Load, Link, Configure, Compile
<1>5. proc = "branding" => Sys' = Sys
  <2> SUFFICES ASSUME proc = "branding" PROVE Sys' = Sys
    OBVIOUS
  <2>1. t # "ib_app"
    BY <1>1, <1>2 DEF NotesInv
  <2>2. machine'["ib_app"] = machine["ib_app"]
    BY <1>1, <1>2, <2>1 DEF BuildInv, Target
  <2> QED BY <2>2 DEF Sys
<1> QED BY <1>3, <1>4, <1>5 DEF Progress

LEMMA PairEqual ==
    ASSUME NEW S, NEW r \in Seq(S), NEW q \in Seq(S), Len(r) = 2, Len(q) = 2,
           r[1] = q[1], r[2] = q[2]
    PROVE  r = q
<1>1. Len(r) = Len(q) /\ \A i \in 1 .. Len(r) : r[i] = q[i]
  OBVIOUS
<1> QED BY <1>1, SeqEqual

LEMMA AppendToOne ==
    ASSUME NEW x, NEW y
    PROVE  Append(<<x>>, y) = <<x, y>>
<1>1. Append(<<x>>, y) \in Seq({x, y}) /\ <<x, y>> \in Seq({x, y})
  <2>1. \A S : \A q \in Seq(S), z \in S : Append(q, z) \in Seq(S)
    OBVIOUS
  <2>2. <<x>> \in Seq({x, y}) /\ <<x, y>> \in Seq({x, y}) /\ y \in {x, y}
    OBVIOUS
  <2> QED BY <2>1, <2>2, Zenon
<1>2. Len(Append(<<x>>, y)) = 2 /\ Len(<<x, y>>) = 2
  OBVIOUS
<1>3. Append(<<x>>, y)[1] = <<x, y>>[1]
  OBVIOUS
<1>4. Append(<<x>>, y)[2] = <<x, y>>[2]
  OBVIOUS
<1> QED BY <1>1, <1>2, <1>3, <1>4, PairEqual, Zenon

LEMMA RunProgress ==
    ASSUME RunInv, config \in Working, Progress, Exec \/ ReadNote \/ EndNotes \/ Run
    PROVE  Progress'
<1> DEFINE m == MachineOf(config)
<1>1. /\ BuildInv /\ NotesInv /\ EntryIsStart
      /\ UNCHANGED <<config, machine, stage>> /\ Sys' = Sys /\ Target' = Target
  BY DEF RunInv, EntryInv, Exec, ReadNote, EndNotes, Run, Serve, Sys
<1>2. Known(m) /\ Backends(Predefined(m)) # {}
  BY BackendAssumption, WorkingAssumption, MachineKnown
<1>3. stage["ib_app"] = "linked" /\ machine["ib_app"] = m
  BY <1>1 DEF Exec, ReadNote, EndNotes, Run, Serve, NotesInv, BuildInv, Target
<1>4. Section = ib_abi_note(Predefined(m)) /\ Sys = m.sys
  BY <1>3 DEF Section, Sys
<1> HIDE DEF m
<1>5. CASE Exec
  <2>1. entry # None
    <3>0. \E o \in options : config.linker \in o.tools
      BY <1>1, <1>3, LinkerAssumption DEF BuildInv
    <3>1. entry \in {<<prefix, "ib_start">> : prefix \in {"", "_"}}
      BY <1>1, <1>3, <3>0 DEF EntryIsStart, Decorated
    <3> QED BY <3>1, NoneAssumption
  <2>2. /\ proc = "none" /\ proc' = IF Sys \in DOMAIN Brand THEN "branding" ELSE "running"
        /\ UNCHANGED <<at, served>> /\ at = 0
    BY <1>1, <1>5, <2>1 DEF Exec, NotesInv
  <2> QED BY <1>1, <2>2 DEF Progress
<1>6. CASE ReadNote
  <2>1. /\ proc = "branding" /\ served' = served /\ at < NoteBytes * Len(Section)
        /\ Sys \in DOMAIN Brand /\ (at # 0 => branded)
    BY <1>6 DEF ReadNote, Progress
  <2>2. PICK k \in 0 .. Len(Section) : at = NoteBytes * k
    BY <1>1, <2>1 DEF NotesInv
  <2>3. at % NoteBytes = 0 /\ (at = 0 => at \div NoteBytes + 1 = 1)
    BY <2>2, SectionLength DEF Section, NoteBytes
  <2>4. /\ proc' = proc
        /\ branded' = (branded \/ (/\ <<Section[at \div NoteBytes + 1].owner,
                                         Section[at \div NoteBytes + 1].namesz>> = Brand[Sys]
                                   /\ Section[at \div NoteBytes + 1].type = 1))
    BY <1>6, <2>3 DEF ReadNote
  <2>5. branded'
    BY <1>2, <1>4, <2>1, <2>3, <2>4, FirstNote
  <2> QED BY <1>1, <2>1, <2>4, <2>5 DEF Progress
<1>7. CASE EndNotes
  <2>1. /\ proc = "branding" /\ served' = served /\ at >= NoteBytes * Len(Section)
        /\ Sys \in DOMAIN Brand /\ (at # 0 => branded)
    BY <1>7 DEF EndNotes, Progress
  <2>2. PICK k \in 0 .. Len(Section) : at = NoteBytes * k
    BY <1>1, <2>1 DEF NotesInv
  <2>3. Len(Section) >= 1 /\ Len(Section) \in Nat
    BY <1>2, <1>4, <2>1, FirstNote, SectionLength
  <2>4. at = NoteBytes * Len(Section) /\ at # 0
    BY <2>1, <2>2, <2>3 DEF NoteBytes
  <2>5. proc' = "running"
    BY <1>7, <2>1, <2>4 DEF EndNotes
  <2>6. served = << >>
    BY <2>1 DEF Progress
  <2> QED BY <1>1, <2>1, <2>5, <2>6 DEF Progress
<1>8. ASSUME served = << >>, Serve("SYS_WRITE") PROVE Progress'
  <2>1. proc' = "running" /\ served' = <<"SYS_WRITE">>
    BY <1>2, <1>3, <1>8, ServiceAnswers DEF Serve
  <2> QED BY <1>1, <2>1 DEF Progress
<1>9. ASSUME Len(served) = 1, Serve("SYS_EXIT") PROVE Progress'
  <2>1. proc = "running" /\ proc' = "exited" /\ served' = Append(served, "SYS_EXIT")
    BY <1>2, <1>3, <1>9, ServiceAnswers DEF Serve
  <2>2. served = <<"SYS_WRITE">>
    BY <1>9, <2>1 DEF Progress
  <2>3. served' = <<"SYS_WRITE", "SYS_EXIT">>
    <3>1. served' = Append(<<"SYS_WRITE">>, "SYS_EXIT")
      BY <2>1, <2>2
    <3> QED BY <3>1, AppendToOne, Zenon
  <2> QED BY <1>1, <2>1, <2>3 DEF Progress
<1> QED BY <1>5, <1>6, <1>7, <1>8, <1>9 DEF Run

LEMMA RunInvInductive == RunInv /\ [Next]_vars => RunInv'
<1> SUFFICES ASSUME RunInv, [Next]_vars PROVE RunInv'
  OBVIOUS
<1>1. EntryInv' /\ NotesInv'
  BY EntryInvInductive, NotesInvInductive DEF RunInv
<1>2. config' = config
  BY DEF Next, Load, Configure, Compile, Link, Exec, ReadNote, EndNotes, Run, Serve, vars
<1>3. ASSUME config \in Working PROVE Progress'
  <2>1. Progress
    BY <1>3 DEF RunInv
  <2>2. CASE UNCHANGED vars
    <3>1. Sys' = Sys /\ UNCHANGED <<stage, proc, at, branded, served>>
      BY <2>2 DEF vars, Sys
    <3> QED BY <2>1, <3>1 DEF Progress
  <2> QED BY <1>3, <2>1, <2>2, BuildProgress, RunProgress DEF Next
<1> QED BY <1>1, <1>2, <1>3 DEF RunInv

(* For every configuration with a backend, named as its system is named:     *)
(* ib and ib_app compile and link, the system takes the executable for one   *)
(* of its own and finds its start, and write and exit are reached by their   *)
(* numbers, in this order.                                                   *)
THEOREM BuildsRunClean == Spec => []NothingFails
<1>1. Init => RunInv
  <2> SUFFICES ASSUME Init PROVE RunInv
    OBVIOUS
  <2>1. BuildInv /\ EntryIsStart
    BY DEF Init, BuildInv, EntryIsStart, Target
  <2>2. NotesInv
    BY DEF Init, NotesInv, Target
  <2>3. Progress
    BY DEF Init, Progress, Target
  <2> QED BY <2>1, <2>2, <2>3 DEF RunInv, EntryInv
<1>2. RunInv => NothingFails
  BY DEF RunInv, Progress, NothingFails
<1> QED BY <1>1, <1>2, RunInvInductive, PTL DEF Spec

-----------------------------------------------------------------------------
(* Types. *)

TypeInv == BuildInv /\ NotesInv /\ TypeOK

LEMMA DetectTypes ==
    ASSUME NEW c \in Config
    PROVE  /\ detect(c).binfmt \in {"pe", "macho", "wasm", "elf"}
           /\ \A o \in EntryOptions(detect(c)) :
                 o.symbol \in {None, <<"", "ib_start">>, <<"_", "ib_start">>}
<1> DEFINE pi == detect(c)
           symbols == {None, <<"", "ib_start">>, <<"_", "ib_start">>}
<1>1. pi.binfmt \in {"pe", "macho", "wasm", "elf"}
  BY DEF detect, Binfmt
<1>2. pi.symprefix \in {"", "_"}
  BY DEF detect, Symprefix
<1> HIDE DEF pi
<1>3. entry_symbol(pi, "ib_start") \in symbols
  BY <1>2 DEF entry_symbol
<1> HIDE DEF symbols
<1>4. <<"", "ib_start">> \in symbols /\ None \in symbols
  BY DEF symbols
<1>5. \A opt, s, tools : EntryOption(opt, s, tools).symbol = s
  BY DEF EntryOption
<1>6. PICK opt, s, tools : s \in symbols /\ EntryOptions(pi) = {EntryOption(opt, s, tools)}
  <2>1. CASE pi.os = "windows"
    BY <2>1, <1>4 DEF EntryOptions
  <2>2. CASE pi.os # "windows" /\ pi.binfmt = "wasm" /\ pi.os # "mingw"
    BY <2>2, <1>4 DEF EntryOptions
  <2>3. CASE pi.os # "windows" /\ (pi.os = "mingw" \/ pi.binfmt # "wasm")
    BY <2>3, <1>3 DEF EntryOptions
  <2> QED BY <2>1, <2>2, <2>3
<1>7. \A o \in EntryOptions(pi) : o.symbol \in symbols
  BY <1>5, <1>6
<1> QED BY <1>1, <1>7 DEF pi, symbols

LEMMA ServiceTypes ==
    ASSUME NEW m, NEW name \in {"SYS_WRITE", "SYS_EXIT"}
    PROVE  Service(m, name) \in {"SYS_WRITE", "SYS_EXIT", "other"}
BY DEF Service

LEMMA NoteTypes ==
    ASSUME NotesInv, at \in Nat, at % 4 = 0, ReadNote
    PROVE  at' \in Nat /\ at' % 4 = 0
<1>1. CASE at % NoteBytes # 0
  BY <1>1 DEF ReadNote
<1>2. CASE at % NoteBytes = 0
  <2>1. PICK k \in 0 .. Len(Section) : at = NoteBytes * k
    BY DEF ReadNote, NotesInv
  <2>2. Len(Section) \in Nat /\ at < NoteBytes * Len(Section)
    BY SectionLength DEF Section, ReadNote
  <2>3. k + 1 \in 1 .. Len(Section) /\ at \div NoteBytes + 1 = k + 1
    BY <2>1, <2>2 DEF NoteBytes
  <2>4. at' = at + 12 + Align4(Section[k + 1].namesz) + Align4(Section[k + 1].descsz)
    BY <1>2, <2>3 DEF ReadNote
  <2>5. 12 + Align4(Section[k + 1].namesz) + Align4(Section[k + 1].descsz) = NoteBytes
    BY <2>3, NoteSizes DEF Section
  <2>6. Align4(Section[k + 1].namesz) \in Int /\ Align4(Section[k + 1].descsz) \in Int
    <3>1. Section[k + 1].namesz \in Nat /\ Section[k + 1].descsz \in Nat
      BY <2>3 DEF Section, ib_abi_note, Note
    <3> QED BY <3>1 DEF Align4
  <2>7. at' = at + NoteBytes
    BY <2>4, <2>5, <2>6 DEF NoteBytes
  <2> QED BY <2>7 DEF NoteBytes
<1> QED BY <1>1, <1>2

LEMMA TypeInvInductive == TypeInv /\ [Next]_vars => TypeInv'
<1> SUFFICES ASSUME TypeInv, [Next]_vars PROVE TypeInv'
  OBVIOUS
<1>1. BuildInv' /\ NotesInv'
  BY BuildInvInductive, NotesInvInductive DEF TypeInv
<1>2. /\ config' \in Config
      /\ \A t \in Target : info'[t] # None => info'[t].binfmt \in {"pe", "macho", "wasm", "elf"}
      /\ \A o \in options' : o.symbol \in {None, <<"", "ib_start">>, <<"_", "ib_start">>}
  <2>1. config' \in Config /\ options' \in {{}, EntryOptions(detect(config'))}
        /\ \A t \in Target : info'[t] \in {None, detect(config')}
    BY <1>1 DEF BuildInv
  <2> QED BY <2>1, DetectTypes
<1> DEFINE Rest ==
      /\ stage \in [Target -> {"new", "loaded", "configured", "built", "linked", "error"}]
      /\ entry \in {None} \union {<<prefix, "ib_start">> : prefix \in {"", "_"}}
      /\ proc \in {"none", "branding", "running", "exited", "killed"}
      /\ at \in Nat /\ at % 4 = 0
      /\ branded \in BOOLEAN
      /\ served \in Seq({"SYS_WRITE", "SYS_EXIT", "other"})
<1>3. Rest
  BY DEF TypeInv, TypeOK
<1>4. Rest'
  <2>1. CASE Load
    BY <1>3, <2>1 DEF Load, Reaches
  <2>2. ASSUME NEW t \in Target, Configure(t) PROVE Rest'
    BY <1>3, <2>2 DEF Configure, Reaches
  <2>3. ASSUME NEW t \in Target, Compile(t) PROVE Rest'
    BY <1>3, <2>3 DEF Compile, Reaches
  <2>4. CASE Link
    BY <1>3, <2>4 DEF Link, Reaches, Decorated
  <2>5. CASE Exec
    BY <1>3, <2>5 DEF Exec
  <2>6. CASE ReadNote
    <3>1. at' \in Nat /\ at' % 4 = 0
      BY <1>3, <2>6, NoteTypes DEF TypeInv
    <3>2. UNCHANGED <<stage, entry, served>> /\ proc' \in {"branding", "killed"}
          /\ branded' \in BOOLEAN
      BY <1>3, <2>6 DEF ReadNote
    <3> QED BY <1>3, <3>1, <3>2
  <2>7. CASE EndNotes
    BY <1>3, <2>7 DEF EndNotes
  <2>8. ASSUME NEW name \in {"SYS_WRITE", "SYS_EXIT"}, Serve(name) PROVE Rest'
    <3> DEFINE s == Service(machine["ib_app"], name)
    <3>1. s \in {"SYS_WRITE", "SYS_EXIT", "other"}
      BY ServiceTypes
    <3>2. served' = Append(served, s)
      BY <2>8 DEF Serve
    <3>3. /\ UNCHANGED <<stage, entry, at, branded>>
          /\ proc' \in {"exited", "killed", "running"}
      BY <2>8 DEF Serve
    <3> HIDE DEF s
    <3>4. served' \in Seq({"SYS_WRITE", "SYS_EXIT", "other"})
      <4>1. \A S : \A q \in Seq(S), x \in S : Append(q, x) \in Seq(S)
        OBVIOUS
      <4>2. served \in Seq({"SYS_WRITE", "SYS_EXIT", "other"})
        BY <1>3
      <4> QED BY <3>1, <3>2, <4>1, <4>2, Zenon
    <3> QED BY <1>3, <3>3, <3>4
  <2>9. CASE UNCHANGED vars
    BY <1>3, <2>9 DEF vars
  <2> QED BY <2>1, <2>2, <2>3, <2>4, <2>5, <2>6, <2>7, <2>8, <2>9 DEF Next, Run
<1> QED BY <1>1, <1>2, <1>4 DEF TypeInv, TypeOK

(* Scripts, compiler, linker and system hand each other values of the kinds  *)
(* they take, and the offset of the note reader stays a multiple of four.    *)
THEOREM TypeCorrect == Spec => []TypeOK
<1>1. Init => TypeInv
  <2> SUFFICES ASSUME Init PROVE TypeInv
    OBVIOUS
  <2>1. BuildInv
    BY DEF Init, BuildInv, Target
  <2>2. NotesInv
    BY DEF Init, NotesInv, Target
  <2>3. config \in Config /\ options = {} /\ \A t \in Target : info[t] = None
    BY DEF Init
  <2>4. stage \in [Target -> {"new", "loaded", "configured", "built", "linked", "error"}]
    BY DEF Init, Target
  <2>5. at \in Nat /\ at % 4 = 0
    BY DEF Init
  <2>6. served \in Seq({"SYS_WRITE", "SYS_EXIT", "other"})
    BY DEF Init
  <2>7. entry = None /\ proc = "none" /\ branded = FALSE
    BY DEF Init
  <2> QED BY <2>1, <2>2, <2>3, <2>4, <2>5, <2>6, <2>7 DEF TypeInv, TypeOK
<1>2. TypeInv => TypeOK
  BY DEF TypeInv
<1> QED BY <1>1, <1>2, TypeInvInductive, PTL DEF Spec
=============================================================================
