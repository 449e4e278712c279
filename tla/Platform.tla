------------------------------ MODULE Platform ------------------------------
(***************************************************************************)
(* A build of ib_app, from `xmake f` to the exit of the program: the       *)
(* scripts derive everything from the plat and the triple (platform.lua,   *)
(* xmake.lua), the compiler from the macros it predefines (Partitions),    *)
(* the linker from the options, and the system from the notes and the      *)
(* entry point of the executable.  Nothing but the target ties these       *)
(* together: each party concludes from it on its own.                      *)
(* A definition whose name ends in Mutant is a bug the runs must find; see *)
(* the README.                                                             *)
(***************************************************************************)
EXTENDS Integers, Sequences, FiniteSets, Partitions

CONSTANTS
    Config,     \* the configurations: [plat, arch, cross, cxx, linker,
                \* native], where cross is a triple or None, cxx and linker
                \* are xmake's names of the tools, and native is the machine
                \* the compiler targets unless told otherwise
    Working,    \* those that are expected to give a program that runs
    None

\* A triple is [keys, token, machine]: the keys of OSMAP its text contains,
\* its first token, and the machine clang takes it for, [sys, cpu].

ASSUME WorkingAssumption == Working \subseteq Config
ASSUME NoneAssumption == None \notin {<<prefix, "ib_start">> : prefix \in {"", "_"}}

VARIABLES
    config,     \* the configuration
    info,       \* what platform.get has stored with each target, or None
    options,    \* the entry options ib.entrypoint added to ib_app
    machine,    \* the machine each target is compiled for, or None
    stage,      \* how far each target is: "new", "loaded", "configured",
                \* "built", "linked" or "error"
    entry,      \* the symbol the executable starts at, or None
    proc,       \* the process: "none", "branding", "running", "exited" or
                \* "killed"
    at,         \* offset of the next note the system reads
    branded,    \* whether it has found one of its own
    served      \* the services the process has got from the system

vars == <<config, info, options, machine, stage, entry, proc, at, branded, served>>

-----------------------------------------------------------------------------
(* platform.lua *)

\* Linux looked for before Android.
LinuxFirstMutant ==
    << <<"linux", "linux">>, <<"android", "android">>, <<"emscripten", "wasm">>,
       <<"wasi", "wasm">>, <<"wasm", "wasm">>, <<"freebsd", "freebsd">>,
       <<"openbsd", "openbsd">>, <<"netbsd", "netbsd">>, <<"dragonfly", "dragonfly">>,
       <<"solaris", "solaris">>, <<"darwin", "macos">>, <<"macos", "macos">>,
       <<"ios", "iphoneos">>, <<"watchos", "watchos">>, <<"tvos", "appletvos">>,
       <<"apple", "macos">>, <<"mingw", "mingw">>, <<"cygwin", "mingw">>,
       <<"windows", "windows">>, <<"uefi", "uefi">>, <<"none", "baremetal">>,
       <<"elf", "baremetal">> >>

OSMAP ==
    << <<"android", "android">>, <<"emscripten", "wasm">>, <<"wasi", "wasm">>,
       <<"wasm", "wasm">>, <<"freebsd", "freebsd">>, <<"openbsd", "openbsd">>,
       <<"netbsd", "netbsd">>, <<"dragonfly", "dragonfly">>, <<"solaris", "solaris">>,
       <<"darwin", "macos">>, <<"macos", "macos">>, <<"ios", "iphoneos">>,
       <<"watchos", "watchos">>, <<"tvos", "appletvos">>, <<"apple", "macos">>,
       <<"linux", "linux">>, <<"mingw", "mingw">>, <<"cygwin", "mingw">>,
       <<"windows", "windows">>, <<"uefi", "uefi">>, <<"none", "baremetal">>,
       <<"elf", "baremetal">> >>

PLAT_ALIAS ==
    [macosx |-> "macos", iphoneos |-> "iphoneos", appletvos |-> "appletvos",
     watchos |-> "watchos", android |-> "android", bsd |-> "freebsd", msys |-> "mingw"]

ARCH_ALIAS ==
    [aarch64 |-> "arm64", arm64 |-> "arm64", amd64 |-> "x64", x86_64 |-> "x64",
     i386 |-> "x86", i486 |-> "x86", i586 |-> "x86", i686 |-> "x86", arm |-> "arm",
     armv7 |-> "arm", riscv64 |-> "riscv64", wasm32 |-> "wasm32"]

Alias(map, x) == IF x \in DOMAIN map THEN map[x] ELSE x

\* The first key of OSMAP that the triple contains.
os_from_triple(tri) ==
    LET hits == {i \in DOMAIN OSMAP : OSMAP[i][1] \in tri.keys}
    IN  IF hits = {} THEN "baremetal"
        ELSE OSMAP[CHOOSE i \in hits : \A j \in hits : i <= j][2]

arch_from_triple(tri) == Alias(ARCH_ALIAS, tri.token)

\* No target of the repository sets ib.triple, so that triple() is --cross.
ByTriple(c) == c.plat \in {"cross", "generic"}

OSName(c) ==
    IF ByTriple(c) THEN IF c.cross = None THEN "baremetal" ELSE os_from_triple(c.cross)
    ELSE Alias(PLAT_ALIAS, c.plat)

ArchName(c) == IF ByTriple(c) /\ c.cross # None THEN arch_from_triple(c.cross) ELSE c.arch

Binfmt(os) ==
    IF os \in {"windows", "mingw"} THEN "pe"
    ELSE IF os \in {"macos", "iphoneos", "watchos", "appletvos"} THEN "macho"
    ELSE IF os = "wasm" THEN "wasm" ELSE "elf"

\* Mach-O only.
NoPEPrefixMutant(binfmt, arch) == IF binfmt = "macho" THEN "_" ELSE ""

Symprefix(binfmt, arch) ==
    IF binfmt = "macho" \/ (binfmt = "pe" /\ arch \in {"x86", "i386", "i686"})
    THEN "_" ELSE ""

detect(c) ==
    LET os == OSName(c)
        binfmt == Binfmt(os)
    IN  [arch |-> ArchName(c), triple |-> c.cross, os |-> os, binfmt |-> binfmt,
         symprefix |-> Symprefix(binfmt, ArchName(c))]

\* get: detected once for each target, then kept.
get(target) == IF info[target] = None THEN detect(config) ELSE info[target]

\* The prefix appended.
SuffixMutant(pi, name) == <<name, pi.symprefix>>

entry_symbol(pi, name) == <<pi.symprefix, name>>

-----------------------------------------------------------------------------
(* xmake.lua.  The scripts of all targets run, then they are configured,    *)
(* then compiled; ib_app depends on ib.                                     *)

Target == {"ib", "ib_app"}

gnu == {"gcc", "gxx", "clang", "clangxx"}

EntryOption(opt, symbol, tools) == [opt |-> opt, symbol |-> symbol, tools |-> tools]

\* Branches of ib.entrypoint; the option takes effect with the linkers named.
EntryOptions(pi) ==
    LET decorated == entry_symbol(pi, "ib_start")
    IN  IF pi.os = "windows"
        THEN {EntryOption("/ENTRY", <<"", "ib_start">>, {"link", "clang"})}
        ELSE IF pi.os = "mingw" THEN {EntryOption("-e", decorated, gnu)}
        ELSE IF pi.binfmt = "macho"
        THEN {EntryOption("-e", decorated, {"clang", "clangxx"})}
        ELSE IF pi.binfmt = "wasm" THEN {EntryOption("--no-entry", None, gnu)}
        ELSE {EntryOption("-e", decorated, gnu)}

Init ==
    /\ config \in Config
    /\ info = [t \in Target |-> None]
    /\ options = {}
    /\ machine = [t \in Target |-> None]
    /\ stage = [ib |-> "loaded", ib_app |-> "new"]
    /\ entry = None
    /\ proc = "none"
    /\ at = 0
    /\ branded = FALSE
    /\ served = << >>

Reaches(t, s) == stage' = [stage EXCEPT ![t] = s]

\* on_load of ib.entrypoint, a rule ib does not have.
Load ==
    /\ stage["ib_app"] = "new"
    /\ info' = [info EXCEPT !["ib_app"] = get("ib_app")]
    /\ options' = EntryOptions(info'["ib_app"])
    /\ Reaches("ib_app", "loaded")
    /\ UNCHANGED <<config, machine, entry, proc, at, branded, served>>

\* on_config of ib.clang.target: clang is told the triple, if there is one.
Configure(t) ==
    /\ stage[t] = "loaded" /\ stage["ib_app"] # "new"
    /\ IF config.cxx \in {"clang", "clangxx"}
       THEN /\ info' = [info EXCEPT ![t] = get(t)]
            /\ machine' = [machine EXCEPT ![t] =
                             IF info'[t].triple = None THEN config.native
                             ELSE info'[t].triple.machine]
       ELSE /\ machine' = [machine EXCEPT ![t] = config.native]
            /\ UNCHANGED info
    /\ Reaches(t, "configured")
    /\ UNCHANGED <<config, options, entry, proc, at, branded, served>>

-----------------------------------------------------------------------------
(* The compiler.  What it predefines is clang's doing; with an MSVC target  *)
(* the architecture goes by Microsoft's macros too, and only they are used. *)

SysMacros ==
    [windows |-> {"_WIN32"}, mingw |-> {"_WIN32"},
     android |-> {"__ANDROID__", "__linux__"}, linux |-> {"__linux__"},
     macos |-> {OSMacro.MACOS}, ios |-> {OSMacro.IOS},
     freebsd |-> {"__FreeBSD__"}, openbsd |-> {"__OpenBSD__"}, netbsd |-> {"__NetBSD__"},
     dragonfly |-> {"__DragonFly__"}, solaris |-> {"__sun__"}, wasm |-> {}]

CpuMacros ==
    [amd64 |-> {"__amd64__"}, i386 |-> {"__i386__"}, aarch64 |-> {"__aarch64__"},
     arm |-> {"__arm__"}, ppc64 |-> {"__powerpc64__"}, mips64 |-> {"__mips64"},
     riscv64 |-> {"__riscv 64"}, s390x |-> {"__s390x__"},
     loongarch64 |-> {"__loongarch64"}, sparc64 |-> {"__sparc__", "__arch64__"},
     wasm32 |-> {}]

MSVCMacros ==
    [amd64 |-> {"_M_AMD64"}, i386 |-> {"_M_IX86"}, aarch64 |-> {"_M_ARM64"},
     arm |-> {"_M_ARM"}]

Predefined(m) ==
    SysMacros[m.sys] \union (IF m.sys = "windows" THEN MSVCMacros ELSE CpuMacros)[m.cpu]

\* The machines there is a compiler for.
Known(m) ==
    /\ m.sys \in DOMAIN SysMacros
    /\ m.cpu \in DOMAIN (IF m.sys = "windows" THEN MSVCMacros ELSE CpuMacros)

ASSUME KnownAssumption ==
    \A c \in Config : Known(c.native) /\ (c.cross # None => Known(c.cross.machine))

-----------------------------------------------------------------------------
(* The words a user names a machine with; the scripts conclude from them     *)
(* what the machine is told.                                                 *)

\* The machine ib_app is compiled for, see Configure.
MachineOf(c) ==
    IF c.cxx \in {"clang", "clangxx"} /\ c.cross # None THEN c.cross.machine ELSE c.native

PlatNames ==
    [windows |-> {"windows"}, mingw |-> {"mingw", "msys"}, android |-> {"android"},
     linux |-> {"linux"}, macos |-> {"macosx"}, ios |-> {"iphoneos"}, freebsd |-> {"bsd"},
     openbsd |-> {}, netbsd |-> {}, dragonfly |-> {}, solaris |-> {}, wasm |-> {"wasm"}]

TripleNames ==
    [windows |-> {"windows"}, mingw |-> {"mingw", "cygwin"}, android |-> {"android"},
     linux |-> {"linux"}, macos |-> {"darwin", "macos", "apple"}, ios |-> {"ios"},
     freebsd |-> {"freebsd"}, openbsd |-> {"openbsd"}, netbsd |-> {"netbsd"},
     dragonfly |-> {"dragonfly"}, solaris |-> {"solaris"},
     wasm |-> {"emscripten", "wasi", "wasm"}]

\* What a triple may contain besides: a vendor, an object format, a kernel.
Besides(sys) ==
    {"none", "elf"} \union (IF sys = "android" THEN {"linux"}
                            ELSE IF sys = "ios" THEN {"apple"} ELSE {})

CpuNames ==
    [amd64 |-> {"x86_64", "amd64", "x64"}, i386 |-> {"i386", "i686", "x86"},
     aarch64 |-> {"aarch64", "arm64"}, arm |-> {"arm", "armv7"}, riscv64 |-> {"riscv64"}]

NamesSystem(c, sys) ==
    IF ByTriple(c)
    THEN /\ c.cross # None
         /\ c.cross.keys \intersect TripleNames[sys] # {}
         /\ c.cross.keys \subseteq TripleNames[sys] \union Besides(sys)
    ELSE c.plat \in PlatNames[sys]

\* Unknown names are not wrong, but 32-bit PE goes by its own.
NamesCpu(c, m) ==
    LET name == IF ByTriple(c) THEN c.cross.token ELSE c.arch
        old == IF ByTriple(c) THEN {"i486", "i586"} ELSE {}
    IN  /\ \A cpu \in DOMAIN CpuNames : name \in CpuNames[cpu] => cpu = m.cpu
        /\ name \in old => m.cpu = "i386"
        /\ m.sys \in {"windows", "mingw"} /\ m.cpu = "i386" => name \in CpuNames["i386"] \union old

ASSUME NamesAssumption ==
    \A c \in Config : NamesSystem(c, MachineOf(c).sys) /\ NamesCpu(c, MachineOf(c))

\* What is expected to work is what there is a backend for, linked by a linker
\* that ib.entrypoint has an option for.
ASSUME LinkerAssumption ==
    \A c \in Working : \E o \in EntryOptions(detect(c)) : c.linker \in o.tools
ASSUME BackendAssumption == \A c \in Working : Backends(Predefined(MachineOf(c))) # {}

\* A name is found when one partition exports it, and ambiguous when two do.
Found(pre, name) == Cardinality(Exporters(pre, name)) = 1

\* posix.cpp needs its numbers and primitives, main.cpp and crt.cpp need print
\* and exit, and a program can only import modules compiled for its machine.
Compiles(t) ==
    /\ \A name \in IF t = "ib" THEN PosixUses(Predefined(machine[t])) ELSE {"print", "exit"} :
          Found(Predefined(machine[t]), name)
    /\ t = "ib_app" => machine["ib"] = machine[t]

Compile(t) ==
    /\ stage[t] = "configured"
    /\ \A other \in Target : stage[other] \notin {"new", "loaded"}
    /\ t = "ib_app" => stage["ib"] = "built"
    /\ Reaches(t, IF Compiles(t) THEN "built" ELSE "error")
    /\ UNCHANGED <<config, info, options, machine, entry, proc, at, branded, served>>

-----------------------------------------------------------------------------
(* The linker.  Mach-O and PE on i386 prefix C symbols with an underscore;  *)
(* -e wants the symbol as it is in the object, /ENTRY the name in C.        *)

Decorated(m, name) ==
    IF m.sys \in {"macos", "ios"} \/ (m.sys \in {"windows", "mingw"} /\ m.cpu = "i386")
    THEN <<"_", name>> ELSE <<"", name>>

StartsAtStart(o) ==
    /\ config.linker \in o.tools
    /\ \/ o.opt = "-e" /\ o.symbol = Decorated(machine["ib_app"], "ib_start")
       \/ o.opt = "/ENTRY" /\ o.symbol = <<"", "ib_start">>

\* kernel32 is linked for the two PE systems.
Link ==
    /\ stage["ib_app"] = "built"
    /\ entry' = IF \E o \in options : StartsAtStart(o)
                THEN Decorated(machine["ib_app"], "ib_start") ELSE None
    /\ Reaches("ib_app",
          IF "windows" \in Backends(Predefined(machine["ib_app"]))
                => info["ib_app"].os \in {"windows", "mingw"}
          THEN "linked" ELSE "error")
    /\ UNCHANGED <<config, info, options, machine, proc, at, branded, served>>

-----------------------------------------------------------------------------
(* The ABI notes of crt.cpp: three words, a name in eight bytes, one word.  *)

Note(owner, namesz, descsz, type, desc) ==
    [owner |-> owner, namesz |-> namesz, descsz |-> descsz, type |-> type, desc |-> desc]
NoteBytes == 12 + 8 + 4

\* Sizes of the whole record, and a name counted without its NUL.
WholeSizeMutant(pre) ==
    IF OS(pre, "FREEBSD")
    THEN <<Note("FreeBSD", 8, 24, 1, 1203000), Note("FreeBSD", 8, 24, 2, 0),
           Note("FreeBSD", 8, 24, 4, 0)>>
    ELSE IF OS(pre, "OPENBSD") THEN <<Note("OpenBSD", 8, 4, 1, 0)>>
    ELSE IF OS(pre, "NETBSD") THEN <<Note("NetBSD", 7, 4, 1, 700000000)>>
    ELSE << >>

ib_abi_note(pre) ==
    IF OS(pre, "FREEBSD")
    THEN <<Note("FreeBSD", 8, 4, 1, 1203000), Note("FreeBSD", 8, 4, 2, 0),
           Note("FreeBSD", 8, 4, 4, 0)>>
    ELSE IF OS(pre, "OPENBSD") THEN <<Note("OpenBSD", 8, 4, 1, 0)>>
    ELSE IF OS(pre, "NETBSD") THEN <<Note("NetBSD", 7, 4, 1, 700000000)>>
    ELSE << >>

Section == ib_abi_note(Predefined(machine["ib_app"]))

\* The system's side: the systems that want a note to know their own programs
\* by, the owner's name and its length with the NUL.
Brand == [freebsd |-> <<"FreeBSD", 8>>, openbsd |-> <<"OpenBSD", 8>>,
          netbsd |-> <<"NetBSD", 7>>]

Align4(n) == 4 * ((n + 3) \div 4)

Sys == machine["ib_app"].sys

\* Starting the executable.
Exec ==
    /\ stage["ib_app"] = "linked" /\ proc = "none"
    /\ proc' = IF entry = None THEN "killed"
               ELSE IF Sys \in DOMAIN Brand THEN "branding" ELSE "running"
    /\ UNCHANGED <<config, info, options, machine, stage, entry, at, branded, served>>

\* The system reads the header at `at` and goes on behind the note.
ReadNote ==
    /\ proc = "branding" /\ at < NoteBytes * Len(Section)
    /\ IF at % NoteBytes = 0
       THEN LET n == Section[at \div NoteBytes + 1] IN
            /\ at' = at + 12 + Align4(n.namesz) + Align4(n.descsz)
            /\ branded' = (branded \/ (<<n.owner, n.namesz>> = Brand[Sys] /\ n.type = 1))
            /\ UNCHANGED proc
       ELSE proc' = "killed" /\ UNCHANGED <<at, branded>>
    /\ UNCHANGED <<config, info, options, machine, stage, entry, served>>

EndNotes ==
    /\ proc = "branding" /\ at >= NoteBytes * Len(Section)
    /\ proc' = IF branded /\ at = NoteBytes * Len(Section) THEN "running" ELSE "killed"
    /\ UNCHANGED <<config, info, options, machine, stage, entry, at, branded, served>>

-----------------------------------------------------------------------------
(* ib_start: print, then exit. *)

\* The numbers of write and exit in the programs of syscall_demos/.
HelloLinux(cpu) ==
    CASE cpu = "amd64" -> <<1, 60>>
      [] cpu \in {"aarch64", "riscv64", "loongarch64"} -> <<64, 93>>
      [] cpu = "mips64" -> <<5001, 5058>>
      [] cpu \in {"i386", "arm", "ppc64", "s390x"} -> <<4, 1>>
HelloMacOS == <<33554436, 33554433>>
HelloFreeBSD == <<4, 1>>
HelloSolaris == <<4, 1>>

\* For OpenBSD, NetBSD and DragonFly there is no program.  Their kernels are taken
\* to number these two as FreeBSD's does, on the word of syscall_bsd.cpp:5-6.
KernelNumbers(m) ==
    IF m.sys \in {"linux", "android"} THEN HelloLinux(m.cpu)
    ELSE IF m.sys = "macos" THEN HelloMacOS
    ELSE IF m.sys = "solaris" THEN HelloSolaris ELSE HelloFreeBSD

\* What the system does when asked for SYS_WRITE or SYS_EXIT by its number;
\* kernel32 is asked by name.
Service(m, name) ==
    LET pre == Predefined(m)
        number == (CHOOSE p \in Active(pre) : name \in DOMAIN p.numbers).numbers[name]
    IN  IF OS(pre, "WINDOWS") THEN name
        ELSE IF number = KernelNumbers(m)[1] THEN "SYS_WRITE"
        ELSE IF number = KernelNumbers(m)[2] THEN "SYS_EXIT" ELSE "other"

Serve(name) ==
    /\ proc = "running"
    /\ served' = Append(served, Service(machine["ib_app"], name))
    /\ proc' = IF Service(machine["ib_app"], name) = "SYS_EXIT" THEN "exited"
               ELSE IF name = "SYS_EXIT" THEN "killed" ELSE "running"
    /\ UNCHANGED <<config, info, options, machine, stage, entry, at, branded>>

Run == \/ served = << >> /\ Serve("SYS_WRITE")
       \/ Len(served) = 1 /\ Serve("SYS_EXIT")

Next ==
    \/ Load
    \/ \E t \in Target : Configure(t) \/ Compile(t)
    \/ Link
    \/ Exec \/ ReadNote \/ EndNotes
    \/ Run

Spec == Init /\ [][Next]_vars
FairSpec == Spec /\ WF_vars(Next)
-----------------------------------------------------------------------------
TypeOK ==
    /\ config \in Config
    /\ \A t \in Target : info[t] # None => info[t].binfmt \in {"pe", "macho", "wasm", "elf"}
    /\ \A o \in options : o.symbol \in {None, <<"", "ib_start">>, <<"_", "ib_start">>}
    /\ stage \in [Target -> {"new", "loaded", "configured", "built", "linked", "error"}]
    /\ entry \in {None} \union {<<prefix, "ib_start">> : prefix \in {"", "_"}}
    /\ proc \in {"none", "branding", "running", "exited", "killed"}
    /\ at \in Nat /\ at % 4 = 0
    /\ branded \in BOOLEAN
    /\ served \in Seq({"SYS_WRITE", "SYS_EXIT", "other"})

\* The OS() that belongs to an os of the scripts, and the ARCH() to an arch.
OSFeature ==
    [windows |-> "WINDOWS", mingw |-> "WINDOWS", android |-> "ANDROID", linux |-> "LINUX",
     macos |-> "MACOS", iphoneos |-> "IOS", freebsd |-> "FREEBSD", openbsd |-> "OPENBSD",
     netbsd |-> "NETBSD", dragonfly |-> "DRAGONFLY", solaris |-> "SOLARIS"]
ArchFeature ==
    [x64 |-> "AMD64", x86_64 |-> "AMD64", x86 |-> "I386", i686 |-> "I386",
     arm64 |-> "AARCH64", arm |-> "ARM", riscv64 |-> "RISCV64"]

Agree(pi, m) ==
    LET pre == Predefined(m)
    IN  /\ \A f \in DOMAIN OSMacro :
              OS(pre, f) <=> \/ pi.os \in DOMAIN OSFeature /\ f = OSFeature[pi.os]
                             \/ pi.os = "android" /\ f = "LINUX"
        /\ pi.arch \in DOMAIN ArchFeature =>
              \A f \in DOMAIN ArchMacro : ARCH(pre, f) <=> f = ArchFeature[pi.arch]

(* The scripts and the preprocessor conclude the same from one target: of   *)
(* all the OS() exactly the script's holds, LINUX besides on Android, and   *)
(* of the ARCH() the script's, where it has a name for the architecture.    *)
TargetAgrees ==
    \A t \in Target : info[t] # None /\ machine[t] # None => Agree(info[t], machine[t])

(* "importing all of them is unambiguous": no two partitions export one     *)
(* name to the same build.                                                  *)
Unambiguous ==
    \A t \in Target : machine[t] # None =>
        \A p, q \in Active(Predefined(machine[t])) \union Posix(Predefined(machine[t])) :
            Exported(p) \intersect Exported(q) # {} => p = q

(* Where ib.entrypoint has an option for the linker the executable starts   *)
(* at ib_start: the script, which does not ask the compiler, has put the    *)
(* prefix that the object format and architecture put, and no --no-entry    *)
(* gets this far.  A linker under another tool name is told no entry.       *)
EntryIsStart ==
    stage["ib_app"] = "linked" =>
        entry = IF \E o \in options : config.linker \in o.tools
                THEN Decorated(machine["ib_app"], "ib_start") ELSE None

(* Reading the notes, the system always finds a header where it looks for   *)
(* one, and ends where the section ends.                                    *)
NotesTile ==
    proc = "branding" => at % NoteBytes = 0 /\ at <= NoteBytes * Len(Section)

(* With a backend no build fails and no system gives up on the program: it  *)
(* is never killed for its entry point, its notes or an exit it did not     *)
(* reach, and what exits has had its text written first.                    *)
NothingFails ==
    config \in Working =>
        /\ \A t \in Target : stage[t] # "error"
        /\ proc # "killed"
        /\ proc = "exited" => served = <<"SYS_WRITE", "SYS_EXIT">>

(* A configuration with a backend gives a program that starts, has its text *)
(* written and exits, by numbers that are write and exit on that system.    *)
RunsToExit ==
    config \in Working ~> (proc = "exited" /\ served = <<"SYS_WRITE", "SYS_EXIT">>)

(* "exactly one backend is active per build"                                *)
OneBackend ==
    \A t \in Target : machine[t] # None =>
        Cardinality(Backends(Predefined(machine[t]))) = 1
=============================================================================
