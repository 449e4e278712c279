# Specifications of ib

ib is a freestanding C++ runtime: it enters a program at `ib_start`, calls `ib_main`, and gives
it a few system services without a C library. This directory holds TLA+ models of the part of
ib that does something at run time, TLC configurations that check them on small instances, and
proofs checked by TLAPS. Source paths below are relative to `src/src/ib/sys/` unless they start
with `src/`.

## 1. Inventory

| Component | State it keeps | Operations | Interacts with |
|---|---|---|---|
| raw syscall primitives, one partition per OS family and architecture (`syscall_linux_*.cpp`, `syscall_bsd_*.cpp`, `syscall_darwin_*.cpp`, `syscall_solaris_*.cpp`) | none of their own; registers and stack of the thread that runs them | `syscall3`, `syscall6`, `syscall7` | the compiler, through operands, output and clobbers of one asm statement; the kernel, through its register convention |
| string length (`detail.cpp`) | a counter | `str_length` | memory of the caller; called by every function that takes a string |
| POSIX layer (`posix.cpp`) | none; the result word of the last call | `mmap`, `write`, `write_string`, `print` (two), `exit` | raw primitives below, the program above |
| Windows backend (`syscall_windows.cpp`) | none; handle and counter of `print` | `get_std_handle`, `get_console_mode`, `write_console_w`, `write_file`, `print` (two), `exit` | kernel32 below, the program above |
| start and end of a process (`src/src/crt/crt.cpp`) | none | `ib_start`, `dyld_stub_binder` | loader, `ib_main`, `exit` |
| ABI notes (`src/src/crt/crt.cpp`) | constant records | none | the system, which tells its own executables by them |
| hello application (`src/src/app/main.cpp`) | none | `ib_main` | `print` |
| syscall numbers and grouping (`syscall_linux.cpp`, `syscall_bsd.cpp`, ..., `mod.cppm`) | compile-time constants | none | chosen by preprocessor guards, imported by `posix.cpp` |
| classification of the target: preprocessor (`src/src/ib/macros.hpp`) and build script (`src/xmake/modules/ib/platform.lua`, `src/xmake.lua`) | a cached record per target | `detect`, `entry_symbol`, `OS()`, `ARCH()` | selects partitions, linker dialect and entry symbol |
| core types, demos, CI | none | none | |

Nothing here is multi-threaded and nothing is persisted. What is hard about it is elsewhere:

* an asm statement is a contract between the compiler, the template and the kernel. No two of
  them see each other. A wrong register or a missing clobber is harmless until a later
  call happens to reuse the value, so it depends on sequences of calls and on how the
  caller was compiled. Most of the targets are not run by any job of the repository;
* templates that move the stack pointer work while the compiler's own addresses, the frame and
  the red zone, are relative to it;
* results of system calls are decoded from one word, in which counts, addresses and error
  numbers meet at boundaries (-4096, 0, the sign bit, 2^32), and kernels disagree about it;
* `mmap` counts pages on some targets, bytes on others, and inserts an argument on some;
* a write may be short, refused, or aimed at a handle that is not there, and the wrapper has to
  tell the program which;
* a target is named four times over, by the build scripts, by the macros of the compiler, by the
  linker's entry option and by the executable's notes. Each party works it out from the triple
  on its own, and a disagreement shows on a machine nobody builds on.

What makes each part correct, and is checked below: the kernel receives exactly the call
that was made; the caller's registers and stack are what the compiler thinks they are
afterwards; the kernel's answer is returned; an operation's result tells the truth about its
effect on files and mappings; a failure is reported as one; every call comes back; a string's
length is the index of its first NUL and nothing after it is read; all parties to a build mean
the same target, and the program that comes out starts, writes and exits.

`PROJECT.json` lists the hazards at their lines, with the properties that would catch them.

## 2. Modules

```
RawCall           what a raw primitive promises the layer above
SyscallMachine    register machine: compiled caller, template, kernel
  SyscallTables     the asm statements and the kernels' conventions
    MCSyscallMachine
    SyscallTablesProofs
  SyscallMachineProofs
StrLength         the loop of str_length          MCStrLength, StrLengthProofs
Strings           str_length as a value           StringTheorems
SysApi            what ib.sys promises a program
PosixSys          posix.cpp over a kernel         MCPosixSys, PosixSysProofs
WindowsSys        syscall_windows.cpp over kernel32   MCWindowsSys, WindowsSysProofs
Hello             what a user of ib_app sees
HelloApp          crt.cpp and main.cpp over PosixSys or WindowsSys   MCHelloApp, HelloAppProofs
Partitions        macros.hpp and the guards and exports of ib.sys
Platform          build scripts, compiler, linker, system    MCPlatform, PlatformProofs
```

`PosixSys` and `WindowsSys` both implement `SysApi` (`Implements == Api!Spec` with
`Api == INSTANCE SysApi WITH ...`), and `SyscallMachine` implements `RawCall`. The upper layers are
composed directly: `HelloApp` instantiates both backends and puts ib_app in the place of their
client. `PosixSys` and the primitives are composed by contract: what `PosixSys` takes a trap to do
(`Syscall` hands number and words to the kernel, `Decode` gets its word) is `RawCall`, and
the operator `str_length` of `Strings` is the value that `StrLength` shows the loop to compute.

Definitions whose names end in `Mutant` model a plausible bug (a dropped clobber, an
off-by-one in a window). They are not used by any specification. `PROJECT.json` pairs each
property with one that, put in the place of the definition it varies, must break the property.

### SyscallMachine and SyscallTables

A primitive is a record: `arity`, the `places` where the compiler may put its operands
(registers, frame slots, or immediates), the output register `out`, the `clobbers`, and the
template `code`, one record per instruction. `depth` and `laid` annotate the stack before each
instruction and are used only by the static contract and the invariant.

| Action | Code |
|---|---|
| `Load` | the caller evaluating operands: `mov` to each bound register or slot, *skipped when the compiler believes the value to be there* |
| `Push`, `Poke`, `Adjust` | `pushl %n`, `movq %n, 8(%rsp)`, `subq`/`addl` of the templates in `syscall_bsd_i386.cpp`, `syscall_bsd_amd64.cpp` and `syscall_darwin_amd64.cpp` |
| `Trap`, `KernelReturn` | the trap instruction; the kernel writes the result register and may or may not overwrite its volatile ones |
| `Return` | end of the statement: the compiler forgets output and clobbers, nothing else |

`CC` stands for the condition codes: a "register" `flags` in which a caller that compares before a
call and branches after it keeps a word. It is in a clobber list where the source says "cc", and
in all of those of amd64 and i386, where compilers take any asm to destroy them.

`known` and `frame` are the compiler's beliefs about registers and about the stack words it
owns. Words it does not own (below the stack pointer, and below the red zone where the ABI
has one) may be overwritten by anybody, which `Load` does. The kernels' conventions come from the
stand-alone programs of `src/syscall_demos/`, which state for each kernel what is passed and
destroyed, completed with the argument registers past the third. Where the demos say nothing the
comparison is weaker:

* Linux on ppc64: the demo (`hello_linux.cpp:146`) lists "cc" and no register. Those in the
  convention are the clobbers of `syscall3` itself (`syscall_linux_ppc64.cpp:29`), so `syscall3` is
  compared with itself there and only `syscall6` is tested (and found wanting, run `volatile_input`).
* macOS on aarch64: demo and partition leave out "cc" alike; the convention has it (section 5).
* Arguments past the third, and the seventh on the BSDs, are passed as the partitions say.

### StrLength

One step per evaluation of the loop's condition and one per increment, over a memory region
that ends where a mapping may end. Reading outside it is `"fault"`. `Again` is the next call.

### PosixSys

`pc` says who runs. Each exported function is an action of the client (`write`, `write_string`,
`print_data`, `print_string`, `mmap`, `exit`); each of them ends in `Syscall`, which leaves
number and argument words in `request`. The kernel serves, partially if it likes, or refuses;
`Decode` is the rest of the wrapper after the trap. `Word` and `Signed` are the casts between
`isize`/`i32` and `usize`. `FlagsErrors` are the targets whose kernel returns a positive errno
and sets a flag, `KernelPads` those whose kernel has a padding argument before the offset of
`mmap`. In `Implements` the program counts as told of a refusal on a target that flags errors
(`Told`): what the wrappers tell it then is the business of `FailureReported`, which holds on the
others (`NegatedErrorReported`) and not there (run `solaris`). The client is free: any calls, any
number of them, in any order.

### WindowsSys

`print` is modelled as the two kernel32 calls it is: `print_data` (asks for the handle),
`HasHandle` (check for INVALID_HANDLE_VALUE, cast of the size, `WriteFile`) and `Report`. The
other exported functions wrap one call each (`Report`, `HandBack`). kernel32 is external and
modelled by what the wrappers rely on: `GetStdHandle` returns the process's handle, NULL or
INVALID_HANDLE_VALUE; writes may be partial or fail; `WriteConsoleW` serves consoles only. A
direct `write_file` is one operation whose result and out parameter together are the reply.
`exit` takes any integer, as the `isize` it is, and casts it. `SysApi` ends a process with the word of
its status, which an isize cut to 32 bits need not be; so `Implements` takes an exit for one with
the low 32 bits of the status (`Heard`); `GivenExitCode`, in `WindowsSysProofs`, is the comment's
promise without that allowance, for the statuses it can be kept for. `SysApi` also allows a write of
nothing to be a success; `AsksForSome` does not allow a print of something to ask for nothing.

### HelloApp and Hello

The state is that of the backend the program is linked with (`target` says which; the other's
variables rest at `Absent`). `ib_start`, `ib_main`, `exit` are the three moments of `crt.cpp` and
`main.cpp`; `Wrapper` and `System` are the backend and what is below it, unchanged. `Hello` is
the abstract program: a beginning of the text, possibly none of it, is written once to the
standard output and nothing anywhere else, and the exit status is 0. That status 0 does not mean
that anything was written is a decision of `main.cpp:11`, which discards the result. `Hello` states
that decision; no property counts it as a fault, since nothing in the repository says it is one.

### Partitions and Platform

`Partitions` is the preprocessor's view. `pre` is the set of macros the compiler predefines; `OS`
and `ARCH` are those of `macros.hpp`; `Linux`, `BSD`, `Darwin`, `Solaris`, `Windows` give the
partitions whose guard holds, each with the `SYS_*` numbers and the primitives it exports;
`PosixUses` is what the compiled branch of `posix.cpp` names.

`Platform` follows a configuration through a build and a run:

| Action | Code |
|---|---|
| `Load` | `on_load` of `ib.entrypoint`: `platform.get`, `entry_symbol`, the linker options |
| `Configure(t)` | `on_config` of `ib.clang.target`: `--target=` for clang, nothing for others |
| `Compile(t)` | the compiler: every imported name must be exported once, and `ib_app` must be compiled for the machine of `ib` |
| `Link` | the linker under the options meant for it, `kernel32` |
| `Exec`, `ReadNote`, `EndNotes` | the system: entry point, then the notes of `crt.cpp`, read header by header |
| `Run` | `ib_start`: the system is asked for write and exit by the partition's numbers |

A triple is what the scripts look at in it (the keys of `OSMAP` its text contains, and its first
token) and the machine clang takes it for. Only the machine is shared by the parties.
`HelloLinux`, `HelloMacOS`, `HelloFreeBSD` and `HelloSolaris` are the numbers in the stand-alone
programs of `src/syscall_demos/`, written independently of the partitions; `KernelNumbers` says which
kernel has which. There is no program for OpenBSD, NetBSD and DragonFly. `syscall_bsd.cpp:5-6` says
that they number write and exit as FreeBSD does and `KernelNumbers` repeats it, so for these three
the agreement is that of the file with its own comment. What ties the machine to the words the scripts look at is that
users and tools name machines as they do: `NamesSystem` and `NamesCpu` say which plats, keys of
`OSMAP` and tokens name which machine, and what else a triple may contain (`Besides`).

### SysApi

The promises in the comments of both backends: an operation is a call, one effect, and an
answer that is true of the effect. `write` moves a prefix of the data and answers its length,
or moves nothing and answers a negative number; `mmap` answers the address of a new mapping of
the offset asked for, or MAP_FAILED; `exit` ends the process with the word of its status.

## 3. Runs

| Run | Shows | Bounds, and why they are enough |
|---|---|---|
| `machine` | On twenty builds any sequence of primitives satisfies `KernelSeesCall`, `BeliefsHold`, `ResultDelivered`; every table meets the static contract (`ContractMet`); the inductive invariant `Inv` holds; the machine implements `RawCall` (`Implements`) | Two argument vectors without a common word, so that every stale word is a wrong one; frame of eight words, nine below it (the largest template pushes eight); two words of red zone (a template writes one word into it). The run has no bound on the number of calls |
| `no_frame_pointer`, `leaf`, `volatile_input` | violations, section 6 | as `machine` |
| `str_length` | `ResultIsLength`, `NeverFaults`, `Terminates` | all regions of up to five bytes: empty strings, strings ending at the end of the region, bytes behind the NUL |
| `posix` | On Linux with mmap2, Linux with mmap, a padded and an unpadded BSD: `RequestIsCall`, `MappingDelivered`, `Implements`, `CallsEnd`; where the kernel negates error numbers also `FailureReported` (`NegatedErrorReported`) | 16-bit words with the real 4096; offsets 0, page, inside a page, negative, least; errnos 1 and 4095; pages 0 and the last one, next to the error codes; an open and an invalid descriptor; files of two bytes, so that a write is full, short, and without room |
| `solaris` | violation, section 6 | the same |
| `windows` | `RequestIsCall`, `Implements`, `CallsEnd` with the standard output on a console, on a pipe, NULL and invalid | DWORDs of 16 values (the standard handle numbers need 13); sizes 0, 2, 16, whose low bits are all zero, and 17; statuses 0, -1 and 17, which does not fit; files of two units |
| `long_print` | violation, section 6 | as `windows` |
| `hello` | the composition implements `Hello`, its state is well typed, and it ends (`Ends`), on each kind of POSIX kernel and on Windows with each kind of standard output | a text of three characters, which the system may take in part; room in a file for the text but not for it twice, so that a second attempt shows; words, errors and kinds of kernel as in `posix`, handles as in `windows` |
| `platform` | `TargetAgrees`, `Unambiguous`, `EntryIsStart`, `NotesTile`, `NothingFails`, `RunsToExit` | 46 configurations: every line of the cheat sheet in `src/xmake.lua:214`, the workflow files, 32-bit PE both ways, a triple with two keys of `OSMAP` in it, Windows with a linker that gets no entry option, and one for each architecture the partitions name. There is nothing else in the module to bound |
| `no_backend` | violation, section 6 | the cheat sheet alone |

The bounds are the definitions of the MC modules. `FileLimit` bounds the histories; the programs
may issue any number of calls. Words of 16 bits keep the window of error codes at its real size
and leave room for addresses on both sides of the sign bit. Deadlock is
checked in `machine` and `str_length`, whose programs never end, and off where the process exits
or the build is over.

Type invariants apart, the properties are about several steps: `BeliefsHold` needs two calls
to fail for a missing clobber, `MappingDelivered` relates a result to a mapping made by the
kernel with what the program had asked for before, `NothingFails` and `RunsToExit` fail when any two of scripts,
macros, guards, linker and notes disagree.

Fairness. `StrLength` has weak fairness on the loop's two steps, and not on the next call: a
running loop runs. `PosixSys` and `WindowsSys` have weak fairness on entry, on the code after a
kernel call, and on the kernel: code that can run does, and the kernel answers a call
(every modelled request can always be refused, and `exit` cannot). The client is not fair: it
may stop calling. A kernel that blocks a write for ever is outside `CallsEnd`. `HelloApp` has
`WF_vars(Next)`: one thread runs the program, which calls on its own, and the kernel answers.
`Platform` has `WF_vars(Next)`: a build tool that was started goes on until it is done or has
failed, and a process that was started is scheduled.

## 4. Proofs

| Theorem | Assumes | Along |
|---|---|---|
| `SyscallMachineProofs`: `InvHolds`, `TypeCorrect`, `CallerUndisturbed`, `AnswerReturned`, `KernelServed`, `PrimitiveIsRawCall` | `TablesConform`, the static contract for each primitive and placement | `Inv` |
| `SyscallTablesProofs`: `KindsKeepContract` | every primitive `HasKind`; nine words of stack | one lemma per kind of statement |
| `SyscallTablesProofs`: `BSDI386HasKinds` | a frame pointer, no red zone, seven words of frame | the placements of "g" operands |
| `SyscallTablesProofs`: `LibraryKeepsContract`, `LibraryCallsHold`, `LibraryIsRawCall` | every build is `Sound`; the registers exist; sixteen words of stack | one lemma per partition: `SoundHasKinds` |
| `StrLengthProofs`: `LengthCorrect`, `NoOverread`, `TypeCorrect` | every region holds a NUL (the caller's obligation) | loop invariant `Inv` |
| `PosixSysProofs`: `RequestsAreCalls`, `MappingsDelivered`, `TypeCorrect` | `PaddingAsDocumented` | `Inv`, `DeliveredInv` |
| `PosixSysProofs`: `PosixImplementsApi` (the program being told of an error that a kernel flags), `FailuresReported` (of targets whose kernel negates errors) | `PaddingAsDocumented` | `Inv`, `RefusedInv` |
| `WindowsSysProofs`: `WindowsImplementsApi` (an exit being one with the low 32 bits of its status), `RequestsAreCalls`, `TypeCorrect` | only the assumptions on constants, which allow any status | `Inv` |
| `WindowsSysProofs`: `PrintsAskForSome` | every buffer is shorter than 2^32 | `ShortPrint` |
| `WindowsSysProofs`: `ExitCodeGiven` | every status is an i32 | `Inv` and `ExitCodeOfCall` |
| `HelloAppProofs`: `HelloAppIsHello`, `TypeCorrect` | only the assumptions on constants | an invariant per backend, below |
| `PlatformProofs`: `NamesUnambiguous` | `KnownAssumption`: every configuration's compiler targets a machine there is a compiler for | `BuildInv`, `NamesOnce` |
| `PlatformProofs`: `ScriptsAndMacrosAgree` | also `NamesAssumption`: plats and triples name their machines (section 5) | `BuildInv`, `SystemNamed`, `CpuAgrees` |
| `PlatformProofs`: `EntryFound` | as `ScriptsAndMacrosAgree`; nothing of the linker | `EntryInv` |
| `PlatformProofs`: `NotesAreTiled` | none | `NotesInv` |
| `PlatformProofs`: `BuildsRunClean` | all of these, and for each member of `Working` that a backend is active (`BackendAssumption`) and that `ib.entrypoint` has an option for its linker (`LinkerAssumption`) | `RunInv`: `EntryInv`, `NotesInv` and `Progress` |
| `PlatformProofs`: `TypeCorrect` | `KnownAssumption` | `TypeInv` |
| `StringTheorems`: `PrefixOfPrefix`, `StrLengthInBuffer` | | lemmas the two backends share; the second by well-founded minimum |

*Why the invariants.* `BeliefsHold` speaks of the moments when the caller runs, and is not
inductive: the template in between moves the stack pointer and the kernel overwrites registers.
`Inv` says what holds between any two instructions. Before the trap, every operand is still in
its container and what has been pushed lies where `laid` says (`OperandsInPlace`); after it, only
output and clobbers may deviate (`DamageDeclared`); at all times the caller's words are intact
and the stack pointer is `depth` away (`StackInStep`). The per-instruction condition
`InstructionFits` is what each of these needs from the table. `TablesConform` is thus the proof
obligation for a new partition. `KindsKeepContract` reduces it to a comparison of lists: the partitions have
three kinds of statement (`RegisterCall`, `PokeCall`, `PushCall`), and `HasKind` names what each
asks of a build. The first asks nothing; the other two must not have a red zone below them, and the
third needs a frame pointer if an operand is in the frame. The runs `leaf` and `no_frame_pointer`
drop the two conditions. `SoundHasKinds` then goes through the partitions of the repository, and
`LibraryCallsHold` and `LibraryIsRawCall` say of them, with nothing assumed of the tables, what the
run `machine` checks. `Sound` names the builds this is true in: all of `machine`'s (an `ASSUME` of
`MCSyscallMachine`), with red zones and frames of any size, and any of the words, argument vectors
and answers. What it leaves out is what the three violation runs are about: `syscall7` on amd64
above a red zone, i386 BSD without a frame pointer, `syscall6` and `syscall7` of mips64 and ppc64,
and macOS on aarch64 with a kernel that sets flags.

In `PosixSys`, the refinement needs to know that the request in flight is the call
(`RequestIsCall`), which is where casts, pages and paddings are argued; `DeliveredInv` and
`RefusedInv` add what the kernel's word says between the trap and the decoding. In `WindowsSys`
the invariant carries the call of `print` across its two requests, and a cast to 32
bits is shown never to enlarge a size. `PrintsAskForSome` and `ExitCodeGiven` say where the promises
of `print` and `exit` hold: while sizes and statuses fit 32 bits.

`HelloAppIsHello` holds without the assumption on padding or flagged errors: what the user sees
does not depend on how a failure is reported, because nobody looks. Its invariant ties the call
in progress to what lies in the files: nothing before the write is served, a beginning of the
text on the standard output after it.

`NamesUnambiguous` is in two parts. `NamesOnce` is about the sources alone: for any set of macros of
one system and one architecture, two partitions that export a common name are the same. It goes
by group, since only Windows and the POSIX layer export the wrappers, and systems are exclusive.
The rest shows that compilers predefine such sets, and that whatever a target is compiled
for comes from its configuration (`BuildInv`, which also says that what the scripts have stored is
what they would detect now, and how far a target must be for either).

`ScriptsAndMacrosAgree` rests on the order of `OSMAP`. `os_from_triple` takes the first row whose key
the triple contains; `NameBeforeBesides` shows that every key naming a system stands before every
other key a triple for that system may contain, so the first hit names the system (`SystemNamed`, by
the least hit). `linux` moved before `android`, or `apple` before `ios`, breaks that lemma. On the
other side `SystemAgrees` and `CpuAgrees` compute `OS()` and `ARCH()` from what is predefined.

`EntryFound` adds that the prefix the scripts put is the compiler's (`PrefixAgrees`), so that an
option which reaches the linker gives it the symbol there is (`OptionStarts`). Whether one does is
decided by the tool name: a linker whose name is in none of the lists has no entry point, and the
property says so. wasm, whose option gives no entry point, never links, because no partition exports
`print` there (`PrintNeedsSystem`).

`BuildsRunClean` puts the parts together, and covers every set of configurations, not the 46 of the
run. `BackendExports`: if any partition with code is active, every name that `posix.cpp`, `main.cpp`
and `crt.cpp` import is exported, by one lemma per group, and once, by `NamesOnce`. So the three
lists of systems that must agree (who exports `syscall7`, who exports `SYS_MMAP2`, which branch of
`mmap` is compiled) do. `AllLink`: where kernel32 is needed the scripts link it. `FirstNote`: the
first note is the system's own, which is why `Progress` may say that a reader past it is satisfied.
`ServiceAnswers`: the number of write and of exit that a program finds is the kernel's (`KernelNumbers`) for its
machine.

`NotesTile` needs `NotesInv`, that the reader has consumed a
whole number of notes, because that it is at a header now says nothing of where it goes next.

Only model-checked, because it is out of the prover's reach: liveness (`Terminates`, `CallsEnd`,
`Ends`, `RunsToExit`; of the last, what can be said without fairness is `NothingFails`). Every
other property of the runs that are expected to pass is a theorem.

## 5. What the models leave out or take for granted

* "memory" clobbers: the words modelled are private to the caller.
* What a kernel destroys beyond the repository's own lists, with one exception: that macOS reports
  errors in the carry flag on aarch64. FreeBSD on riscv64 is said to report them in `t0`, which
  neither its partition nor its demo lists; this is not modelled.
* The values of the `SYS_*` numbers are names in `PosixSys`. `Platform` compares write and exit with
  the demos, where there is one; for mmap the repository has no second source.
* Which kernels pad `mmap` (`PaddingAsDocumented`) is taken from the comment at `posix.cpp:57-58`,
  which would have to be confirmed against the kernels. The code's list is the same one: a padding
  in the wrong place is seen, one on the wrong system is not.
* Kernels that return from exit: the only thing the modelled ones do with it is end the process, so
  what follows `__builtin_unreachable` (`posix.cpp:128`) is never reached.
* In `Platform`: what compilers predefine, how C symbols are decorated, how notes are read and which
  systems want one are external. The tool name of the
  linker is part of a configuration; which one xmake gives it is outside the repository.
  `LinkerAssumption` asks of `Working`, and of nothing else, that some option of `ib.entrypoint` is for
  that name. `ib.triple` is never set, so the triple is `--cross`.
  `src/xmake.lua` names no target for illumos or for a `windows-gnu` triple; the scripts
  would call the first `baremetal` and the second `windows`.
* `NamesAssumption` in `Platform` says what the words of a user mean. The plat `bsd` means FreeBSD, as
  `PLAT_ALIAS` takes it; a triple names one system and has besides it only a vendor, an object format
  or, for Android, its kernel; an architecture may have a name the scripts do not know, except that
  32-bit PE must be recognized. TLC evaluates it, `LinkerAssumption` and `BackendAssumption` for the
  configurations of the runs. For a configuration outside
  it (plat `bsd` for NetBSD, say) the scripts take another system than the compiler does.
* Which flags `ib.warnings` and `ib.freestanding` add, object file extensions, subsystem options.
* Which kernels flag errors: the repository documents Solaris (`src/syscall_demos/hello_solaris.cpp:28`).
  `MCFlagsErrors` adds the BSDs, macOS and Linux on mips64 and ppc64, so that no report of a
  failure is claimed for them.
* 64-bit file offsets on 32-bit BSDs, where an offset is more than one word.
* In run `machine` mips64 and ppc64 are restricted to `syscall3`, `syscall7` on amd64 is called
  from functions that are not leaves, i386 BSD has a frame pointer, and the kernel of macOS on
  aarch64 spares the condition codes. The other cases are the violation runs.
* `get_console_mode`'s mode word, the address, length, protection and flags of `mmap`, which are
  passed on unchanged.
* Sizes given to `write_file` and `write_console_w` are u32 in the signature and bounded so.
* `dyld_stub_binder` (empty), type aliases, warning and compiler macros, demos as programs, CI: they
  have no state and no operation, or are not part of the library.

## 6. Disagreements found

* `no_frame_pointer`: the i386 BSD templates read "g" operands after pushing. In a build that
  addresses its frame through esp an operand in memory is read at the wrong place and the kernel
  gets other arguments (`syscall_bsd_i386.cpp:37`).
* `leaf`: `syscall7` on amd64 stores its seventh argument into the red zone of a leaf caller
  (`syscall_bsd_amd64.cpp:55`, `syscall_darwin_amd64.cpp:55`).
* `volatile_input`: mips64 and ppc64 bind registers the kernel destroys as inputs only, where
  `syscall3` of the same files declares them clobbered; macOS on aarch64 does not declare the
  condition codes (`syscall_darwin_aarch64.cpp:25`), which the BSD partitions do.
* `solaris`: errors are returned as a positive errno with a flag that nobody reads, so a
  refused write is reported as a count and a refused mmap as an address (`posix.cpp:92`).
* `long_print`: `print` on Windows casts its size to 32 bits and writes once. For a multiple of 2^32 it
  asks for nothing and reports a success of 0 bytes (`syscall_windows.cpp:123`); the promise is
  "Writes raw bytes to the standard output stream" (`:109`).
* `no_backend`: `mod.cppm:11-13` says that exactly one backend is active per build. For the iOS and wasm
  lines of the cheat sheet (`src/xmake.lua:222`, `:229`) none is, and `ib_app` does not compile.

Three remarks without a run. `exit` on Windows takes an isize and is to end the process "with the
given exit code" (`syscall_windows.cpp:138`); of a status that does not fit an i32 the low half arrives
(`:142`), so a multiple of 2^32 looks like success. `ib_start` passes an i32, so only a program that
calls `exit` itself is affected, and `ExitCodeGiven` proves that no other status is changed. The comment at `posix.cpp:66` gives the failures as (-4096, 0], which
contains 0; the code takes 0 for an address, and is right. `src/xmake.lua:130-133` gives the entry
option of Windows to the tool name `clang` only, where the list for the other systems (`:119`) has
`clangxx` too; a linker under that name would start elsewhere (one configuration of `platform` is such,
and `EntryIsStart` says that it has no entry point). Whether xmake ever uses it there is not for this
repository to say.

## 7. Plan

Done, in this order: the raw primitives with their contract and proofs; `StrLength`; `SysApi`
and `PosixSys` with the refinement; `WindowsSys` with the refinement; `RawCall` and the condition
codes; `Partitions` and `Platform`; `Hello` and `HelloApp` with the refinement; the type
invariants and the static contract of the three kinds of statement as theorems; the contract of every
partition, so that the results on the primitives hold of the library's own tables; the agreement of
scripts, compiler, linker and system, and the clean build and run that follow from it, as theorems.

Left:

1. `PosixSys` with `RawCall` as its kernel interface in place of the actions `Syscall` and `Decode`.
