--------------------------- MODULE SyscallMachine ---------------------------
(***************************************************************************)
(* The raw syscall3 / syscall6 / syscall7 primitives of ib.sys, run on a   *)
(* register machine.                                                       *)
(*                                                                         *)
(* Every primitive of the per-architecture partitions (syscall_*.cpp) is   *)
(* one extended-asm statement: operands bound to registers, stack slots or *)
(* immediates, a template of at most ten instructions with one trap in it, *)
(* an output register and a clobber list.  The statement is a contract     *)
(* between three parties, and each of them is an actor here:               *)
(*   - the compiled caller, which loads the operands, skips the load of a  *)
(*     register it believes to hold the value already, and after the       *)
(*     statement forgets the output and the clobbers and nothing else;     *)
(*   - the template, executed one instruction at a time;                   *)
(*   - the kernel, which reads its arguments where its own convention puts *)
(*     them and overwrites its result register and its volatile registers. *)
(* The partitions themselves are the tables of module SyscallTables; this  *)
(* module takes them through the constant Build.  Stack addresses count    *)
(* words and the stack grows towards lower cells.                          *)
(***************************************************************************)
EXTENDS Integers, Sequences

CONSTANTS
    Register,   \* names of the registers of every machine
    Cell,       \* addresses of the stack words that are modelled
    FrameSP,    \* the stack pointer of the calling function's body
    Value,      \* machine words, up to what the properties tell apart
    Zero,       \* the word 0, a member of Value
    Live,       \* a word the caller keeps across the call, a member of Value
    Junk,       \* what the kernel leaves in a register it destroys
    Unknown,    \* "the compiler does not know", not a member of Value
    Argument,   \* argument vectors callers pass, functions from 0..7 to Value
    Answer,     \* words the kernel returns
    Build       \* the builds: kernel convention, code generation, primitives

ASSUME WordsAssumption ==
    /\ {Zero, Live, Junk} \subseteq Value
    /\ Unknown \notin Value
    /\ Answer \subseteq Value
ASSUME StackAssumption ==
    /\ Cell \subseteq Int
    /\ FrameSP \in Cell
ASSUME ArgumentAssumption == Argument \subseteq [0 .. 7 -> Value]

VARIABLES
    build,      \* the build that runs: a target and a way to generate code
    prim,       \* the primitive called last
    place,      \* where the compiler placed its operands
    args,       \* args[0] the syscall number, args[i] the i-th argument
    regs,       \* contents of the registers
    known,      \* what the compiler believes each register holds
    stack,      \* contents of the stack words
    frame,      \* what the compiler has stored in the words it owns
    sp,         \* stack pointer
    mode,       \* who runs: "caller", "enter" and "leave" (the template
                \* before and after the trap) or "kernel"
    ip,         \* next instruction of the template
    answer,     \* what the kernel answered last
    ret         \* what the primitive returned last

vars == <<build, prim, place, args, regs, known, stack, frame, sp, mode, ip,
          answer, ret>>

-----------------------------------------------------------------------------
(* Shapes of the tables. *)

Slot == 0 .. 7                  \* operand 0 is the number, 1..7 the arguments

Instruction == [op : {"push", "poke", "adjust", "trap"}, arg : Slot, off : Int]

\* The stack words the compiled caller owns: its frame, and below the stack
\* pointer the red zone that the 64-bit ABIs grant to leaf functions.
Owned(b) == {c \in Cell : c >= FrameSP - b.redZone}

\* The value operand i's container must hold, for every container x in the
\* range of the partial function f; else the value it has.
Bound(f, a, x, else) ==
    IF \E i \in DOMAIN f : f[i] = x
    THEN a[CHOOSE i \in DOMAIN f : f[i] = x]
    ELSE else

\* A "g" or "m" operand in memory is addressed relative to the frame pointer,
\* or, in a build that omits it, relative to the stack pointer, with the
\* displacement it has outside the template.
Address(c) == IF build.framePointer THEN c ELSE sp + (c - FrameSP)

\* What an instruction reads for operand i: its register, its stack word, or
\* the immediate the compiler wrote into the template.
OperandValue(i) ==
    IF i \in DOMAIN place.reg THEN regs[place.reg[i]]
    ELSE IF i \in DOMAIN place.mem THEN stack[Address(place.mem[i])]
    ELSE args[i]

\* What the kernel takes for argument i (0 the number): the register of its
\* convention or, past the register arguments, a word above the slot that
\* stands for the return address of a C call.
Received(i) ==
    IF i = 0 THEN regs[build.kernel.number]
    ELSE IF i <= Len(build.kernel.args) THEN regs[build.kernel.args[i]]
    ELSE stack[sp + i - Len(build.kernel.args)]
-----------------------------------------------------------------------------
Init ==
    /\ build \in Build
    /\ prim \in build.prims
    /\ place \in prim.places
    /\ args = [i \in Slot |-> Zero]
    /\ regs = [r \in Register |-> Live]
    /\ known = [r \in Register |-> Live]
    /\ stack = [c \in Cell |-> Live]
    /\ frame = [c \in Cell |-> Live]
    /\ sp = FrameSP
    /\ mode = "caller"
    /\ ip = 1
    /\ answer = Unknown
    /\ ret = Unknown

\* The caller evaluates the operands.  Arguments past the arity are the zeros
\* that some syscall3 bind to the remaining argument registers.  A register or
\* slot already believed to hold the operand is not written again.
Load(p, pl, a) ==
    /\ mode = "caller"
    /\ prim' = p
    /\ place' = pl
    /\ args' = [i \in Slot |-> IF i <= p.arity THEN a[i] ELSE Zero]
    /\ known' = [r \in Register |-> Bound(pl.reg, args', r, known[r])]
    /\ regs' = [r \in Register |->
                  IF known'[r] = Unknown THEN Junk
                  ELSE IF known'[r] = known[r] THEN regs[r] ELSE known'[r]]
    /\ frame' = [c \in Cell |-> Bound(pl.mem, args', c, frame[c])]
    /\ stack' = [c \in Cell |->
                   IF c \notin Owned(build) THEN Junk
                   ELSE IF frame'[c] = frame[c] THEN stack[c] ELSE frame'[c]]
    /\ mode' = "enter"
    /\ ip' = 1
    /\ UNCHANGED <<build, sp, answer, ret>>

\* The next instruction of the template is `op`.
Fetch(op) ==
    /\ mode \in {"enter", "leave"}
    /\ ip \in DOMAIN prim.code
    /\ prim.code[ip].op = op

\* pushl %i.  The operand is read before the stack pointer moves.
Push ==
    /\ Fetch("push")
    /\ sp' = sp - 1
    /\ stack' = [stack EXCEPT ![sp - 1] = OperandValue(prim.code[ip].arg)]
    /\ ip' = ip + 1
    /\ UNCHANGED <<build, prim, place, args, regs, known, frame, mode, answer, ret>>

\* movq %i, off(%rsp)
Poke ==
    /\ Fetch("poke")
    /\ stack' = [stack EXCEPT ![sp + prim.code[ip].off] =
                                OperandValue(prim.code[ip].arg)]
    /\ ip' = ip + 1
    /\ UNCHANGED <<build, prim, place, args, regs, known, frame, sp, mode,
                   answer, ret>>

\* subq $n, %rsp and addl $n, %esp
Adjust ==
    /\ Fetch("adjust")
    /\ sp' = sp + prim.code[ip].off
    /\ ip' = ip + 1
    /\ UNCHANGED <<build, prim, place, args, regs, known, stack, frame, mode,
                   answer, ret>>

\* syscall, int $0x80, svc, sc, ecall, ta
Trap ==
    /\ mode = "enter"
    /\ Fetch("trap")
    /\ mode' = "kernel"
    /\ UNCHANGED <<build, prim, place, args, regs, known, stack, frame, sp, ip,
                   answer, ret>>

\* The kernel answers v and may or may not spare its volatile registers.
KernelReturn(v, destroyed) ==
    /\ mode = "kernel"
    /\ regs' = [r \in Register |->
                  IF r = build.kernel.result THEN v
                  ELSE IF r \in destroyed THEN Junk ELSE regs[r]]
    /\ answer' = v
    /\ mode' = "leave"
    /\ ip' = ip + 1
    /\ UNCHANGED <<build, prim, place, args, known, stack, frame, sp, ret>>

\* The template ends: the primitive returns its output register, and the
\* compiler forgets that register and the clobbers, and only those.
Return ==
    /\ mode = "leave"
    /\ ip = Len(prim.code) + 1
    /\ ret' = regs[prim.out]
    /\ known' = [r \in Register |->
                   IF r \in prim.clobbers \union {prim.out} THEN Unknown ELSE known[r]]
    /\ mode' = "caller"
    /\ UNCHANGED <<build, prim, place, args, regs, stack, frame, sp, ip, answer>>

Next ==
    \/ \E p \in build.prims : \E pl \in p.places : \E a \in Argument : Load(p, pl, a)
    \/ Push
    \/ Poke
    \/ Adjust
    \/ Trap
    \/ \E v \in Answer : \E destroyed \in {{}, build.kernel.volatile} :
          KernelReturn(v, destroyed)
    \/ Return

Spec == Init /\ [][Next]_vars
-----------------------------------------------------------------------------
TypeOK ==
    /\ build \in Build
    /\ prim \in build.prims
    /\ place \in prim.places
    /\ args \in [Slot -> Value]
    /\ regs \in [Register -> Value]
    /\ known \in [Register -> Value \union {Unknown}]
    /\ stack \in [Cell -> Value]
    /\ frame \in [Cell -> Value]
    /\ sp \in Cell
    /\ mode \in {"caller", "enter", "kernel", "leave"}
    /\ ip \in 1 .. Len(prim.code) + 1
    /\ answer \in Value \union {Unknown}
    /\ ret \in Value \union {Unknown}

(* Whenever the kernel runs it sees the number and every argument of the    *)
(* call, where its convention looks for them: no template, operand          *)
(* placement, skipped load or earlier call of another primitive leaves a    *)
(* stale word in an argument register or slot.                              *)
KernelSeesCall ==
    mode = "kernel" => \A i \in 0 .. prim.arity : Received(i) = args[i]

(* When a primitive has returned, everything the compiler still believes    *)
(* is true: the stack pointer is back, every register it has not been told  *)
(* to forget holds the value it put there, and no word it owns, in the      *)
(* frame or in a leaf's red zone, has been written by a template.           *)
BeliefsHold ==
    mode = "caller" =>
        /\ sp = FrameSP
        /\ \A r \in Register : known[r] # Unknown => regs[r] = known[r]
        /\ \A c \in Owned(build) : stack[c] = frame[c]

(* A primitive returns the kernel's answer, whichever register the kernel   *)
(* leaves it in and whatever runs between the trap and the return.          *)
ResultDelivered == mode = "caller" => ret = answer

(* Seen from above, a primitive is one question to the kernel, which gets   *)
(* exactly the call that was made, and one answer, which is returned: the   *)
(* contract posix.cpp is written against.                                   *)
Contract == INSTANCE RawCall WITH
    Call <- [Slot -> Value],
    Word <- Answer,
    Nothing <- Unknown,
    phase <- CASE mode = "caller" -> "idle"
               [] mode = "enter" -> "called"
               [] mode = "kernel" -> "asked"
               [] mode = "leave" -> "served",
    call <- args,
    asked <- IF mode = "kernel"
             THEN [i \in Slot |-> IF i <= prim.arity THEN Received(i) ELSE args[i]]
             ELSE Unknown
Implements == Contract!Spec
-----------------------------------------------------------------------------
(* The static contract.  A primitive p with operand placement pl fits the   *)
(* build b when the two agree with the kernel on registers and stack, which *)
(* the annotations p.depth (words pushed before each instruction, negative) *)
(* and p.laid (operands already copied below the frame, with their offset   *)
(* from FrameSP) reduce to one condition per instruction.                   *)

\* The tables are what they are taken for.
Shape(b, p, pl) ==
    /\ b.redZone \in Nat /\ b.framePointer \in BOOLEAN
    /\ b.kernel.number \in Register /\ b.kernel.result \in Register
    /\ b.kernel.args \in Seq(Register)
    /\ p.arity \in Slot /\ p.out \in Register
    /\ p.code \in Seq(Instruction)
    /\ p.depth \in [1 .. Len(p.code) + 1 -> Int]
    /\ p.laid \in [1 .. Len(p.code) + 1 -> SUBSET [arg : Slot, at : Int]]
    /\ \A k \in 1 .. Len(p.code) + 1 : FrameSP + p.depth[k] \in Cell

PlacedOnce(pl) ==
    /\ \A i, j \in DOMAIN pl.reg : pl.reg[i] = pl.reg[j] => i = j
    /\ \A i, j \in DOMAIN pl.mem : pl.mem[i] = pl.mem[j] => i = j
    /\ DOMAIN pl.reg \intersect DOMAIN pl.mem = {}
    /\ DOMAIN pl.reg \subseteq Slot
    /\ DOMAIN pl.mem \subseteq Slot
    /\ \A i \in DOMAIN pl.reg : pl.reg[i] \in Register
    /\ \A i \in DOMAIN pl.mem : pl.mem[i] \in Cell /\ pl.mem[i] >= FrameSP

\* An instruction may read operand i only where a stack word's address is
\* still what the compiler computed.
Readable(b, pl, i, depth) ==
    i \in DOMAIN pl.mem => b.framePointer \/ depth = 0

\* A template may write a stack word only below everything the caller owns.
Scratch(b, c) == c \in Cell /\ c < FrameSP - b.redZone

\* Annotation `after` follows from `before` and operand i copied to offset d.
Lays(before, after, i, d) ==
    \A l \in after : l = [arg |-> i, at |-> d] \/ (l \in before /\ l.at # d)

InstructionFits(b, p, pl, k) ==
    LET in == p.code[k] IN
    CASE in.op = "push" ->
            /\ Readable(b, pl, in.arg, p.depth[k])
            /\ Scratch(b, FrameSP + p.depth[k] - 1)
            /\ p.depth[k + 1] = p.depth[k] - 1
            /\ Lays(p.laid[k], p.laid[k + 1], in.arg, p.depth[k] - 1)
      [] in.op = "poke" ->
            /\ Readable(b, pl, in.arg, p.depth[k])
            /\ Scratch(b, FrameSP + p.depth[k] + in.off)
            /\ p.depth[k + 1] = p.depth[k]
            /\ Lays(p.laid[k], p.laid[k + 1], in.arg, p.depth[k] + in.off)
      [] in.op = "adjust" ->
            /\ p.depth[k + 1] = p.depth[k] + in.off
            /\ p.laid[k + 1] \subseteq p.laid[k]
      [] in.op = "trap" ->
            /\ p.depth[k + 1] = p.depth[k]
            /\ p.laid[k + 1] = {}
            /\ pl.reg[0] = b.kernel.number
            /\ \A i \in 1 .. p.arity :
                 IF i <= Len(b.kernel.args)
                 THEN i \in DOMAIN pl.reg /\ pl.reg[i] = b.kernel.args[i]
                 ELSE [arg |-> i, at |-> p.depth[k] + i - Len(b.kernel.args)]
                        \in p.laid[k]

Conforms(b, p, pl) ==
    /\ Shape(b, p, pl)
    /\ PlacedOnce(pl)
    /\ 0 \in DOMAIN pl.reg
    /\ p.out = b.kernel.result
    /\ b.kernel.volatile \subseteq p.clobbers \union {p.out}
    /\ p.depth[1] = 0 /\ p.laid[1] = {}
    /\ p.depth[Len(p.code) + 1] = 0
    /\ \A k \in 1 .. Len(p.code) : InstructionFits(b, p, pl, k)

(* Every primitive of every build, under every placement of its operands,   *)
(* meets the static contract: this is the hypothesis of the theorems.       *)
TablesConform ==
    \A b \in Build : \A p \in b.prims : \A pl \in p.places : Conforms(b, p, pl)

(* The same of the primitive that runs.  Every primitive of every build is  *)
(* in an initial state, with every placement, so that an exploration that   *)
(* finds this in all of them has found TablesConform.                       *)
ContractMet == Conforms(build, prim, place)
-----------------------------------------------------------------------------
(* The inductive invariant: what holds between any two instructions. *)

\* Before the trap every container still holds its operand.
OperandsInPlace ==
    mode \in {"enter", "kernel"} =>
        /\ \A r \in Register : known[r] # Unknown => regs[r] = known[r]
        /\ \A i \in DOMAIN place.reg : regs[place.reg[i]] = args[i]
        /\ \A i \in DOMAIN place.mem : frame[place.mem[i]] = args[i]
        /\ \A l \in prim.laid[ip] :
              FrameSP + l.at \in Cell /\ stack[FrameSP + l.at] = args[l.arg]

\* After it only the output and the clobbers may differ from the beliefs.
DamageDeclared ==
    mode = "leave" =>
        /\ regs[prim.out] = answer
        /\ \A r \in Register \ (prim.clobbers \union {prim.out}) :
              known[r] # Unknown => regs[r] = known[r]

\* The template never touches what the caller owns.
StackInStep ==
    /\ mode # "caller" => sp = FrameSP + prim.depth[ip]
    /\ \A c \in Owned(build) : stack[c] = frame[c]
    /\ mode = "kernel" => ip \in DOMAIN prim.code /\ prim.code[ip].op = "trap"

(* What makes the three properties inductive: the annotations of the        *)
(* template describe the stack before each of its instructions.             *)
Inv ==
    /\ TypeOK
    /\ OperandsInPlace
    /\ DamageDeclared
    /\ StackInStep
    /\ BeliefsHold
    /\ ResultDelivered
=============================================================================
