------------------------ MODULE SyscallMachineProofs ------------------------
(***************************************************************************)
(* For every set of registers, words and argument vectors, every sequence  *)
(* of calls and every table of builds that meets the static contract       *)
(* TablesConform, SyscallMachine keeps its invariant.  TLC evaluates       *)
(* TablesConform on the tables of the library.                             *)
(***************************************************************************)
EXTENDS SyscallMachine, TLAPS

USE DEF Slot

(* The static contract holds of the build and primitive that run. *)
LEMMA RunningConforms ==
    ASSUME TablesConform, TypeOK
    PROVE  Conforms(build, prim, place)
BY DEF TablesConform, TypeOK

(* A word at or above the calling function's stack pointer is owned. *)
LEMMA FrameIsOwned ==
    ASSUME NEW b, b.redZone \in Nat, NEW c \in Cell, c >= FrameSP
    PROVE  c \in Owned(b)
BY StackAssumption DEF Owned

(* What an instruction reads for an operand is a word, and before the trap *)
(* it is the operand.                                                       *)
LEMMA OperandRead ==
    ASSUME Inv, Conforms(build, prim, place), mode \in {"enter", "leave"},
           NEW i \in Slot, Readable(build, place, i, prim.depth[ip])
    PROVE  /\ OperandValue(i) \in Value
           /\ mode = "enter" => OperandValue(i) = args[i]
<1>1. CASE i \in DOMAIN place.reg
  BY <1>1 DEF Inv, TypeOK, OperandsInPlace, OperandValue, Conforms, PlacedOnce
<1>2. CASE i \notin DOMAIN place.reg /\ i \in DOMAIN place.mem
  <2> DEFINE c == place.mem[i]
  <2>1. c \in Cell /\ c >= FrameSP
    BY <1>2 DEF Conforms, PlacedOnce
  <2>2. c \in Owned(build)
    BY <2>1, FrameIsOwned DEF Conforms, Shape
  <2>3. Address(c) = c
    <3>1. sp = FrameSP + prim.depth[ip]
      BY DEF Inv, StackInStep
    <3>2. CASE build.framePointer
      BY <3>2 DEF Address
    <3>3. CASE prim.depth[ip] = 0
      <4> HIDE DEF c
      <4>1. FrameSP \in Int /\ c \in Int
        BY <2>1, StackAssumption
      <4>2. sp = FrameSP
        BY <3>1, <3>3, <4>1
      <4> QED BY <4>1, <4>2 DEF Address
    <3> QED BY <3>2, <3>3, <1>2 DEF Readable
  <2>4. OperandValue(i) = stack[c]
    BY <1>2, <2>3 DEF OperandValue
  <2>5. stack[c] \in Value /\ stack[c] = frame[c]
    BY <2>1, <2>2 DEF Inv, TypeOK, StackInStep
  <2>6. mode = "enter" => frame[c] = args[i]
    BY <1>2 DEF Inv, OperandsInPlace
  <2> QED BY <2>4, <2>5, <2>6
<1>3. CASE i \notin DOMAIN place.reg /\ i \notin DOMAIN place.mem
  BY <1>3 DEF Inv, TypeOK, OperandValue
<1> QED BY <1>1, <1>2, <1>3

(* Loading puts each operand in its container and nothing else is touched. *)
LEMMA BoundHere ==
    ASSUME NEW f, NEW a, NEW else, NEW i \in DOMAIN f,
           \A j, k \in DOMAIN f : f[j] = f[k] => j = k
    PROVE  Bound(f, a, f[i], else) = a[i]
BY DEF Bound

LEMMA BoundTyped ==
    ASSUME NEW f, NEW S, NEW a \in [Slot -> S], DOMAIN f \subseteq Slot,
           NEW x, NEW else, NEW T, S \subseteq T, else \in T
    PROVE  Bound(f, a, x, else) \in T
BY DEF Bound

LEMMA InitInv == ASSUME TablesConform, Init PROVE Inv
<1>1. TypeOK
  <2>1. prim \in build.prims /\ place \in prim.places /\ build \in Build
    BY DEF Init
  <2>2. Len(prim.code) \in Nat
    BY <2>1 DEF TablesConform, Conforms, Shape
  <2> QED BY <2>1, <2>2, WordsAssumption, StackAssumption DEF Init, TypeOK
<1> QED BY <1>1 DEF Init, Inv, OperandsInPlace, DamageDeclared, StackInStep,
                    BeliefsHold, ResultDelivered, Owned

LEMMA LoadInv ==
    ASSUME TablesConform, Inv,
           NEW p \in build.prims, NEW pl \in p.places, NEW a \in Argument,
           Load(p, pl, a)
    PROVE  Inv'
<1>1. Conforms(build, p, pl)
  BY DEF TablesConform, Inv, TypeOK
<1>2. /\ DOMAIN pl.reg \subseteq Slot /\ DOMAIN pl.mem \subseteq Slot
      /\ \A i, j \in DOMAIN pl.reg : pl.reg[i] = pl.reg[j] => i = j
      /\ \A i, j \in DOMAIN pl.mem : pl.mem[i] = pl.mem[j] => i = j
      /\ \A i \in DOMAIN pl.reg : pl.reg[i] \in Register
      /\ \A i \in DOMAIN pl.mem : pl.mem[i] \in Cell /\ pl.mem[i] >= FrameSP
  BY <1>1 DEF Conforms, PlacedOnce
<1>3. Len(p.code) \in Nat /\ p.depth[1] = 0 /\ p.laid[1] = {}
  BY <1>1 DEF Conforms, Shape
<1>4. args' \in [Slot -> Value]
  BY WordsAssumption, ArgumentAssumption DEF Load
<1>5. known' \in [Register -> Value \union {Unknown}]
  <2>1. ASSUME NEW r \in Register
        PROVE  Bound(pl.reg, args', r, known[r]) \in Value \union {Unknown}
    <3>1. known[r] \in Value \union {Unknown} /\ Value \subseteq Value \union {Unknown}
      BY DEF Inv, TypeOK
    <3> QED BY <1>2, <1>4, <3>1, BoundTyped
  <2>2. known' = [r \in Register |-> Bound(pl.reg, args', r, known[r])]
    BY DEF Load
  <2> QED BY <2>1, <2>2
<1>6. regs' \in [Register -> Value]
  <2>1. /\ regs' = [r \in Register |->
                      IF known'[r] = Unknown THEN Junk
                      ELSE IF known'[r] = known[r] THEN regs[r] ELSE known'[r]]
        /\ regs \in [Register -> Value]
    BY DEF Load, Inv, TypeOK
  <2> QED BY <1>5, <2>1, WordsAssumption
<1>7. frame' \in [Cell -> Value]
  <2>1. ASSUME NEW c \in Cell
        PROVE  Bound(pl.mem, args', c, frame[c]) \in Value
    <3>1. frame[c] \in Value
      BY DEF Inv, TypeOK
    <3> QED BY <1>2, <1>4, <3>1, BoundTyped
  <2>2. frame' = [c \in Cell |-> Bound(pl.mem, args', c, frame[c])]
    BY DEF Load
  <2> QED BY <2>1, <2>2
<1>8. stack' \in [Cell -> Value]
  <2>1. /\ stack' = [c \in Cell |->
                       IF c \notin Owned(build) THEN Junk
                       ELSE IF frame'[c] = frame[c] THEN stack[c] ELSE frame'[c]]
        /\ stack \in [Cell -> Value]
    BY DEF Load, Inv, TypeOK
  <2> QED BY <1>7, <2>1, WordsAssumption
<1>9. TypeOK'
  <2>1. /\ build' = build /\ prim' = p /\ place' = pl /\ sp' = sp
        /\ mode' = "enter" /\ ip' = 1 /\ answer' = answer /\ ret' = ret
    BY DEF Load
  <2>2. 1 \in 1 .. Len(p.code) + 1
    BY <1>3
  <2> QED BY <1>4, <1>5, <1>6, <1>7, <1>8, <2>1, <2>2 DEF Inv, TypeOK
<1>10. \A r \in Register : known'[r] # Unknown => regs'[r] = known'[r]
  <2> SUFFICES ASSUME NEW r \in Register, known'[r] # Unknown
               PROVE  regs'[r] = known'[r]
    OBVIOUS
  <2>1. known'[r] = known[r] => regs[r] = known[r]
    BY DEF Inv, BeliefsHold, Load
  <2> QED BY <2>1 DEF Load
<1>11. \A i \in DOMAIN pl.reg : known'[pl.reg[i]] = args'[i]
  BY <1>2, BoundHere DEF Load
<1>12. \A i \in DOMAIN pl.mem : frame'[pl.mem[i]] = args'[i]
  BY <1>2, BoundHere DEF Load
<1>13. OperandsInPlace'
  <2>1. \A i \in DOMAIN pl.reg : regs'[pl.reg[i]] = args'[i]
    BY <1>2, <1>4, <1>10, <1>11, WordsAssumption
  <2> QED BY <1>3, <1>10, <1>12, <2>1 DEF OperandsInPlace, Load
<1>14. StackInStep'
  <2>1. sp = FrameSP /\ \A c \in Owned(build) : stack[c] = frame[c]
    BY DEF Inv, BeliefsHold, Load
  <2>2. \A c \in Owned(build) : stack'[c] = frame'[c]
    BY <2>1 DEF Load, Owned
  <2> QED BY <1>3, <2>1, <2>2, StackAssumption DEF StackInStep, Load, Owned
<1> QED BY <1>9, <1>13, <1>14 DEF Load, Inv, DamageDeclared, BeliefsHold,
                                  ResultDelivered

(* The common part of the four instructions. *)
LEMMA FetchFits ==
    ASSUME TablesConform, Inv, NEW op, Fetch(op)
    PROVE  /\ Conforms(build, prim, place)
           /\ ip \in 1 .. Len(prim.code) /\ ip \in Int /\ ip + 1 \in 1 .. Len(prim.code) + 1
           /\ prim.code[ip] \in Instruction /\ prim.code[ip].op = op
           /\ InstructionFits(build, prim, place, ip)
           /\ sp = FrameSP + prim.depth[ip]
           /\ FrameSP \in Int /\ prim.depth[ip] \in Int /\ prim.depth[ip + 1] \in Int
           /\ FrameSP + prim.depth[ip + 1] \in Cell
           /\ prim.laid[ip] \subseteq [arg : Slot, at : Int]
           /\ prim.laid[ip + 1] \subseteq [arg : Slot, at : Int]
<1>1. Conforms(build, prim, place)
  BY RunningConforms DEF Inv
<1>2. prim.code \in Seq(Instruction)
  BY <1>1 DEF Conforms, Shape
<1>3. ip \in 1 .. Len(prim.code) /\ ip \in Int /\ ip + 1 \in 1 .. Len(prim.code) + 1
  BY <1>2 DEF Fetch
<1>4. prim.code[ip] \in Instruction /\ prim.code[ip].op = op
  BY <1>2, <1>3 DEF Fetch
<1>5. InstructionFits(build, prim, place, ip)
  BY <1>1, <1>3 DEF Conforms
<1>6. sp = FrameSP + prim.depth[ip] /\ FrameSP \in Int
  BY StackAssumption DEF Inv, StackInStep, Fetch
<1>7. ip \in 1 .. Len(prim.code) + 1
  BY <1>2, <1>3
<1> QED BY <1>1, <1>3, <1>4, <1>5, <1>6, <1>7 DEF Conforms, Shape

(* A store below the caller's words changes none of them. *)
LEMMA ScratchStore ==
    ASSUME Inv, NEW c, Scratch(build, c), build.redZone \in Nat,
           NEW v \in Value, stack' = [stack EXCEPT ![c] = v]
    PROVE  /\ stack' \in [Cell -> Value]
           /\ \A o \in Owned(build) : stack'[o] = frame[o]
           /\ stack'[c] = v
           /\ \A o \in Cell \ {c} : stack'[o] = stack[o]
<1>1. stack \in [Cell -> Value] /\ \A o \in Owned(build) : stack[o] = frame[o]
  BY DEF Inv, TypeOK, StackInStep
<1>2. c \in Cell /\ c \notin Owned(build)
  BY StackAssumption DEF Scratch, Owned
<1>3. Owned(build) \subseteq Cell
  BY DEF Owned
<1> QED BY <1>1, <1>2, <1>3

(* A store of operand i at offset d establishes the next annotation. *)
LEMMA LaidStore ==
    ASSUME TablesConform, Inv, NEW op, Fetch(op), mode = "enter",
           NEW i \in Slot, NEW d \in Int, NEW c, c = FrameSP + d,
           Scratch(build, c), stack' = [stack EXCEPT ![c] = args[i]],
           Lays(prim.laid[ip], prim.laid[ip + 1], i, d)
    PROVE  \A l \in prim.laid[ip + 1] :
              FrameSP + l.at \in Cell /\ stack'[FrameSP + l.at] = args[l.arg]
<1>1. /\ args[i] \in Value /\ build.redZone \in Nat /\ FrameSP \in Int
      /\ prim.laid[ip + 1] \subseteq [arg : Slot, at : Int]
  BY FetchFits DEF Inv, TypeOK, Conforms, Shape
<1>2. stack'[c] = args[i] /\ \A o \in Cell \ {c} : stack'[o] = stack[o]
  BY <1>1, ScratchStore
<1> TAKE l \in prim.laid[ip + 1]
<1>3. CASE l = [arg |-> i, at |-> d]
  BY <1>2, <1>3 DEF Scratch
<1>4. CASE l \in prim.laid[ip] /\ l.at # d
  <2>1. FrameSP + l.at \in Cell /\ stack[FrameSP + l.at] = args[l.arg]
    BY <1>4 DEF Inv, OperandsInPlace
  <2>2. l.at \in Int
    BY <1>1
  <2>3. FrameSP + l.at # c
    BY <1>1, <1>4, <2>2
  <2> QED BY <1>2, <2>1, <2>3
<1> QED BY <1>3, <1>4 DEF Lays

LEMMA PushInv == ASSUME TablesConform, Inv, Push PROVE Inv'
<1> DEFINE i == prim.code[ip].arg
           d == prim.depth[ip] - 1
<1>1. /\ Fetch("push") /\ sp' = sp - 1 /\ ip' = ip + 1
      /\ stack' = [stack EXCEPT ![sp - 1] = OperandValue(i)]
      /\ UNCHANGED <<build, prim, place, args, regs, known, frame, mode, answer, ret>>
  BY DEF Push
<1>2. /\ Readable(build, place, i, prim.depth[ip])
      /\ Scratch(build, FrameSP + prim.depth[ip] - 1)
      /\ prim.depth[ip + 1] = prim.depth[ip] - 1
      /\ Lays(prim.laid[ip], prim.laid[ip + 1], i, d)
      /\ sp = FrameSP + prim.depth[ip] /\ FrameSP \in Int
      /\ prim.depth[ip] \in Int
      /\ FrameSP + prim.depth[ip + 1] \in Cell
      /\ ip + 1 \in 1 .. Len(prim.code) + 1
      /\ i \in Slot
  <2>1. /\ InstructionFits(build, prim, place, ip)
        /\ prim.code[ip] \in Instruction /\ prim.code[ip].op = "push"
    BY <1>1, FetchFits
  <2>2. /\ Readable(build, place, i, prim.depth[ip])
        /\ Scratch(build, FrameSP + prim.depth[ip] - 1)
        /\ prim.depth[ip + 1] = prim.depth[ip] - 1
        /\ Lays(prim.laid[ip], prim.laid[ip + 1], i, d)
    BY <2>1 DEF InstructionFits
  <2>3. i \in Slot
    BY <2>1 DEF Instruction
  <2> QED BY <1>1, <2>2, <2>3, FetchFits
<1>3. sp - 1 = FrameSP + d /\ d \in Int /\ sp' = FrameSP + prim.depth[ip + 1]
      /\ Scratch(build, sp - 1)
  BY <1>1, <1>2
<1>4. build.redZone \in Nat /\ Conforms(build, prim, place)
  BY <1>1, FetchFits DEF Conforms, Shape
<1>5. OperandValue(i) \in Value /\ (mode = "enter" => OperandValue(i) = args[i])
  BY <1>1, <1>2, <1>4, OperandRead DEF Fetch
<1> HIDE DEF i, d
<1>6. stack' \in [Cell -> Value] /\ \A o \in Owned(build) : stack'[o] = frame[o]
  BY <1>1, <1>3, <1>4, <1>5, ScratchStore
<1>7. mode = "enter" => \A l \in prim.laid[ip + 1] :
         FrameSP + l.at \in Cell /\ stack'[FrameSP + l.at] = args[l.arg]
  BY <1>1, <1>2, <1>3, <1>5, LaidStore
<1>8. TypeOK'
  BY <1>1, <1>2, <1>3, <1>6 DEF Inv, TypeOK
<1>9. OperandsInPlace'
  BY <1>1, <1>7 DEF Inv, OperandsInPlace, Fetch
<1>10. StackInStep'
  BY <1>1, <1>3, <1>6 DEF Inv, StackInStep, Fetch, Owned
<1> QED BY <1>1, <1>8, <1>9, <1>10
        DEF Inv, Fetch, DamageDeclared, BeliefsHold, ResultDelivered

LEMMA PokeInv == ASSUME TablesConform, Inv, Poke PROVE Inv'
<1> DEFINE i == prim.code[ip].arg
           d == prim.depth[ip] + prim.code[ip].off
<1>1. /\ Fetch("poke") /\ ip' = ip + 1
      /\ stack' = [stack EXCEPT ![sp + prim.code[ip].off] = OperandValue(i)]
      /\ UNCHANGED <<build, prim, place, args, regs, known, frame, sp, mode, answer, ret>>
  BY DEF Poke
<1>2. /\ Readable(build, place, i, prim.depth[ip])
      /\ Scratch(build, FrameSP + prim.depth[ip] + prim.code[ip].off)
      /\ prim.depth[ip + 1] = prim.depth[ip]
      /\ Lays(prim.laid[ip], prim.laid[ip + 1], i, d)
      /\ sp = FrameSP + prim.depth[ip] /\ FrameSP \in Int
      /\ prim.depth[ip] \in Int /\ prim.code[ip].off \in Int
      /\ ip + 1 \in 1 .. Len(prim.code) + 1
      /\ i \in Slot
  <2>1. /\ InstructionFits(build, prim, place, ip)
        /\ prim.code[ip] \in Instruction /\ prim.code[ip].op = "poke"
    BY <1>1, FetchFits
  <2>2. /\ Readable(build, place, i, prim.depth[ip])
        /\ Scratch(build, FrameSP + prim.depth[ip] + prim.code[ip].off)
        /\ prim.depth[ip + 1] = prim.depth[ip]
        /\ Lays(prim.laid[ip], prim.laid[ip + 1], i, d)
    BY <2>1 DEF InstructionFits
  <2>3. i \in Slot /\ prim.code[ip].off \in Int
    BY <2>1 DEF Instruction
  <2> QED BY <1>1, <2>2, <2>3, FetchFits
<1>3. sp + prim.code[ip].off = FrameSP + d /\ d \in Int
      /\ Scratch(build, sp + prim.code[ip].off)
  BY <1>2
<1>4. build.redZone \in Nat /\ Conforms(build, prim, place)
  BY <1>1, FetchFits DEF Conforms, Shape
<1>5. OperandValue(i) \in Value /\ (mode = "enter" => OperandValue(i) = args[i])
  BY <1>1, <1>2, <1>4, OperandRead DEF Fetch
<1> HIDE DEF i, d
<1>6. stack' \in [Cell -> Value] /\ \A o \in Owned(build) : stack'[o] = frame[o]
  BY <1>1, <1>3, <1>4, <1>5, ScratchStore
<1>7. mode = "enter" => \A l \in prim.laid[ip + 1] :
         FrameSP + l.at \in Cell /\ stack'[FrameSP + l.at] = args[l.arg]
  BY <1>1, <1>2, <1>3, <1>5, LaidStore
<1>8. TypeOK'
  BY <1>1, <1>2, <1>6 DEF Inv, TypeOK
<1>9. OperandsInPlace'
  BY <1>1, <1>7 DEF Inv, OperandsInPlace, Fetch
<1>10. StackInStep'
  BY <1>1, <1>2, <1>6 DEF Inv, StackInStep, Fetch, Owned
<1> QED BY <1>1, <1>8, <1>9, <1>10
        DEF Inv, Fetch, DamageDeclared, BeliefsHold, ResultDelivered

LEMMA AdjustInv == ASSUME TablesConform, Inv, Adjust PROVE Inv'
<1>1. /\ Fetch("adjust") /\ sp' = sp + prim.code[ip].off /\ ip' = ip + 1
      /\ UNCHANGED <<build, prim, place, args, regs, known, stack, frame, mode, answer, ret>>
  BY DEF Adjust
<1>2. /\ prim.depth[ip + 1] = prim.depth[ip] + prim.code[ip].off
      /\ prim.laid[ip + 1] \subseteq prim.laid[ip]
      /\ sp = FrameSP + prim.depth[ip] /\ FrameSP \in Int
      /\ prim.depth[ip] \in Int /\ prim.code[ip].off \in Int
      /\ FrameSP + prim.depth[ip + 1] \in Cell
      /\ ip + 1 \in 1 .. Len(prim.code) + 1
  <2>1. /\ InstructionFits(build, prim, place, ip)
        /\ prim.code[ip] \in Instruction /\ prim.code[ip].op = "adjust"
    BY <1>1, FetchFits
  <2>2. /\ prim.depth[ip + 1] = prim.depth[ip] + prim.code[ip].off
        /\ prim.laid[ip + 1] \subseteq prim.laid[ip]
    BY <2>1 DEF InstructionFits
  <2>3. prim.code[ip].off \in Int
    BY <2>1 DEF Instruction
  <2> QED BY <1>1, <2>2, <2>3, FetchFits
<1>3. sp' = FrameSP + prim.depth[ip + 1]
  BY <1>1, <1>2
<1>4. TypeOK'
  BY <1>1, <1>2, <1>3 DEF Inv, TypeOK
<1>5. OperandsInPlace'
  BY <1>1, <1>2 DEF Inv, OperandsInPlace, Fetch
<1>6. StackInStep'
  BY <1>1, <1>3 DEF Inv, StackInStep, Fetch, Owned
<1> QED BY <1>1, <1>4, <1>5, <1>6
        DEF Inv, Fetch, DamageDeclared, BeliefsHold, ResultDelivered

LEMMA TrapInv == ASSUME TablesConform, Inv, Trap PROVE Inv'
<1>1. /\ mode = "enter" /\ Fetch("trap") /\ mode' = "kernel"
      /\ UNCHANGED <<build, prim, place, args, regs, known, stack, frame, sp, ip, answer, ret>>
  BY DEF Trap
<1> QED BY <1>1 DEF Inv, TypeOK, OperandsInPlace, DamageDeclared, StackInStep,
                    BeliefsHold, ResultDelivered, Fetch, Owned

LEMMA KernelReturnInv ==
    ASSUME TablesConform, Inv, NEW v \in Answer,
           NEW destroyed \in {{}, build.kernel.volatile}, KernelReturn(v, destroyed)
    PROVE  Inv'
<1>1. /\ mode = "kernel" /\ answer' = v /\ mode' = "leave" /\ ip' = ip + 1
      /\ regs' = [r \in Register |->
                    IF r = build.kernel.result THEN v
                    ELSE IF r \in destroyed THEN Junk ELSE regs[r]]
      /\ UNCHANGED <<build, prim, place, args, known, stack, frame, sp, ret>>
  BY DEF KernelReturn
<1>2. Conforms(build, prim, place)
  BY RunningConforms DEF Inv
<1>3. /\ prim.out = build.kernel.result /\ prim.out \in Register
      /\ destroyed \subseteq prim.clobbers \union {prim.out}
  BY <1>2 DEF Conforms, Shape
<1>4. /\ prim.code \in Seq(Instruction) /\ ip \in DOMAIN prim.code
      /\ prim.code[ip].op = "trap"
  BY <1>1, <1>2 DEF Inv, StackInStep, Conforms, Shape
<1>5. ip \in 1 .. Len(prim.code) /\ ip + 1 \in 1 .. Len(prim.code) + 1
  BY <1>4
<1>6. prim.depth[ip + 1] = prim.depth[ip]
  BY <1>2, <1>4, <1>5 DEF Conforms, InstructionFits
<1>7. regs' \in [Register -> Value]
  BY <1>1, WordsAssumption DEF Inv, TypeOK
<1>8. TypeOK'
  BY <1>1, <1>5, <1>7, WordsAssumption DEF Inv, TypeOK
<1>9. DamageDeclared'
  BY <1>1, <1>3 DEF Inv, OperandsInPlace, DamageDeclared
<1>10. StackInStep'
  BY <1>1, <1>6 DEF Inv, StackInStep, Owned
<1> QED BY <1>1, <1>8, <1>9, <1>10 DEF Inv, OperandsInPlace, BeliefsHold, ResultDelivered

LEMMA ReturnInv == ASSUME TablesConform, Inv, Return PROVE Inv'
<1>1. /\ mode = "leave" /\ ip = Len(prim.code) + 1 /\ mode' = "caller"
      /\ ret' = regs[prim.out]
      /\ known' = [r \in Register |->
                     IF r \in prim.clobbers \union {prim.out} THEN Unknown ELSE known[r]]
      /\ UNCHANGED <<build, prim, place, args, regs, stack, frame, sp, ip, answer>>
  BY DEF Return
<1>2. prim.out \in Register /\ prim.depth[Len(prim.code) + 1] = 0
  BY RunningConforms DEF Inv, Conforms, Shape
<1>3. sp = FrameSP
  BY <1>1, <1>2, StackAssumption DEF Inv, StackInStep
<1>4. TypeOK'
  BY <1>1, <1>2 DEF Inv, TypeOK
<1>5. BeliefsHold'
  BY <1>1, <1>3 DEF Inv, StackInStep, DamageDeclared, BeliefsHold, Owned
<1>6. ResultDelivered'
  BY <1>1 DEF Inv, DamageDeclared, ResultDelivered
<1> QED BY <1>1, <1>4, <1>5, <1>6 DEF Inv, OperandsInPlace, DamageDeclared, StackInStep, Owned

(* Every step of every actor keeps the invariant. *)
LEMMA NextInv == ASSUME TablesConform, Inv, [Next]_vars PROVE Inv'
<1>1. ASSUME NEW p \in build.prims, NEW pl \in p.places, NEW a \in Argument,
             Load(p, pl, a)
      PROVE  Inv'
  BY <1>1, LoadInv
<1>2. CASE Push
  BY <1>2, PushInv
<1>3. CASE Poke
  BY <1>3, PokeInv
<1>4. CASE Adjust
  BY <1>4, AdjustInv
<1>5. CASE Trap
  BY <1>5, TrapInv
<1>6. ASSUME NEW v \in Answer, NEW destroyed \in {{}, build.kernel.volatile},
             KernelReturn(v, destroyed)
      PROVE  Inv'
  BY <1>6, KernelReturnInv
<1>7. CASE Return
  BY <1>7, ReturnInv
<1>8. CASE UNCHANGED vars
  BY <1>8 DEF vars, Inv, TypeOK, OperandsInPlace, DamageDeclared, StackInStep,
              BeliefsHold, ResultDelivered, Owned
<1> QED BY <1>1, <1>2, <1>3, <1>4, <1>5, <1>6, <1>7, <1>8 DEF Next

(* The invariant of the raw syscall layer: a table of asm statements that   *)
(* meets the static contract runs without a surprise for its caller or the  *)
(* kernel, whatever is called in whatever order.                            *)
THEOREM InvHolds == ASSUME TablesConform PROVE Spec => []Inv
<1>1. Init => Inv
  BY InitInv
<1>2. Inv /\ [Next]_vars => Inv'
  BY NextInv
<1> QED BY <1>1, <1>2, PTL DEF Spec

(* Registers, stack and program counter of syscall3, syscall6 and syscall7  *)
(* stay within their types: no template runs past its end or off the stack. *)
THEOREM TypeCorrect == ASSUME TablesConform PROVE Spec => []TypeOK
<1>1. Inv => TypeOK
  BY DEF Inv
<1> QED BY <1>1, InvHolds, PTL

(* The caller of a primitive never acts on a false belief about registers,  *)
(* stack pointer or the stack words it owns.                                *)
THEOREM CallerUndisturbed == ASSUME TablesConform PROVE Spec => []BeliefsHold
<1>1. Inv => BeliefsHold
  BY DEF Inv
<1> QED BY <1>1, InvHolds, PTL

(* A primitive returns what the kernel answered. *)
THEOREM AnswerReturned == ASSUME TablesConform PROVE Spec => []ResultDelivered
<1>1. Inv => ResultDelivered
  BY DEF Inv
<1> QED BY <1>1, InvHolds, PTL

(* At a trap the annotations put every argument where the kernel looks.     *)
LEMMA TrapServes ==
    ASSUME TablesConform, Inv, mode \in {"enter", "kernel"},
           ip \in DOMAIN prim.code, prim.code[ip].op = "trap",
           NEW i \in 0 .. prim.arity
    PROVE  Received(i) = args[i]
<1>1. Conforms(build, prim, place)
  BY RunningConforms DEF Inv
<1>2. /\ ip \in DOMAIN prim.code /\ prim.code[ip].op = "trap"
      /\ prim.code \in Seq(Instruction)
  BY <1>1 DEF Conforms, Shape
<1>3. InstructionFits(build, prim, place, ip)
  BY <1>1, <1>2 DEF Conforms
<1>4. /\ place.reg[0] = build.kernel.number
      /\ \A k \in 1 .. prim.arity :
           IF k <= Len(build.kernel.args)
           THEN k \in DOMAIN place.reg /\ place.reg[k] = build.kernel.args[k]
           ELSE [arg |-> k, at |-> prim.depth[ip] + k - Len(build.kernel.args)]
                  \in prim.laid[ip]
  BY <1>2, <1>3 DEF InstructionFits
<1>5. /\ \A k \in DOMAIN place.reg : regs[place.reg[k]] = args[k]
      /\ \A l \in prim.laid[ip] : stack[FrameSP + l.at] = args[l.arg]
  BY DEF Inv, OperandsInPlace
<1>6. CASE i = 0
  BY <1>1, <1>4, <1>5, <1>6 DEF Received, Conforms
<1>7. CASE i # 0 /\ i <= Len(build.kernel.args)
  <2>1. i \in DOMAIN place.reg /\ place.reg[i] = build.kernel.args[i]
    <3>1. prim.arity \in Slot
      BY <1>1 DEF Conforms, Shape
    <3>2. i \in 1 .. prim.arity
      BY <1>7, <3>1
    <3> QED BY <1>4, <1>7, <3>2
  <2>2. Received(i) = regs[build.kernel.args[i]]
    BY <1>7 DEF Received
  <2> QED BY <1>5, <2>1, <2>2
<1>8. CASE i # 0 /\ ~ (i <= Len(build.kernel.args))
  <2> DEFINE d == prim.depth[ip] + i - Len(build.kernel.args)
  <2>1. [arg |-> i, at |-> d] \in prim.laid[ip]
    <3>1. prim.arity \in Slot
      BY <1>1 DEF Conforms, Shape
    <3>2. i \in 1 .. prim.arity
      BY <1>8, <3>1
    <3> QED BY <1>4, <1>8, <3>2
  <2>2. stack[FrameSP + d] = args[i]
    BY <1>5, <2>1
  <2>3. sp + i - Len(build.kernel.args) = FrameSP + d
    <3>1. sp = FrameSP + prim.depth[ip]
      BY DEF Inv, StackInStep
    <3>2. FrameSP \in Int /\ prim.depth[ip] \in Int /\ Len(build.kernel.args) \in Int
      <4>1. build.kernel.args \in Seq(Register)
        BY <1>1 DEF Conforms, Shape
      <4>2. ip \in 1 .. Len(prim.code) + 1
        BY DEF Inv, TypeOK
      <4>3. prim.depth[ip] \in Int
        BY <1>1, <4>2 DEF Conforms, Shape
      <4>4. Len(build.kernel.args) \in Int
        BY <4>1
      <4>5. FrameSP \in Int
        BY StackAssumption
      <4> QED BY <4>3, <4>4, <4>5
    <3> QED BY <3>1, <3>2
  <2> HIDE DEF d
  <2> QED BY <1>8, <2>2, <2>3 DEF Received
<1> QED BY <1>6, <1>7, <1>8

LEMMA InvServes == ASSUME TablesConform, Inv PROVE KernelSeesCall
<1> SUFFICES ASSUME mode = "kernel", NEW i \in 0 .. prim.arity
             PROVE  Received(i) = args[i]
  BY DEF KernelSeesCall
<1>1. ip \in DOMAIN prim.code /\ prim.code[ip].op = "trap"
  BY DEF Inv, StackInStep
<1> QED BY <1>1, TrapServes

(* The kernel always receives the number and the arguments of the call.     *)
THEOREM KernelServed == ASSUME TablesConform PROVE Spec => []KernelSeesCall
<1>1. Inv => KernelSeesCall
  BY InvServes
<1> QED BY <1>1, InvHolds, PTL

-----------------------------------------------------------------------------
(* The refinement: every instruction of a template is a step of RawCall or  *)
(* invisible to it.                                                         *)

LEMMA InitRefines == ASSUME TablesConform, Init PROVE Contract!Init
<1>1. args \in [Slot -> Value] /\ mode = "caller" /\ answer = Unknown /\ ret = Unknown
  BY WordsAssumption DEF Init
<1> QED BY <1>1 DEF Contract!Init

LEMMA StepRefines ==
    ASSUME TablesConform, Inv, Inv', [Next]_vars
    PROVE  [Contract!Next]_(Contract!vars)
<1>1. ASSUME NEW p \in build.prims, NEW pl \in p.places, NEW a \in Argument,
             Load(p, pl, a)
      PROVE  Contract!Invoke
  <2>1. /\ mode = "caller" /\ mode' = "enter" /\ UNCHANGED <<answer, ret>>
    BY <1>1 DEF Load
  <2>2. args' \in [Slot -> Value]
    BY DEF Inv, TypeOK
  <2> QED BY <2>1, <2>2 DEF Contract!Invoke
<1>2. ASSUME mode \in {"enter", "leave"}, UNCHANGED <<mode, args, answer, ret>>
      PROVE  UNCHANGED Contract!vars
  BY <1>2 DEF Contract!vars
<1>3. CASE Push
  BY <1>2, <1>3 DEF Push, Fetch
<1>4. CASE Poke
  BY <1>2, <1>4 DEF Poke, Fetch
<1>5. CASE Adjust
  BY <1>2, <1>5 DEF Adjust, Fetch
<1>6. ASSUME Trap PROVE Contract!Ask
  <2>1. /\ mode = "enter" /\ Fetch("trap") /\ mode' = "kernel"
        /\ UNCHANGED <<build, prim, regs, stack, sp, args, answer, ret>>
    BY <1>6 DEF Trap
  <2>2. prim.arity \in Slot /\ args \in [Slot -> Value]
    BY RunningConforms DEF Inv, TypeOK, Conforms, Shape
  <2>3. \A i \in 0 .. prim.arity : Received(i)' = args[i]
    <3>1. \A i \in 0 .. prim.arity : Received(i) = args[i]
      BY <2>1, TrapServes DEF Fetch
    <3> QED BY <2>1, <3>1 DEF Received
  <2>4. [i \in Slot |-> IF i <= prim.arity THEN Received(i) ELSE args[i]]' = args
    BY <2>1, <2>2, <2>3
  <2> QED BY <2>1, <2>4 DEF Contract!Ask
<1>7. ASSUME NEW v \in Answer, NEW destroyed \in {{}, build.kernel.volatile},
             KernelReturn(v, destroyed)
      PROVE  Contract!Serve
  <2>1. mode = "kernel" /\ mode' = "leave" /\ answer' = v /\ UNCHANGED <<args, ret>>
    BY <1>7 DEF KernelReturn
  <2> QED BY <2>1 DEF Contract!Serve
<1>8. ASSUME Return PROVE Contract!Deliver
  <2>1. /\ mode = "leave" /\ mode' = "caller" /\ ret' = regs[prim.out]
        /\ UNCHANGED <<args, answer>>
    BY <1>8 DEF Return
  <2>2. regs[prim.out] = answer
    BY <2>1 DEF Inv, DamageDeclared
  <2> QED BY <2>1, <2>2 DEF Contract!Deliver
<1>9. ASSUME UNCHANGED vars PROVE UNCHANGED Contract!vars
  BY <1>9 DEF vars, Contract!vars, Received
<1> QED BY <1>1, <1>3, <1>4, <1>5, <1>6, <1>7, <1>8, <1>9 DEF Next, Contract!Next

(* A raw primitive is RawCall: the kernel is asked once, for exactly the    *)
(* call that was made, and its answer is what the primitive returns.  The   *)
(* wrappers of posix.cpp rely on no more than that.                         *)
THEOREM PrimitiveIsRawCall == ASSUME TablesConform PROVE Spec => Implements
<1>1. Init => Contract!Init
  BY InitRefines
<1>2. Inv /\ Inv' /\ [Next]_vars => [Contract!Next]_(Contract!vars)
  BY StepRefines
<1>3. Spec => []Inv
  BY InvHolds
<1> QED BY <1>1, <1>2, <1>3, PTL DEF Spec, Implements, Contract!Spec
=============================================================================
