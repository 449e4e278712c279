------------------------- MODULE SyscallTablesProofs -------------------------
(***************************************************************************)
(* The three kinds of asm statement the partitions are made of, and when   *)
(* each meets the static contract: for any kernel, registers and number of *)
(* arguments it is enough to compare the statement's lists with the        *)
(* kernel's.  What else each kind asks of a build is named here: nothing,  *)
(* a caller without a red zone, and one that addresses its frame through a *)
(* frame pointer or keeps no operand there.  Then the tables themselves,   *)
(* one lemma each, and what follows for the library.                       *)
(***************************************************************************)
EXTENDS SyscallTables, SyscallMachineProofs

USE DEF Slot

\* A build and a kernel of the shapes they are meant to have.
BuildShape(b) ==
    /\ b.redZone \in Nat /\ b.framePointer \in BOOLEAN
    /\ b.kernel.number \in Register /\ b.kernel.result \in Register
    /\ b.kernel.args \in Seq(Register)

\* What a statement declares covers what the kernel destroys.
Declares(b, out, clobbers) ==
    /\ out = b.kernel.result
    /\ b.kernel.volatile \subseteq clobbers \union {out}

\* The registers of the list are distinct, and up to the n-th argument those
\* the kernel reads.
Agrees(b, list, n) ==
    /\ list \in Seq(Register) /\ n + 1 <= Len(list) /\ Len(list) <= 8
    /\ \A i, j \in 1 .. Len(list) : list[i] = list[j] => i = j
    /\ list[1] = b.kernel.number
    /\ n <= Len(b.kernel.args)
    /\ \A i \in 1 .. n : list[i + 1] = b.kernel.args[i]

LEMMA PlacedInRegisters ==
    ASSUME NEW list \in Seq(Register), 1 <= Len(list), Len(list) <= 8,
           \A i, j \in 1 .. Len(list) : list[i] = list[j] => i = j
    PROVE  /\ PlacedOnce(InRegisters(list))
           /\ InRegisters(list).reg = [i \in 0 .. Len(list) - 1 |-> list[i + 1]]
           /\ InRegisters(list).mem = << >>
BY DEF PlacedOnce, InRegisters

-----------------------------------------------------------------------------
(* InstructionFits, one kind of instruction at a time. *)

LEMMA PushFits ==
    ASSUME NEW b, NEW p, NEW pl, NEW k, NEW i, p.code[k].op = "push", p.code[k].arg = i,
           Readable(b, pl, i, p.depth[k]), Scratch(b, FrameSP + p.depth[k] - 1),
           p.depth[k + 1] = p.depth[k] - 1,
           Lays(p.laid[k], p.laid[k + 1], i, p.depth[k] - 1)
    PROVE  InstructionFits(b, p, pl, k)
BY DEF InstructionFits

LEMMA PokeFits ==
    ASSUME NEW b, NEW p, NEW pl, NEW k, NEW i, NEW off, p.code[k].op = "poke",
           p.code[k].arg = i, p.code[k].off = off,
           Readable(b, pl, i, p.depth[k]), Scratch(b, FrameSP + p.depth[k] + off),
           p.depth[k + 1] = p.depth[k],
           Lays(p.laid[k], p.laid[k + 1], i, p.depth[k] + off)
    PROVE  InstructionFits(b, p, pl, k)
BY DEF InstructionFits

LEMMA AdjustFits ==
    ASSUME NEW b, NEW p, NEW pl, NEW k, p.code[k].op = "adjust",
           p.depth[k + 1] = p.depth[k] + p.code[k].off, p.laid[k + 1] \subseteq p.laid[k]
    PROVE  InstructionFits(b, p, pl, k)
BY DEF InstructionFits

LEMMA TrapFits ==
    ASSUME NEW b, NEW p, NEW pl, NEW k, p.code[k].op = "trap",
           p.depth[k + 1] = p.depth[k], p.laid[k + 1] = {},
           pl.reg[0] = b.kernel.number,
           \A i \in 1 .. p.arity :
              IF i <= Len(b.kernel.args)
              THEN i \in DOMAIN pl.reg /\ pl.reg[i] = b.kernel.args[i]
              ELSE [arg |-> i, at |-> p.depth[k] + i - Len(b.kernel.args)] \in p.laid[k]
    PROVE  InstructionFits(b, p, pl, k)
BY DEF InstructionFits

-----------------------------------------------------------------------------
(* A trap and nothing else: no condition on frame or red zone.              *)
LEMMA RegisterCallConforms ==
    ASSUME NEW b, BuildShape(b), NEW k \in 1 .. 7, NEW list, Agrees(b, list, k),
           NEW out, NEW clobbers, Declares(b, out, clobbers)
    PROVE  Conforms(b, RegisterCall(k, list, out, clobbers), InRegisters(list))
<1> DEFINE p == RegisterCall(k, list, out, clobbers)
           pl == InRegisters(list)
<1>1. /\ p.arity = k /\ p.out = out /\ p.clobbers = clobbers /\ p.code = <<trap>>
      /\ p.depth = <<0, 0>> /\ p.laid = <<{}, {}>>
  BY DEF RegisterCall
<1>2. /\ PlacedOnce(pl) /\ pl.mem = << >>
      /\ pl.reg = [i \in 0 .. Len(list) - 1 |-> list[i + 1]]
  BY PlacedInRegisters DEF Agrees
<1>3. trap \in Instruction /\ trap.op = "trap"
  BY DEF trap, Instruction
<1> HIDE DEF p, pl
<1>4. Shape(b, p, pl)
  <2>1. p.code \in Seq(Instruction) /\ Len(p.code) = 1
    BY <1>1, <1>3
  <2>2. p.depth \in [1 .. 2 -> Int] /\ \A i \in 1 .. 2 : p.depth[i] = 0
    BY <1>1
  <2>3. p.laid \in [1 .. 2 -> SUBSET [arg : Slot, at : Int]]
    BY <1>1
  <2>4. \A i \in 1 .. 2 : FrameSP + p.depth[i] \in Cell
    BY <2>2, StackAssumption
  <2>5. p.arity \in Slot /\ p.out \in Register
    BY <1>1 DEF BuildShape, Declares
  <2> QED BY <2>1, <2>2, <2>3, <2>4, <2>5 DEF Shape, BuildShape
<1>5. InstructionFits(b, p, pl, 1)
  <2>1. pl.reg[0] = b.kernel.number
    BY <1>2 DEF Agrees
  <2>2. ASSUME NEW i \in 1 .. k
        PROVE  /\ i <= Len(b.kernel.args)
               /\ i \in DOMAIN pl.reg /\ pl.reg[i] = b.kernel.args[i]
    BY <1>2 DEF Agrees, BuildShape
  <2>3. /\ p.code[1].op = "trap"
        /\ p.depth[1 + 1] = p.depth[1] /\ p.laid[1 + 1] = {}
    BY <1>1, <1>3
  <2>4. \A i \in 1 .. p.arity :
           IF i <= Len(b.kernel.args)
           THEN i \in DOMAIN pl.reg /\ pl.reg[i] = b.kernel.args[i]
           ELSE [arg |-> i, at |-> p.depth[1] + i - Len(b.kernel.args)] \in p.laid[1]
    BY <1>1, <2>2
  <2> QED BY <2>1, <2>3, <2>4, TrapFits
<1>6. 0 \in DOMAIN pl.reg
  BY <1>2 DEF Agrees
<1> QED BY <1>1, <1>2, <1>4, <1>5, <1>6 DEF Conforms, Declares, p, pl

-----------------------------------------------------------------------------
(* syscall7 of amd64: six registers and a store below the stack pointer,    *)
(* which is scratch only where there is no red zone.                        *)
LEMMA PokeCallConforms ==
    ASSUME NEW b, BuildShape(b), b.redZone = 0, FrameSP - 2 .. FrameSP \subseteq Cell,
           NEW list, Agrees(b, list, 6), Len(list) = 8, Len(b.kernel.args) = 6,
           NEW out, NEW clobbers, Declares(b, out, clobbers)
    PROVE  Conforms(b, PokeCall(list, out, clobbers), InRegisters(list))
<1> DEFINE p == PokeCall(list, out, clobbers)
           pl == InRegisters(list)
<1>1. /\ p.arity = 7 /\ p.out = out /\ p.clobbers = clobbers
      /\ p.code = <<adjust(-2), poke(7, 1), trap, adjust(2)>>
      /\ p.depth = <<0, -2, -2, -2, 0>>
      /\ p.laid = <<{}, {}, {[arg |-> 7, at |-> -1]}, {}, {}>>
  BY DEF PokeCall
<1>2. /\ PlacedOnce(pl) /\ pl.mem = << >>
      /\ pl.reg = [i \in 0 .. Len(list) - 1 |-> list[i + 1]]
  <2>1. /\ list \in Seq(Register) /\ 1 <= Len(list) /\ Len(list) <= 8
        /\ \A i, j \in 1 .. Len(list) : list[i] = list[j] => i = j
    BY DEF Agrees
  <2> QED BY <2>1, PlacedInRegisters
<1>3. /\ adjust(-2) \in Instruction /\ adjust(2) \in Instruction
      /\ poke(7, 1) \in Instruction /\ trap \in Instruction
      /\ adjust(-2).op = "adjust" /\ adjust(-2).off = -2
      /\ adjust(2).op = "adjust" /\ adjust(2).off = 2
      /\ poke(7, 1).op = "poke" /\ poke(7, 1).arg = 7 /\ poke(7, 1).off = 1
      /\ trap.op = "trap"
  BY DEF adjust, poke, trap, Instruction
<1> HIDE DEF p, pl
<1>4. Shape(b, p, pl)
  <2>1. p.code \in Seq(Instruction) /\ Len(p.code) = 4
    BY <1>1, <1>3
  <2>2. p.depth \in [1 .. 5 -> Int] /\ \A k \in 1 .. 5 : p.depth[k] \in {0, -2}
    BY <1>1
  <2>3. p.laid \in [1 .. 5 -> SUBSET [arg : Slot, at : Int]]
    BY <1>1
  <2>4. FrameSP \in Int /\ FrameSP - 2 \in Cell /\ FrameSP \in Cell
    BY StackAssumption
  <2> QED BY <1>1, <2>1, <2>2, <2>3, <2>4 DEF Shape, BuildShape, Declares
<1>5. InstructionFits(b, p, pl, 1) /\ InstructionFits(b, p, pl, 4)
  <2>1. /\ p.code[1].op = "adjust"
        /\ p.depth[1 + 1] = p.depth[1] + p.code[1].off
        /\ p.laid[1 + 1] \subseteq p.laid[1]
    BY <1>1, <1>3
  <2>2. /\ p.code[4].op = "adjust"
        /\ p.depth[4 + 1] = p.depth[4] + p.code[4].off
        /\ p.laid[4 + 1] \subseteq p.laid[4]
    BY <1>1, <1>3
  <2>3. InstructionFits(b, p, pl, 1)
    BY <2>1, AdjustFits
  <2>4. InstructionFits(b, p, pl, 4)
    BY <2>2, AdjustFits
  <2> QED BY <2>3, <2>4
<1>6. InstructionFits(b, p, pl, 2)
  <2>1. p.depth[2] = -2 /\ p.depth[2 + 1] = p.depth[2] /\ p.depth[2] + 1 = -1
    BY <1>1
  <2>2. Scratch(b, FrameSP + p.depth[2] + 1)
    <3>1. FrameSP + p.depth[2] + 1 = FrameSP - 1
      BY <2>1, StackAssumption
    <3>2. FrameSP - 1 \in Cell /\ FrameSP - 1 < FrameSP - b.redZone
      BY StackAssumption
    <3> QED BY <3>1, <3>2 DEF Scratch
  <2>3. Readable(b, pl, 7, p.depth[2])
    BY <1>2 DEF Readable
  <2>4. Lays(p.laid[2], p.laid[2 + 1], 7, p.depth[2] + 1)
    <3>1. p.laid[2 + 1] = {[arg |-> 7, at |-> p.depth[2] + 1]}
      BY <1>1, <2>1
    <3> QED BY <3>1 DEF Lays
  <2>5. p.code[2].op = "poke" /\ p.code[2].arg = 7 /\ p.code[2].off = 1
    BY <1>1, <1>3
  <2> QED BY <2>1, <2>2, <2>3, <2>4, <2>5, PokeFits
<1>7. InstructionFits(b, p, pl, 3)
  <2>1. pl.reg[0] = b.kernel.number
    BY <1>2 DEF Agrees
  <2>2. ASSUME NEW i \in 1 .. 6
        PROVE  i \in DOMAIN pl.reg /\ pl.reg[i] = b.kernel.args[i]
    <3>1. i \in 0 .. Len(list) - 1
      OBVIOUS
    <3>2. i \in DOMAIN pl.reg /\ pl.reg[i] = list[i + 1]
      BY <1>2, <3>1
    <3>3. list[i + 1] = b.kernel.args[i]
      BY DEF Agrees
    <3> QED BY <3>2, <3>3
  <2>3. /\ p.code[3].op = "trap" /\ p.depth[3] = -2
        /\ p.depth[3 + 1] = p.depth[3] /\ p.laid[3 + 1] = {}
        /\ p.laid[3] = {[arg |-> 7, at |-> -1]}
    BY <1>1, <1>3
  <2>4. [arg |-> 7, at |-> p.depth[3] + 7 - Len(b.kernel.args)] \in p.laid[3]
    BY <2>3
  <2>5. \A i \in 1 .. p.arity :
           IF i <= Len(b.kernel.args)
           THEN i \in DOMAIN pl.reg /\ pl.reg[i] = b.kernel.args[i]
           ELSE [arg |-> i, at |-> p.depth[3] + i - Len(b.kernel.args)] \in p.laid[3]
    <3> SUFFICES ASSUME NEW i \in 1 .. 7
                 PROVE  IF i <= Len(b.kernel.args)
                        THEN i \in DOMAIN pl.reg /\ pl.reg[i] = b.kernel.args[i]
                        ELSE [arg |-> i, at |-> p.depth[3] + i - Len(b.kernel.args)]
                               \in p.laid[3]
      BY <1>1
    <3>1. CASE i = 7
      BY <2>4, <3>1
    <3>2. CASE i \in 1 .. 6
      BY <2>2, <3>2
    <3> QED BY <3>1, <3>2
  <2> QED BY <2>1, <2>3, <2>5, TrapFits
<1>8. 0 \in DOMAIN pl.reg
  BY <1>2 DEF Agrees
<1>9. \A k \in 1 .. Len(p.code) : InstructionFits(b, p, pl, k)
  BY <1>1, <1>5, <1>6, <1>7
<1>10. Len(p.code) + 1 = 5
  BY <1>1
<1> QED BY <1>1, <1>2, <1>4, <1>8, <1>9, <1>10 DEF Conforms, Declares, p, pl

-----------------------------------------------------------------------------
(* syscall<k> of i386: operands and a filler pushed one by one.  The caller  *)
(* must have no red zone, and its stack operands must not move with the      *)
(* stack pointer.                                                            *)
LEMMA PushCallConforms ==
    ASSUME NEW b, BuildShape(b), b.redZone = 0, NEW k \in 1 .. 7,
           FrameSP - (k + 1) .. FrameSP \subseteq Cell,
           b.kernel.args = << >>, Declares(b, "eax", CC),
           NEW places, NEW pl, PlacedOnce(pl), 0 \in DOMAIN pl.reg,
           pl.reg[0] = b.kernel.number, b.framePointer \/ DOMAIN pl.mem = {}
    PROVE  Conforms(b, PushCall(k, places), pl)
<1> DEFINE p == PushCall(k, places)
<1>1. /\ p.arity = k /\ p.out = "eax" /\ p.clobbers = CC
      /\ p.code = [j \in 1 .. k + 3 |->
                     IF j <= k + 1 THEN push(k + 1 - j)
                     ELSE IF j = k + 2 THEN trap ELSE adjust(k + 1)]
      /\ p.depth = [j \in 1 .. k + 4 |->
                      IF j <= k + 2 THEN 1 - j ELSE IF j = k + 3 THEN - (k + 1) ELSE 0]
      /\ p.laid = [j \in 1 .. k + 4 |->
                     IF j <= k + 2 THEN {[arg |-> k + 1 - m, at |-> - m] : m \in 1 .. j - 1}
                     ELSE {}]
  BY DEF PushCall
<1> HIDE DEF p
<1>2. ASSUME NEW i \in Slot
      PROVE  push(i) \in Instruction /\ push(i).op = "push" /\ push(i).arg = i
  BY DEF push, Instruction
<1>3. /\ trap \in Instruction /\ trap.op = "trap"
      /\ adjust(k + 1) \in Instruction
      /\ adjust(k + 1).op = "adjust" /\ adjust(k + 1).off = k + 1
  BY DEF trap, adjust, Instruction
<1>4. \A i : \A d : Readable(b, pl, i, d)
  BY DEF Readable
<1>5. p.code \in Seq(Instruction) /\ Len(p.code) = k + 3
  <2>1. ASSUME NEW j \in 1 .. k + 3
        PROVE  p.code[j] \in Instruction
    <3>1. CASE j <= k + 1
      <4>1. k + 1 - j \in Slot /\ p.code[j] = push(k + 1 - j)
        BY <1>1, <3>1
      <4> QED BY <4>1, <1>2
    <3>2. CASE j = k + 2
      BY <1>1, <1>3, <3>2
    <3>3. CASE j = k + 3
      BY <1>1, <1>3, <3>3
    <3> QED BY <3>1, <3>2, <3>3
  <2>2. p.code = [j \in 1 .. k + 3 |-> p.code[j]]
    BY <1>1
  <2> QED BY <2>1, <2>2
<1>6. ASSUME NEW j \in 1 .. k + 1
      PROVE  InstructionFits(b, p, pl, j)
  <2>0. k + 1 - j \in Slot /\ p.code[j] = push(k + 1 - j)
    <3>1. j \in 1 .. k + 3 /\ j <= k + 1 /\ k + 1 - j \in Slot
      OBVIOUS
    <3> QED BY <1>1, <3>1
  <2>1. p.code[j].op = "push" /\ p.code[j].arg = k + 1 - j
    BY <2>0, <1>2
  <2>2. p.depth[j] = 1 - j /\ p.depth[j + 1] = p.depth[j] - 1 /\ p.depth[j] - 1 = - j
    BY <1>1
  <2>3. Scratch(b, FrameSP + p.depth[j] - 1)
    <3>1. FrameSP + p.depth[j] - 1 = FrameSP - j
      BY <2>2, StackAssumption
    <3>2. FrameSP - j \in Cell /\ FrameSP - j < FrameSP - b.redZone
      BY StackAssumption
    <3> QED BY <3>1, <3>2 DEF Scratch
  <2>4. Lays(p.laid[j], p.laid[j + 1], k + 1 - j, p.depth[j] - 1)
    <3>1. p.laid[j] = {[arg |-> k + 1 - m, at |-> - m] : m \in 1 .. j - 1}
      BY <1>1
    <3>2. p.laid[j + 1] = {[arg |-> k + 1 - m, at |-> - m] : m \in 1 .. j}
      BY <1>1
    <3>3. ASSUME NEW m \in 1 .. j - 1
          PROVE  /\ [arg |-> k + 1 - m, at |-> - m] \in p.laid[j]
                 /\ - m # p.depth[j] - 1
      BY <3>1, <2>2
    <3>4. \A l \in p.laid[j + 1] :
             l = [arg |-> k + 1 - j, at |-> p.depth[j] - 1]
               \/ (l \in p.laid[j] /\ l.at # p.depth[j] - 1)
      <4> SUFFICES ASSUME NEW m \in 1 .. j
                   PROVE  LET l == [arg |-> k + 1 - m, at |-> - m]
                          IN  l = [arg |-> k + 1 - j, at |-> p.depth[j] - 1]
                                \/ (l \in p.laid[j] /\ l.at # p.depth[j] - 1)
        BY <3>2
      <4>1. CASE m = j
        BY <4>1, <2>2
      <4>2. CASE m \in 1 .. j - 1
        BY <4>2, <3>3
      <4> QED BY <4>1, <4>2
    <3> QED BY <3>4 DEF Lays
  <2>5. Readable(b, pl, k + 1 - j, p.depth[j])
    BY <1>4, <2>0
  <2> QED BY <2>1, <2>2, <2>3, <2>4, <2>5, PushFits
<1>7. InstructionFits(b, p, pl, k + 2)
  <2>1. /\ p.code[k + 2].op = "trap" /\ p.depth[k + 2] = - (k + 1)
        /\ p.depth[k + 2 + 1] = p.depth[k + 2] /\ p.laid[k + 2 + 1] = {}
        /\ p.laid[k + 2] = {[arg |-> k + 1 - m, at |-> - m] : m \in 1 .. k + 1}
    BY <1>1, <1>3
  <2>2. ASSUME NEW i \in 1 .. p.arity
        PROVE  IF i <= Len(b.kernel.args)
               THEN i \in DOMAIN pl.reg /\ pl.reg[i] = b.kernel.args[i]
               ELSE [arg |-> i, at |-> p.depth[k + 2] + i - Len(b.kernel.args)]
                      \in p.laid[k + 2]
    <3> DEFINE m == k + 1 - i
    <3>1. m \in 1 .. k + 1 /\ k + 1 - m = i /\ - m = p.depth[k + 2] + i
      BY <1>1, <2>1
    <3>2. Len(b.kernel.args) = 0
      OBVIOUS
    <3>3. p.depth[k + 2] + i - Len(b.kernel.args) = - m
      BY <3>1, <3>2, <2>1, <1>1
    <3>4. [arg |-> k + 1 - m, at |-> - m] \in p.laid[k + 2]
      BY <2>1, <3>1
    <3>5. ~(i <= Len(b.kernel.args))
      BY <3>2, <1>1
    <3> QED BY <3>1, <3>3, <3>4, <3>5
  <2> QED BY <2>1, <2>2, TrapFits
<1>8. InstructionFits(b, p, pl, k + 3)
  <2>1. /\ p.code[k + 3].op = "adjust" /\ p.code[k + 3].off = k + 1
        /\ p.depth[k + 3 + 1] = p.depth[k + 3] + p.code[k + 3].off
        /\ p.laid[k + 3 + 1] \subseteq p.laid[k + 3]
    BY <1>1, <1>3
  <2> QED BY <2>1, AdjustFits
<1>9. Shape(b, p, pl)
  <2>1. Len(p.code) + 1 = k + 4
    BY <1>5
  <2>2. p.depth \in [1 .. k + 4 -> Int]
        /\ \A j \in 1 .. k + 4 : p.depth[j] \in - (k + 1) .. 0
    BY <1>1
  <2>3. \A j \in 1 .. k + 4 : FrameSP + p.depth[j] \in Cell
    BY <2>2, StackAssumption
  <2>4. p.laid \in [1 .. k + 4 -> SUBSET [arg : Slot, at : Int]]
    <3>1. \A m \in 1 .. k + 1 :
             [arg |-> k + 1 - m, at |-> - m] \in [arg : Slot, at : Int]
      OBVIOUS
    <3>2. ASSUME NEW j \in 1 .. k + 4
          PROVE  p.laid[j] \in SUBSET [arg : Slot, at : Int]
      <4>1. CASE j <= k + 2
        <5>1. p.laid[j] = {[arg |-> k + 1 - m, at |-> - m] : m \in 1 .. j - 1}
          BY <1>1, <4>1
        <5>2. 1 .. j - 1 \subseteq 1 .. k + 1
          BY <4>1
        <5> QED BY <5>1, <5>2, <3>1
      <4>2. CASE j > k + 2
        BY <1>1, <4>2
      <4> QED BY <4>1, <4>2
    <3>3. p.laid = [j \in 1 .. k + 4 |-> p.laid[j]]
      BY <1>1
    <3> QED BY <3>2, <3>3
  <2>5. /\ p.depth \in [1 .. Len(p.code) + 1 -> Int]
        /\ p.laid \in [1 .. Len(p.code) + 1 -> SUBSET [arg : Slot, at : Int]]
        /\ \A j \in 1 .. Len(p.code) + 1 : FrameSP + p.depth[j] \in Cell
    BY <2>1, <2>2, <2>3, <2>4
  <2>6. p.arity \in Slot /\ p.out \in Register /\ p.code \in Seq(Instruction)
    BY <1>1, <1>5 DEF BuildShape, Declares
  <2> QED BY <2>5, <2>6 DEF Shape, BuildShape
<1>10. \A j \in 1 .. Len(p.code) : InstructionFits(b, p, pl, j)
  <2> SUFFICES ASSUME NEW j \in 1 .. k + 3
               PROVE  InstructionFits(b, p, pl, j)
    BY <1>5
  <2>1. CASE j \in 1 .. k + 1
    BY <2>1, <1>6
  <2>2. CASE j = k + 2
    BY <2>2, <1>7
  <2>3. CASE j = k + 3
    BY <2>3, <1>8
  <2> QED BY <2>1, <2>2, <2>3
<1>11. p.depth[1] = 0 /\ p.laid[1] = {} /\ p.depth[Len(p.code) + 1] = 0
  BY <1>1, <1>5
<1> QED BY <1>1, <1>9, <1>10, <1>11 DEF Conforms, Declares, p

-----------------------------------------------------------------------------
(* p is a statement of one of the three kinds, with lists that agree with   *)
(* the kernel of b, and b grants it what its kind asks for.                 *)
HasKind(b, p) ==
    \/ \E k \in 1 .. 7 : \E list \in Seq(Register) : \E clobbers \in SUBSET Register :
          /\ Agrees(b, list, k)
          /\ Declares(b, b.kernel.result, clobbers)
          /\ p = RegisterCall(k, list, b.kernel.result, clobbers)
    \/ \E list \in Seq(Register) : \E clobbers \in SUBSET Register :
          /\ b.redZone = 0 /\ Len(b.kernel.args) = 6 /\ Len(list) = 8
          /\ Agrees(b, list, 6)
          /\ Declares(b, b.kernel.result, clobbers)
          /\ p = PokeCall(list, b.kernel.result, clobbers)
    \/ \E k \in 1 .. 7 :
          /\ b.redZone = 0 /\ b.kernel.args = << >>
          /\ Declares(b, "eax", CC)
          /\ p = PushCall(k, p.places)
          /\ \A pl \in p.places :
                /\ PlacedOnce(pl)
                /\ 0 \in DOMAIN pl.reg /\ pl.reg[0] = b.kernel.number
                /\ b.framePointer \/ DOMAIN pl.mem = {}

LEMMA KindConforms ==
    ASSUME NEW b, BuildShape(b), NEW p, HasKind(b, p), NEW pl \in p.places,
           FrameSP - 8 .. FrameSP \subseteq Cell
    PROVE  Conforms(b, p, pl)
<1>0. FrameSP \in Int
  BY StackAssumption
<1>1. ASSUME NEW k \in 1 .. 7, NEW list \in Seq(Register), NEW clobbers \in SUBSET Register,
             Agrees(b, list, k), Declares(b, b.kernel.result, clobbers),
             p = RegisterCall(k, list, b.kernel.result, clobbers)
      PROVE  Conforms(b, p, pl)
  <2>1. pl = InRegisters(list)
    BY <1>1 DEF RegisterCall
  <2> QED BY <1>1, <2>1, RegisterCallConforms
<1>2. ASSUME NEW list \in Seq(Register), NEW clobbers \in SUBSET Register,
             b.redZone = 0, Len(b.kernel.args) = 6, Len(list) = 8,
             Agrees(b, list, 6), Declares(b, b.kernel.result, clobbers),
             p = PokeCall(list, b.kernel.result, clobbers)
      PROVE  Conforms(b, p, pl)
  <2>1. pl = InRegisters(list)
    BY <1>2 DEF PokeCall
  <2>2. FrameSP - 2 .. FrameSP \subseteq Cell
    BY <1>0
  <2> QED BY <1>2, <2>1, <2>2, PokeCallConforms
<1>3. ASSUME NEW k \in 1 .. 7, b.redZone = 0, b.kernel.args = << >>,
             Declares(b, "eax", CC), p = PushCall(k, p.places),
             PlacedOnce(pl), 0 \in DOMAIN pl.reg, pl.reg[0] = b.kernel.number,
             b.framePointer \/ DOMAIN pl.mem = {}
      PROVE  Conforms(b, p, pl)
  <2>1. FrameSP - (k + 1) .. FrameSP \subseteq Cell
    BY <1>0
  <2>2. Conforms(b, PushCall(k, p.places), pl)
    BY <1>3, <2>1, PushCallConforms
  <2> QED BY <1>3, <2>2
<1> QED BY <1>1, <1>2, <1>3 DEF HasKind

(* ContractMet, for every table of the three kinds: a partition that lists  *)
(* the operand registers in the kernel's order and the destroyed registers  *)
(* in the clobbers meets the static contract, if its stack arguments are    *)
(* compiled without a red zone and with a frame pointer (or no operand in   *)
(* the frame).  The "syscall" and "svc" partitions need nothing else.       *)
THEOREM KindsKeepContract ==
    ASSUME \A b \in Build : BuildShape(b) /\ \A p \in b.prims : HasKind(b, p),
           FrameSP - 8 .. FrameSP \subseteq Cell
    PROVE  Spec => []ContractMet
<1>1. TablesConform
  BY KindConforms DEF TablesConform
<1>2. TypeOK => ContractMet
  BY <1>1 DEF TypeOK, TablesConform, ContractMet
<1>3. Spec => []TypeOK
  BY <1>1, TypeCorrect
<1> QED BY <1>2, <1>3, PTL

(* The i386 BSD partitions (syscall_bsd_i386.cpp) are such a table in every *)
(* build with a frame pointer, wherever the compiler puts the "g" operands: *)
(* any seven words of the frame will do.                                    *)
THEOREM BSDI386HasKinds ==
    ASSUME NEW b, b.kernel = BSDKernel.i386, b.redZone = 0, b.framePointer = TRUE,
           {"eax", "ecx", "edx", "ebx", "esi", "edi", "flags"} \subseteq Register,
           FrameSP .. FrameSP + 7 \subseteq Cell
    PROVE  \A p \in BSDI386 : HasKind(b, p)
<1>1. /\ b.kernel.number = "eax" /\ b.kernel.result = "eax"
      /\ b.kernel.args = << >> /\ b.kernel.volatile = CC
  BY DEF BSDKernel, Convention
<1>2. Declares(b, "eax", CC)
  BY <1>1 DEF Declares
<1>3. /\ I386Registers \in Seq(Register) /\ Len(I386Registers) = 5
      /\ \A i \in 1 .. 5 : I386Registers[i] \in Register /\ I386Registers[i] # "eax"
      /\ \A i, j \in 1 .. 5 : I386Registers[i] = I386Registers[j] => i = j
  BY DEF I386Registers
<1>4. ASSUME NEW k \in 1 .. 7, NEW pl \in GeneralPlaces(k)
      PROVE  PlacedOnce(pl) /\ 0 \in DOMAIN pl.reg /\ pl.reg[0] = b.kernel.number
  <2>1. PICK m \in {0, 3, 5} \intersect 0 .. k :
           \E inFrame \in BOOLEAN : pl = GeneralPlace(k, m, inFrame)
    BY DEF GeneralPlaces
  <2>2. /\ pl.reg = [i \in 0 .. m |-> IF i = 0 THEN "eax" ELSE I386Registers[i]]
        /\ DOMAIN pl.mem \subseteq m + 1 .. k
        /\ \A i \in DOMAIN pl.mem : pl.mem[i] = FrameSP + i
    BY <2>1 DEF GeneralPlace
  <2>3. m \in 0 .. 5 /\ m <= k
    OBVIOUS
  <2>4. \A i \in 0 .. m : pl.reg[i] \in Register
    BY <2>2, <2>3, <1>3
  <2>5. \A i, j \in 0 .. m : pl.reg[i] = pl.reg[j] => i = j
    BY <2>2, <2>3, <1>3
  <2>6. \A i \in DOMAIN pl.mem : pl.mem[i] \in Cell /\ pl.mem[i] >= FrameSP
    BY <2>2, <2>3, StackAssumption
  <2>7. \A i, j \in DOMAIN pl.mem : pl.mem[i] = pl.mem[j] => i = j
    BY <2>2, <2>3, StackAssumption
  <2>8. /\ DOMAIN pl.reg = 0 .. m /\ DOMAIN pl.reg \intersect DOMAIN pl.mem = {}
        /\ DOMAIN pl.reg \subseteq Slot /\ DOMAIN pl.mem \subseteq Slot
    BY <2>2, <2>3
  <2> QED BY <1>1, <2>2, <2>3, <2>4, <2>5, <2>6, <2>7, <2>8 DEF PlacedOnce
<1>5. ASSUME NEW k \in 1 .. 7
      PROVE  HasKind(b, PushCall(k, GeneralPlaces(k)))
  <2> DEFINE p == PushCall(k, GeneralPlaces(k))
  <2>1. p.places = GeneralPlaces(k)
    BY DEF PushCall
  <2> HIDE DEF p
  <2>2. p = PushCall(k, p.places)
    BY <2>1 DEF p
  <2> QED BY <1>1, <1>2, <1>4, <2>1, <2>2 DEF HasKind, p
<1> QED BY <1>5 DEF BSDI386
-----------------------------------------------------------------------------
(* The tables of the library, one by one: the registers in the kernel's      *)
(* order, what the kernel destroys declared.                                 *)

\* A kernel that takes number and arguments in registers of their own.
Orderly(b) ==
    /\ b.kernel.number \in Register /\ b.kernel.result \in Register
    /\ b.kernel.args \in Seq(Register) /\ Len(b.kernel.args) <= 7
    /\ \A i, j \in 1 .. Len(b.kernel.args) : b.kernel.args[i] = b.kernel.args[j] => i = j
    /\ \A i \in 1 .. Len(b.kernel.args) : b.kernel.args[i] # b.kernel.number

\* A list that begins with the number and goes on as the kernel's does.
InOrder(b, k, list, out, clobbers) ==
    /\ k \in 1 .. 7 /\ k <= Len(b.kernel.args)
    /\ list \in Seq(Register) /\ Len(list) = k + 1
    /\ list[1] = b.kernel.number
    /\ \A i \in 1 .. k : list[i + 1] = b.kernel.args[i]
    /\ out = b.kernel.result /\ clobbers \subseteq Register
    /\ b.kernel.volatile \subseteq clobbers \union {out}

LEMMA InOrderAgrees ==
    ASSUME NEW b, Orderly(b), NEW k, NEW list, NEW out, NEW clobbers,
           InOrder(b, k, list, out, clobbers)
    PROVE  Agrees(b, list, k) /\ Declares(b, out, clobbers)
<1>0. k \in 1 .. 7 /\ list \in Seq(Register) /\ Len(list) = k + 1
  BY DEF InOrder
<1>1. ASSUME NEW i \in 1 .. k + 1, NEW j \in 1 .. k + 1, list[i] = list[j] PROVE i = j
  <2>1. \A n \in 1 .. k + 1 : n = 1 \/ (n - 1 \in 1 .. k /\ list[n] = b.kernel.args[n - 1])
    <3>1. ASSUME NEW n \in 1 .. k + 1, n # 1
          PROVE  n - 1 \in 1 .. k /\ list[n] = b.kernel.args[n - 1]
      <4>1. n - 1 \in 1 .. k /\ (n - 1) + 1 = n
        BY <1>0, <3>1
      <4> QED BY <4>1 DEF InOrder
    <3> QED BY <3>1
  <2>2. \A n \in 1 .. k : n \in 1 .. Len(b.kernel.args)
    BY DEF Orderly, InOrder
  <2>3. i = 1 <=> j = 1
    BY <1>0, <1>1, <2>1, <2>2 DEF Orderly, InOrder
  <2>4. CASE i # 1 /\ j # 1
    <3>1. /\ i - 1 \in 1 .. Len(b.kernel.args) /\ list[i] = b.kernel.args[i - 1]
          /\ j - 1 \in 1 .. Len(b.kernel.args) /\ list[j] = b.kernel.args[j - 1]
      BY <2>1, <2>2, <2>4
    <3>2. i - 1 = j - 1
      BY <1>1, <3>1 DEF Orderly
    <3> QED BY <1>0, <3>2
  <2> QED BY <2>3, <2>4
<1>2. Agrees(b, list, k)
  BY <1>0, <1>1 DEF Agrees, Orderly, InOrder
<1> QED BY <1>2 DEF Declares, InOrder

LEMMA InOrderFits ==
    ASSUME NEW b, Orderly(b), NEW k, NEW list, NEW out, NEW clobbers,
           InOrder(b, k, list, out, clobbers)
    PROVE  HasKind(b, RegisterCall(k, list, out, clobbers))
<1>1. Agrees(b, list, k) /\ Declares(b, out, clobbers)
  BY InOrderAgrees
<1>2. /\ k \in 1 .. 7 /\ list \in Seq(Register) /\ out = b.kernel.result
      /\ clobbers \in SUBSET Register
  BY DEF InOrder
<1> QED BY <1>1, <1>2 DEF HasKind

LEMMA RegisterCallArity ==
    \A k, list, out, clobbers : RegisterCall(k, list, out, clobbers).arity = k
BY DEF RegisterCall

LEMMA LinuxI386Fits ==
    ASSUME RegisterNames \subseteq Register, NEW b, b.kernel = LinuxKernel.i386
    PROVE  Orderly(b) /\ \A p \in LinuxI386 : HasKind(b, p)
<1>1. /\ b.kernel.number = "eax" /\ b.kernel.result = "eax"
      /\ b.kernel.args = <<"ebx", "ecx", "edx", "esi", "edi", "ebp">>
      /\ b.kernel.volatile \subseteq CC
  BY DEF LinuxKernel, Convention
<1>2. Orderly(b)
  BY <1>1 DEF Orderly, RegisterNames
<1>3. InOrder(b, 3, <<"eax", "ebx", "ecx", "edx">>, "eax",
            CC)
  BY <1>1 DEF InOrder, RegisterNames, CC
<1>4. InOrder(b, 6, <<"eax", "ebx", "ecx", "edx", "esi", "edi", "ebp">>, "eax",
            CC)
  BY <1>1 DEF InOrder, RegisterNames, CC
<1> QED BY <1>2, <1>3, <1>4, InOrderFits DEF LinuxI386

LEMMA LinuxARMFits ==
    ASSUME RegisterNames \subseteq Register, NEW b, b.kernel = LinuxKernel.arm
    PROVE  Orderly(b) /\ \A p \in LinuxARM : HasKind(b, p)
<1>1. /\ b.kernel.number = "r7" /\ b.kernel.result = "r0"
      /\ b.kernel.args = <<"r0", "r1", "r2", "r3", "r4", "r5">>
      /\ b.kernel.volatile \subseteq CC
  BY DEF LinuxKernel, Convention
<1>2. Orderly(b)
  BY <1>1 DEF Orderly, RegisterNames
<1>3. InOrder(b, 3, <<"r7", "r0", "r1", "r2">>, "r0",
            CC)
  BY <1>1 DEF InOrder, RegisterNames, CC
<1>4. InOrder(b, 6, <<"r7", "r0", "r1", "r2", "r3", "r4", "r5">>, "r0",
            CC)
  BY <1>1 DEF InOrder, RegisterNames, CC
<1> QED BY <1>2, <1>3, <1>4, InOrderFits DEF LinuxARM

LEMMA LinuxAArch64Fits ==
    ASSUME RegisterNames \subseteq Register, NEW b, b.kernel = LinuxKernel.aarch64
    PROVE  Orderly(b) /\ \A p \in LinuxAArch64 : HasKind(b, p)
<1>1. /\ b.kernel.number = "x8" /\ b.kernel.result = "x0"
      /\ b.kernel.args = <<"x0", "x1", "x2", "x3", "x4", "x5">>
      /\ b.kernel.volatile \subseteq {}
  BY DEF LinuxKernel, Convention
<1>2. Orderly(b)
  BY <1>1 DEF Orderly, RegisterNames
<1>3. InOrder(b, 3, <<"x8", "x0", "x1", "x2">>, "x0",
            {})
  BY <1>1 DEF InOrder, RegisterNames
<1>4. InOrder(b, 6, <<"x8", "x0", "x1", "x2", "x3", "x4", "x5">>, "x0",
            {})
  BY <1>1 DEF InOrder, RegisterNames
<1> QED BY <1>2, <1>3, <1>4, InOrderFits DEF LinuxAArch64

LEMMA LinuxRISCV64Fits ==
    ASSUME RegisterNames \subseteq Register, NEW b, b.kernel = LinuxKernel.riscv64
    PROVE  Orderly(b) /\ \A p \in LinuxRISCV64 : HasKind(b, p)
<1>1. /\ b.kernel.number = "a7" /\ b.kernel.result = "a0"
      /\ b.kernel.args = <<"a0", "a1", "a2", "a3", "a4", "a5">>
      /\ b.kernel.volatile \subseteq {}
  BY DEF LinuxKernel, Convention
<1>2. Orderly(b)
  BY <1>1 DEF Orderly, RegisterNames
<1>3. InOrder(b, 3, <<"a7", "a0", "a1", "a2">>, "a0",
            {})
  BY <1>1 DEF InOrder, RegisterNames
<1>4. InOrder(b, 6, <<"a7", "a0", "a1", "a2", "a3", "a4", "a5">>, "a0",
            {})
  BY <1>1 DEF InOrder, RegisterNames
<1> QED BY <1>2, <1>3, <1>4, InOrderFits DEF LinuxRISCV64

LEMMA LinuxLoongArch64Fits ==
    ASSUME RegisterNames \subseteq Register, NEW b, b.kernel = LinuxKernel.loongarch64
    PROVE  Orderly(b) /\ \A p \in LinuxLoongArch64 : HasKind(b, p)
<1>1. /\ b.kernel.number = "a7" /\ b.kernel.result = "a0"
      /\ b.kernel.args = <<"a0", "a1", "a2", "a3", "a4", "a5">>
      /\ b.kernel.volatile \subseteq {}
  BY DEF LinuxKernel, Convention
<1>2. Orderly(b)
  BY <1>1 DEF Orderly, RegisterNames
<1>3. InOrder(b, 3, <<"a7", "a0", "a1", "a2">>, "a0",
            {})
  BY <1>1 DEF InOrder, RegisterNames
<1>4. InOrder(b, 6, <<"a7", "a0", "a1", "a2", "a3", "a4", "a5">>, "a0",
            {})
  BY <1>1 DEF InOrder, RegisterNames
<1> QED BY <1>2, <1>3, <1>4, InOrderFits DEF LinuxLoongArch64

LEMMA LinuxS390XFits ==
    ASSUME RegisterNames \subseteq Register, NEW b, b.kernel = LinuxKernel.s390x
    PROVE  Orderly(b) /\ \A p \in LinuxS390X : HasKind(b, p)
<1>1. /\ b.kernel.number = "r1" /\ b.kernel.result = "r2"
      /\ b.kernel.args = <<"r2", "r3", "r4", "r5", "r6", "r7">>
      /\ b.kernel.volatile \subseteq CC
  BY DEF LinuxKernel, Convention
<1>2. Orderly(b)
  BY <1>1 DEF Orderly, RegisterNames
<1>3. InOrder(b, 3, <<"r1", "r2", "r3", "r4">>, "r2",
            CC)
  BY <1>1 DEF InOrder, RegisterNames, CC
<1>4. InOrder(b, 6, <<"r1", "r2", "r3", "r4", "r5", "r6", "r7">>, "r2",
            CC)
  BY <1>1 DEF InOrder, RegisterNames, CC
<1> QED BY <1>2, <1>3, <1>4, InOrderFits DEF LinuxS390X

LEMMA LinuxMIPS64Fits ==
    ASSUME RegisterNames \subseteq Register, NEW b, b.kernel = MIPS64Kernel
    PROVE  Orderly(b) /\ \A p \in {q \in LinuxMIPS64 : q.arity = 3} : HasKind(b, p)
<1>1. /\ b.kernel.number = "$2" /\ b.kernel.result = "$2"
      /\ b.kernel.args = <<"$4", "$5", "$6", "$7", "$8", "$9">>
      /\ b.kernel.volatile \subseteq {"$1", "$3", "$7"}
  BY DEF MIPS64Kernel, Convention
<1>2. Orderly(b)
  BY <1>1 DEF Orderly, RegisterNames
<1>3. InOrder(b, 3, <<"$2", "$4", "$5", "$6">>, "$2",
            {"$1", "$3", "$7"})
  BY <1>1 DEF InOrder, RegisterNames
<1> QED BY <1>2, <1>3, InOrderFits, RegisterCallArity DEF LinuxMIPS64

LEMMA LinuxPPC64Fits ==
    ASSUME RegisterNames \subseteq Register, NEW b, b.kernel = LinuxKernel.ppc64
    PROVE  Orderly(b) /\ \A p \in {q \in LinuxPPC64 : q.arity = 3} : HasKind(b, p)
<1>1. /\ b.kernel.number = "r0" /\ b.kernel.result = "r3"
      /\ b.kernel.args = <<"r3", "r4", "r5", "r6", "r7", "r8">>
      /\ b.kernel.volatile \subseteq {"r6", "r7", "r8", "r9", "r10", "r11", "r12", "ctr", "xer"} \union CC
  BY DEF LinuxKernel, Convention
<1>2. Orderly(b)
  BY <1>1 DEF Orderly, RegisterNames
<1>3. InOrder(b, 3, <<"r0", "r3", "r4", "r5">>, "r3",
            {"r6", "r7", "r8", "r9", "r10", "r11", "r12", "ctr", "xer"} \union CC)
  BY <1>1 DEF InOrder, RegisterNames, CC
<1> QED BY <1>2, <1>3, InOrderFits, RegisterCallArity DEF LinuxPPC64

LEMMA BSDARMFits ==
    ASSUME RegisterNames \subseteq Register, NEW b, b.kernel = BSDKernel.arm
    PROVE  Orderly(b) /\ \A p \in BSDARM : HasKind(b, p)
<1>1. /\ b.kernel.number = "r7" /\ b.kernel.result = "r0"
      /\ b.kernel.args = <<"r0", "r1", "r2", "r3", "r4", "r5", "r6">>
      /\ b.kernel.volatile \subseteq CC
  BY DEF BSDKernel, Convention
<1>2. Orderly(b)
  BY <1>1 DEF Orderly, RegisterNames
<1>3. InOrder(b, 3, <<"r7", "r0", "r1", "r2">>, "r0",
            CC)
  BY <1>1 DEF InOrder, RegisterNames, CC
<1>4. InOrder(b, 6, <<"r7", "r0", "r1", "r2", "r3", "r4", "r5">>, "r0",
            CC)
  BY <1>1 DEF InOrder, RegisterNames, CC
<1>5. InOrder(b, 7, <<"r7", "r0", "r1", "r2", "r3", "r4", "r5", "r6">>, "r0",
            CC)
  BY <1>1 DEF InOrder, RegisterNames, CC
<1> QED BY <1>2, <1>3, <1>4, <1>5, InOrderFits DEF BSDARM

LEMMA BSDAArch64Fits ==
    ASSUME RegisterNames \subseteq Register, NEW b, b.kernel = BSDKernel.aarch64
    PROVE  Orderly(b) /\ \A p \in BSDAArch64 : HasKind(b, p)
<1>1. /\ b.kernel.number = "x8" /\ b.kernel.result = "x0"
      /\ b.kernel.args = <<"x0", "x1", "x2", "x3", "x4", "x5", "x6">>
      /\ b.kernel.volatile \subseteq CC
  BY DEF BSDKernel, Convention
<1>2. Orderly(b)
  BY <1>1 DEF Orderly, RegisterNames
<1>3. InOrder(b, 3, <<"x8", "x0", "x1", "x2">>, "x0",
            CC)
  BY <1>1 DEF InOrder, RegisterNames, CC
<1>4. InOrder(b, 6, <<"x8", "x0", "x1", "x2", "x3", "x4", "x5">>, "x0",
            CC)
  BY <1>1 DEF InOrder, RegisterNames, CC
<1>5. InOrder(b, 7, <<"x8", "x0", "x1", "x2", "x3", "x4", "x5", "x6">>, "x0",
            CC)
  BY <1>1 DEF InOrder, RegisterNames, CC
<1> QED BY <1>2, <1>3, <1>4, <1>5, InOrderFits DEF BSDAArch64

LEMMA BSDRISCV64Fits ==
    ASSUME RegisterNames \subseteq Register, NEW b, b.kernel = BSDKernel.riscv64
    PROVE  Orderly(b) /\ \A p \in BSDRISCV64 : HasKind(b, p)
<1>1. /\ b.kernel.number = "a7" /\ b.kernel.result = "a0"
      /\ b.kernel.args = <<"a0", "a1", "a2", "a3", "a4", "a5", "a6">>
      /\ b.kernel.volatile \subseteq {}
  BY DEF BSDKernel, Convention
<1>2. Orderly(b)
  BY <1>1 DEF Orderly, RegisterNames
<1>3. InOrder(b, 3, <<"a7", "a0", "a1", "a2">>, "a0",
            {})
  BY <1>1 DEF InOrder, RegisterNames
<1>4. InOrder(b, 6, <<"a7", "a0", "a1", "a2", "a3", "a4", "a5">>, "a0",
            {})
  BY <1>1 DEF InOrder, RegisterNames
<1>5. InOrder(b, 7, <<"a7", "a0", "a1", "a2", "a3", "a4", "a5", "a6">>, "a0",
            {})
  BY <1>1 DEF InOrder, RegisterNames
<1> QED BY <1>2, <1>3, <1>4, <1>5, InOrderFits DEF BSDRISCV64

LEMMA BSDPPC64Fits ==
    ASSUME RegisterNames \subseteq Register, NEW b, b.kernel = BSDKernel.ppc64
    PROVE  Orderly(b) /\ \A p \in {q \in BSDPPC64 : q.arity = 3} : HasKind(b, p)
<1>1. /\ b.kernel.number = "r0" /\ b.kernel.result = "r3"
      /\ b.kernel.args = <<"r3", "r4", "r5", "r6", "r7", "r8", "r9">>
      /\ b.kernel.volatile \subseteq {"r6", "r7", "r8", "r9", "r10", "r11", "r12"} \union CC
  BY DEF BSDKernel, Convention
<1>2. Orderly(b)
  BY <1>1 DEF Orderly, RegisterNames
<1>3. InOrder(b, 3, <<"r0", "r3", "r4", "r5">>, "r3",
            {"r6", "r7", "r8", "r9", "r10", "r11", "r12"} \union CC)
  BY <1>1 DEF InOrder, RegisterNames, CC
<1> QED BY <1>2, <1>3, InOrderFits, RegisterCallArity DEF BSDPPC64

LEMMA DarwinAArch64Fits ==
    ASSUME RegisterNames \subseteq Register, NEW b, b.kernel = Sparing(DarwinKernel.aarch64)
    PROVE  Orderly(b) /\ \A p \in DarwinAArch64 : HasKind(b, p)
<1>1. /\ b.kernel.number = "x16" /\ b.kernel.result = "x0"
      /\ b.kernel.args = <<"x0", "x1", "x2", "x3", "x4", "x5", "x6">>
      /\ b.kernel.volatile \subseteq {}
  <2>1. DarwinKernel.aarch64 = Convention("x16", <<"x0", "x1", "x2", "x3", "x4", "x5", "x6">>,
                                      "x0", CC)
    BY DEF DarwinKernel
  <2> QED BY <2>1 DEF Convention, Sparing
<1>2. Orderly(b)
  BY <1>1 DEF Orderly, RegisterNames
<1>3. InOrder(b, 3, <<"x16", "x0", "x1", "x2">>, "x0",
            {})
  BY <1>1 DEF InOrder, RegisterNames
<1>4. InOrder(b, 6, <<"x16", "x0", "x1", "x2", "x3", "x4", "x5">>, "x0",
            {})
  BY <1>1 DEF InOrder, RegisterNames
<1>5. InOrder(b, 7, <<"x16", "x0", "x1", "x2", "x3", "x4", "x5", "x6">>, "x0",
            {})
  BY <1>1 DEF InOrder, RegisterNames
<1> QED BY <1>2, <1>3, <1>4, <1>5, InOrderFits DEF DarwinAArch64

LEMMA SolarisSPARC64Fits ==
    ASSUME RegisterNames \subseteq Register, NEW b, b.kernel = SolarisKernel.sparc64
    PROVE  Orderly(b) /\ \A p \in SolarisSPARC64 : HasKind(b, p)
<1>1. /\ b.kernel.number = "g1" /\ b.kernel.result = "o0"
      /\ b.kernel.args = <<"o0", "o1", "o2", "o3", "o4", "o5">>
      /\ b.kernel.volatile \subseteq CC
  BY DEF SolarisKernel, Convention
<1>2. Orderly(b)
  BY <1>1 DEF Orderly, RegisterNames
<1>3. InOrder(b, 3, <<"g1", "o0", "o1", "o2">>, "o0",
            CC)
  BY <1>1 DEF InOrder, RegisterNames, CC
<1>4. InOrder(b, 6, <<"g1", "o0", "o1", "o2", "o3", "o4", "o5">>, "o0",
            CC)
  BY <1>1 DEF InOrder, RegisterNames, CC
<1> QED BY <1>2, <1>3, <1>4, InOrderFits DEF SolarisSPARC64

LEMMA Joined ==
    ASSUME NEW s \in Seq(Register), NEW t \in Seq(Register)
    PROVE  /\ Len(s \o t) = Len(s) + Len(t)
           /\ \A i \in 1 .. Len(s) : (s \o t)[i] = s[i]
           /\ \A i \in 1 .. Len(t) : (s \o t)[i + Len(s)] = t[i]
OBVIOUS

LEMMA Framed ==
    ASSUME NEW first \in Seq(Register), NEW middle \in Seq(Register),
           NEW last \in Seq(Register), Len(first) = 1, Len(last) = 1
    PROVE  /\ first \o middle \o last \in Seq(Register)
           /\ Len(first \o middle \o last) = Len(middle) + 2
           /\ (first \o middle \o last)[1] = first[1]
           /\ (first \o middle \o last)[Len(middle) + 2] = last[1]
           /\ \A i \in 1 .. Len(middle) : (first \o middle \o last)[i + 1] = middle[i]
<1> DEFINE front == first \o middle
<1>1. front \in Seq(Register) /\ front \o last \in Seq(Register)
  OBVIOUS
<1>2. Len(front) = Len(first) + Len(middle)
  BY Joined, Zenon
<1>3. \A i \in 1 .. Len(first) : front[i] = first[i]
  BY Joined, Zenon
<1>4. \A i \in 1 .. Len(middle) : front[i + Len(first)] = middle[i]
  BY Joined, Zenon
<1> HIDE DEF front
<1>5. Len(front \o last) = Len(front) + Len(last)
  BY <1>1, Joined, Zenon
<1>6. \A i \in 1 .. Len(front) : (front \o last)[i] = front[i]
  BY <1>1, Joined, Zenon
<1>7. \A i \in 1 .. Len(last) : (front \o last)[i + Len(front)] = last[i]
  BY <1>1, Joined, Zenon
<1> DEFINE list == front \o last
<1> HIDE DEF list
<1>8. /\ Len(list) = Len(middle) + 2 /\ list[1] = first[1] /\ list[Len(middle) + 2] = last[1]
      /\ \A i \in 1 .. Len(middle) : list[i + 1] = middle[i]
  <2>1. /\ Len(middle) \in Nat /\ Len(front) = Len(middle) + 1 /\ Len(list) = Len(front) + 1
        /\ \A i \in 1 .. Len(front) : list[i] = front[i]
    BY <1>2, <1>5, <1>6 DEF list
  <2>2. list[1 + Len(front)] = last[1]
    <3>1. \A i \in 1 .. Len(last) : list[i + Len(front)] = last[i]
      BY <1>7, Zenon DEF list
    <3>2. 1 \in 1 .. Len(last)
      OBVIOUS
    <3> QED BY <3>1, <3>2, Zenon
  <2>3. \A i \in 1 .. Len(middle) : i + 1 \in 1 .. Len(front) /\ front[i + 1] = middle[i]
    BY <1>4, <2>1
  <2>4. 1 \in 1 .. Len(front) /\ front[1] = first[1]
    BY <1>3, <2>1
  <2> QED BY <2>1, <2>2, <2>3, <2>4
<1> QED BY <1>1, <1>8 DEF front, list

\* The amd64 statements, of all systems.
LEMMA AMD64Fits ==
    ASSUME RegisterNames \subseteq Register, NEW b, b.kernel = AMD64Kernel
    PROVE  /\ Orderly(b)
           /\ HasKind(b, AMD64Call(3)) /\ HasKind(b, AMD64Call(6))
           /\ HasKind(b, [AMD64Call(6) EXCEPT !.arity = 3])
           /\ b.redZone = 0 =>
                HasKind(b, PokeCall(<<"rax">> \o AMD64Args \o <<"rbx">>, "rax",
                                    {"rcx", "r11"} \union CC))
<1> DEFINE clobbers == {"rcx", "r11"} \union CC
<1>1. /\ b.kernel.number = "rax" /\ b.kernel.result = "rax"
      /\ b.kernel.args = <<"rdi", "rsi", "rdx", "r10", "r8", "r9">>
      /\ b.kernel.volatile \subseteq clobbers
  BY DEF AMD64Kernel, Convention
<1>2. Orderly(b)
  BY <1>1 DEF Orderly, RegisterNames
<1>3. ASSUME NEW k \in 1 .. 6
      PROVE  InOrder(b, k, <<"rax">> \o SubSeq(AMD64Args, 1, k), "rax", clobbers)
  <2> DEFINE list == <<"rax">> \o SubSeq(AMD64Args, 1, k)
  <2>1. AMD64Args = b.kernel.args /\ AMD64Args \in Seq(Register) /\ Len(AMD64Args) = 6
    BY <1>1 DEF AMD64Args, RegisterNames
  <2>2. /\ SubSeq(AMD64Args, 1, k) \in Seq(Register) /\ Len(SubSeq(AMD64Args, 1, k)) = k
        /\ \A i \in 1 .. k : SubSeq(AMD64Args, 1, k)[i] = b.kernel.args[i]
    BY <2>1
  <2>3. /\ list \in Seq(Register) /\ Len(list) = k + 1 /\ list[1] = "rax"
        /\ \A i \in 1 .. k : list[i + 1] = b.kernel.args[i]
    BY <2>2 DEF RegisterNames
  <2>4. clobbers \subseteq Register
    BY DEF CC, RegisterNames
  <2> HIDE DEF list, clobbers
  <2> QED BY <1>1, <2>1, <2>3, <2>4 DEF InOrder, list
<1>4. \A k \in 1 .. 6 : HasKind(b, AMD64Call(k))
  BY <1>2, <1>3, InOrderFits DEF AMD64Call
<1>5. HasKind(b, [AMD64Call(6) EXCEPT !.arity = 3])
  <2> DEFINE list == <<"rax">> \o SubSeq(AMD64Args, 1, 6)
  <2>1. [AMD64Call(6) EXCEPT !.arity = 3] = RegisterCall(3, list, "rax", clobbers)
    BY DEF AMD64Call, RegisterCall
  <2>2. InOrder(b, 6, list, "rax", clobbers)
    BY <1>3
  <2>3. Agrees(b, list, 6) /\ Declares(b, "rax", clobbers)
    BY <1>2, <2>2, InOrderAgrees
  <2>4. list \in Seq(Register) /\ clobbers \in SUBSET Register
    BY <2>2 DEF InOrder
  <2> HIDE DEF list, clobbers
  <2>5. Agrees(b, list, 3)
    BY <2>3 DEF Agrees
  <2> QED BY <1>1, <2>1, <2>3, <2>4, <2>5 DEF HasKind
<1>6. ASSUME b.redZone = 0
      PROVE  HasKind(b, PokeCall(<<"rax">> \o AMD64Args \o <<"rbx">>, "rax", clobbers))
  <2> DEFINE list == <<"rax">> \o AMD64Args \o <<"rbx">>
  <2>1. AMD64Args = b.kernel.args /\ AMD64Args \in Seq(Register) /\ Len(AMD64Args) = 6
    BY <1>1 DEF AMD64Args, RegisterNames
  <2>2. /\ list \in Seq(Register) /\ Len(list) = 8
        /\ list[1] = "rax" /\ list[8] = "rbx"
        /\ \A i \in 1 .. 6 : list[i + 1] = b.kernel.args[i]
    <3> DEFINE first == <<"rax">>
               last == <<"rbx">>
    <3>1. /\ first \in Seq(Register) /\ Len(first) = 1 /\ first[1] = "rax"
          /\ last \in Seq(Register) /\ Len(last) = 1 /\ last[1] = "rbx"
      BY DEF RegisterNames
    <3>2. list = first \o AMD64Args \o last
      OBVIOUS
    <3> HIDE DEF first, last, list
    <3>3. /\ list \in Seq(Register) /\ Len(list) = Len(AMD64Args) + 2
          /\ list[1] = first[1] /\ list[Len(AMD64Args) + 2] = last[1]
          /\ \A i \in 1 .. Len(AMD64Args) : list[i + 1] = AMD64Args[i]
      <4>1. /\ first \o AMD64Args \o last \in Seq(Register)
            /\ Len(first \o AMD64Args \o last) = Len(AMD64Args) + 2
            /\ (first \o AMD64Args \o last)[1] = first[1]
            /\ (first \o AMD64Args \o last)[Len(AMD64Args) + 2] = last[1]
            /\ \A i \in 1 .. Len(AMD64Args) : (first \o AMD64Args \o last)[i + 1] = AMD64Args[i]
        BY <2>1, <3>1, Framed, Zenon
      <4> QED BY <3>2, <4>1, Zenon
    <3> QED BY <2>1, <3>1, <3>3
  <2>3. \A i, j \in 1 .. Len(list) : list[i] = list[j] => i = j
    <3>1. list[2] = "rdi" /\ list[3] = "rsi" /\ list[4] = "rdx" /\ list[5] = "r10"
          /\ list[6] = "r8" /\ list[7] = "r9"
      BY <1>1, <2>2
    <3> HIDE DEF list
    <3> QED BY <2>2, <3>1
  <2>4. clobbers \in SUBSET Register
    BY DEF CC, RegisterNames
  <2>5. Declares(b, "rax", clobbers) /\ Len(b.kernel.args) = 6
    BY <1>1 DEF Declares
  <2> HIDE DEF list, clobbers
  <2>6. Agrees(b, list, 6)
    BY <1>1, <2>2, <2>3, <2>5 DEF Agrees
  <2> QED BY <1>1, <1>6, <2>2, <2>4, <2>5, <2>6 DEF HasKind, list
<1> QED BY <1>2, <1>4, <1>5, <1>6

\* What a table shows is passed on to a build of any of its statements.
LEMMA CompilesKinds ==
    ASSUME NEW b, NEW kernel, NEW table, Compiles(b, kernel, table),
           b.redZone \in Nat, b.framePointer \in BOOLEAN, Orderly(b),
           \A p \in table : HasKind(b, p)
    PROVE  BuildShape(b) /\ \A p \in b.prims : HasKind(b, p)
BY DEF Compiles, BuildShape, Orderly

LEMMA SoundHasKinds ==
    ASSUME RegisterNames \subseteq Register, NEW b, Sound(b),
           FrameSP - 8 .. FrameSP + 7 \subseteq Cell
    PROVE  BuildShape(b) /\ \A p \in b.prims : HasKind(b, p)
<1>0. b.redZone \in Nat /\ b.framePointer \in BOOLEAN
  BY DEF Sound
<1>1. LinuxKernel.amd64 = AMD64Kernel /\ SolarisKernel.amd64 = AMD64Kernel
  BY DEF LinuxKernel, SolarisKernel
<1>2. BSDKernel.amd64 = AMD64Kernel /\ DarwinKernel.amd64 = AMD64Kernel
  BY DEF BSDKernel, DarwinKernel
<1>3. PokeCall(<<"rax">> \o AMD64Args \o <<"rbx">>, "rax",
               {"rcx", "r11"} \union CC).arity = 7
  BY DEF PokeCall
<1>4. CASE Compiles(b, LinuxKernel.amd64, LinuxAMD64)
  <2>1. b.kernel = LinuxKernel.amd64
    BY <1>4 DEF Compiles
  <2>2. Orderly(b) /\ \A p \in LinuxAMD64 : HasKind(b, p)
    BY <1>1, <1>2, <1>3, <1>4, <2>1, AMD64Fits DEF LinuxAMD64
  <2> QED BY <1>0, <1>4, <2>2, CompilesKinds
<1>5. CASE Compiles(b, LinuxKernel.i386, LinuxI386)
  <2>1. b.kernel = LinuxKernel.i386
    BY <1>5 DEF Compiles
  <2>2. Orderly(b) /\ \A p \in LinuxI386 : HasKind(b, p)
    BY <2>1, LinuxI386Fits
  <2> QED BY <1>0, <1>5, <2>2, CompilesKinds
<1>6. CASE Compiles(b, LinuxKernel.arm, LinuxARM)
  <2>1. b.kernel = LinuxKernel.arm
    BY <1>6 DEF Compiles
  <2>2. Orderly(b) /\ \A p \in LinuxARM : HasKind(b, p)
    BY <2>1, LinuxARMFits
  <2> QED BY <1>0, <1>6, <2>2, CompilesKinds
<1>7. CASE Compiles(b, LinuxKernel.aarch64, LinuxAArch64)
  <2>1. b.kernel = LinuxKernel.aarch64
    BY <1>7 DEF Compiles
  <2>2. Orderly(b) /\ \A p \in LinuxAArch64 : HasKind(b, p)
    BY <2>1, LinuxAArch64Fits
  <2> QED BY <1>0, <1>7, <2>2, CompilesKinds
<1>8. CASE Compiles(b, LinuxKernel.riscv64, LinuxRISCV64)
  <2>1. b.kernel = LinuxKernel.riscv64
    BY <1>8 DEF Compiles
  <2>2. Orderly(b) /\ \A p \in LinuxRISCV64 : HasKind(b, p)
    BY <2>1, LinuxRISCV64Fits
  <2> QED BY <1>0, <1>8, <2>2, CompilesKinds
<1>9. CASE Compiles(b, LinuxKernel.loongarch64, LinuxLoongArch64)
  <2>1. b.kernel = LinuxKernel.loongarch64
    BY <1>9 DEF Compiles
  <2>2. Orderly(b) /\ \A p \in LinuxLoongArch64 : HasKind(b, p)
    BY <2>1, LinuxLoongArch64Fits
  <2> QED BY <1>0, <1>9, <2>2, CompilesKinds
<1>10. CASE Compiles(b, LinuxKernel.s390x, LinuxS390X)
  <2>1. b.kernel = LinuxKernel.s390x
    BY <1>10 DEF Compiles
  <2>2. Orderly(b) /\ \A p \in LinuxS390X : HasKind(b, p)
    BY <2>1, LinuxS390XFits
  <2> QED BY <1>0, <1>10, <2>2, CompilesKinds
<1>11. CASE Compiles(b, MIPS64Kernel, {p \in LinuxMIPS64 : p.arity = 3})
  <2>1. b.kernel = MIPS64Kernel
    BY <1>11 DEF Compiles
  <2>2. Orderly(b) /\ \A p \in {p \in LinuxMIPS64 : p.arity = 3} : HasKind(b, p)
    BY <2>1, LinuxMIPS64Fits
  <2> QED BY <1>0, <1>11, <2>2, CompilesKinds
<1>12. CASE Compiles(b, LinuxKernel.ppc64, {p \in LinuxPPC64 : p.arity = 3})
  <2>1. b.kernel = LinuxKernel.ppc64
    BY <1>12 DEF Compiles
  <2>2. Orderly(b) /\ \A p \in {p \in LinuxPPC64 : p.arity = 3} : HasKind(b, p)
    BY <2>1, LinuxPPC64Fits
  <2> QED BY <1>0, <1>12, <2>2, CompilesKinds
<1>13. CASE Compiles(b, BSDKernel.arm, BSDARM)
  <2>1. b.kernel = BSDKernel.arm
    BY <1>13 DEF Compiles
  <2>2. Orderly(b) /\ \A p \in BSDARM : HasKind(b, p)
    BY <2>1, BSDARMFits
  <2> QED BY <1>0, <1>13, <2>2, CompilesKinds
<1>14. CASE Compiles(b, BSDKernel.aarch64, BSDAArch64)
  <2>1. b.kernel = BSDKernel.aarch64
    BY <1>14 DEF Compiles
  <2>2. Orderly(b) /\ \A p \in BSDAArch64 : HasKind(b, p)
    BY <2>1, BSDAArch64Fits
  <2> QED BY <1>0, <1>14, <2>2, CompilesKinds
<1>15. CASE Compiles(b, BSDKernel.riscv64, BSDRISCV64)
  <2>1. b.kernel = BSDKernel.riscv64
    BY <1>15 DEF Compiles
  <2>2. Orderly(b) /\ \A p \in BSDRISCV64 : HasKind(b, p)
    BY <2>1, BSDRISCV64Fits
  <2> QED BY <1>0, <1>15, <2>2, CompilesKinds
<1>16. CASE Compiles(b, BSDKernel.ppc64, {p \in BSDPPC64 : p.arity = 3})
  <2>1. b.kernel = BSDKernel.ppc64
    BY <1>16 DEF Compiles
  <2>2. Orderly(b) /\ \A p \in {p \in BSDPPC64 : p.arity = 3} : HasKind(b, p)
    BY <2>1, BSDPPC64Fits
  <2> QED BY <1>0, <1>16, <2>2, CompilesKinds
<1>17. CASE Compiles(b, Sparing(DarwinKernel.aarch64), DarwinAArch64)
  <2>1. b.kernel = Sparing(DarwinKernel.aarch64)
    BY <1>17 DEF Compiles
  <2>2. Orderly(b) /\ \A p \in DarwinAArch64 : HasKind(b, p)
    BY <2>1, DarwinAArch64Fits
  <2> QED BY <1>0, <1>17, <2>2, CompilesKinds
<1>18. CASE Compiles(b, SolarisKernel.sparc64, SolarisSPARC64)
  <2>1. b.kernel = SolarisKernel.sparc64
    BY <1>18 DEF Compiles
  <2>2. Orderly(b) /\ \A p \in SolarisSPARC64 : HasKind(b, p)
    BY <2>1, SolarisSPARC64Fits
  <2> QED BY <1>0, <1>18, <2>2, CompilesKinds
<1>19. CASE Compiles(b, SolarisKernel.amd64, SolarisAMD64)
  <2>1. b.kernel = SolarisKernel.amd64
    BY <1>19 DEF Compiles
  <2>2. Orderly(b) /\ \A p \in SolarisAMD64 : HasKind(b, p)
    BY <1>1, <1>2, <1>3, <1>19, <2>1, AMD64Fits DEF SolarisAMD64
  <2> QED BY <1>0, <1>19, <2>2, CompilesKinds
<1>20. CASE Compiles(b, BSDKernel.amd64, WithoutSyscall7(BSDAMD64))
  <2>1. b.kernel = BSDKernel.amd64
    BY <1>20 DEF Compiles
  <2>2. Orderly(b) /\ \A p \in WithoutSyscall7(BSDAMD64) : HasKind(b, p)
    BY <1>1, <1>2, <1>3, <1>20, <2>1, AMD64Fits DEF BSDAMD64, WithoutSyscall7
  <2> QED BY <1>0, <1>20, <2>2, CompilesKinds
<1>21. CASE Compiles(b, DarwinKernel.amd64, WithoutSyscall7(DarwinAMD64))
  <2>1. b.kernel = DarwinKernel.amd64
    BY <1>21 DEF Compiles
  <2>2. Orderly(b) /\ \A p \in WithoutSyscall7(DarwinAMD64) : HasKind(b, p)
    BY <1>1, <1>2, <1>3, <1>21, <2>1, AMD64Fits DEF DarwinAMD64, WithoutSyscall7
  <2> QED BY <1>0, <1>21, <2>2, CompilesKinds
<1>22. CASE b.redZone = 0 /\ Compiles(b, BSDKernel.amd64, BSDAMD64)
  <2>1. b.kernel = BSDKernel.amd64
    BY <1>22 DEF Compiles
  <2>2. Orderly(b) /\ \A p \in BSDAMD64 : HasKind(b, p)
    BY <1>1, <1>2, <1>3, <1>22, <2>1, AMD64Fits DEF BSDAMD64
  <2> QED BY <1>0, <1>22, <2>2, CompilesKinds
<1>23. CASE b.redZone = 0 /\ Compiles(b, DarwinKernel.amd64, DarwinAMD64)
  <2>1. b.kernel = DarwinKernel.amd64
    BY <1>23 DEF Compiles
  <2>2. Orderly(b) /\ \A p \in DarwinAMD64 : HasKind(b, p)
    BY <1>1, <1>2, <1>3, <1>23, <2>1, AMD64Fits DEF DarwinAMD64
  <2> QED BY <1>0, <1>23, <2>2, CompilesKinds
<1>24. CASE b.redZone = 0 /\ b.framePointer /\ Compiles(b, BSDKernel.i386, BSDI386)
  <2>1. b.kernel = BSDKernel.i386 /\ b.framePointer = TRUE
    BY <1>0, <1>24 DEF Compiles
  <2>2. b.kernel.number = "eax" /\ b.kernel.result = "eax" /\ b.kernel.args = << >>
    BY <2>1 DEF BSDKernel, Convention
  <2>3. Orderly(b)
    BY <2>2 DEF Orderly, RegisterNames
  <2>4. FrameSP .. FrameSP + 7 \subseteq Cell
    BY StackAssumption
  <2>5. \A p \in BSDI386 : HasKind(b, p)
    BY <1>24, <2>1, <2>4, BSDI386HasKinds DEF RegisterNames
  <2> QED BY <1>0, <1>24, <2>3, <2>5, CompilesKinds
<1> QED BY <1>4, <1>5, <1>6, <1>7, <1>8, <1>9, <1>10, <1>11, <1>12, <1>13, <1>14,
           <1>15, <1>16, <1>17, <1>18, <1>19, <1>20, <1>21, <1>22, <1>23, <1>24
        DEF Sound

\* Every build of the library that Sound describes meets the static contract.
LEMMA SoundConform ==
    ASSUME RegisterNames \subseteq Register, \A b \in Build : Sound(b),
           FrameSP - 8 .. FrameSP + 7 \subseteq Cell
    PROVE  TablesConform
<1>1. FrameSP - 8 .. FrameSP \subseteq Cell
  BY StackAssumption
<1>2. \A b \in Build : BuildShape(b) /\ \A p \in b.prims : HasKind(b, p)
  BY SoundHasKinds
<1> QED BY <1>1, <1>2, KindConforms DEF TablesConform

(* ContractMet of the library's own partitions: operands in the kernel's    *)
(* registers, clobbers declared, stack arguments where they are looked for. *)
THEOREM LibraryKeepsContract ==
    ASSUME RegisterNames \subseteq Register, \A b \in Build : Sound(b),
           FrameSP - 8 .. FrameSP + 7 \subseteq Cell
    PROVE  Spec => []ContractMet
<1>1. FrameSP - 8 .. FrameSP \subseteq Cell
  BY StackAssumption
<1>2. \A b \in Build : BuildShape(b) /\ \A p \in b.prims : HasKind(b, p)
  BY SoundHasKinds
<1> QED BY <1>1, <1>2, KindsKeepContract

(* The library's own partitions, with nothing assumed of the tables: in     *)
(* every sound build, for every set of words, argument vectors and answers  *)
(* and every frame, the kernel sees the call that was made, the answer is   *)
(* returned and the caller believes nothing false, after any number of      *)
(* calls of any of the build's primitives.                                  *)
THEOREM LibraryCallsHold ==
    ASSUME RegisterNames \subseteq Register, \A b \in Build : Sound(b),
           FrameSP - 8 .. FrameSP + 7 \subseteq Cell
    PROVE  Spec => [](KernelSeesCall /\ ResultDelivered /\ BeliefsHold)
<1>1. TablesConform
  BY SoundConform
<1> QED BY <1>1, KernelServed, AnswerReturned, CallerUndisturbed, PTL

(* Seen from posix.cpp a primitive of a sound build is one question to the  *)
(* kernel and its answer.                                                   *)
THEOREM LibraryIsRawCall ==
    ASSUME RegisterNames \subseteq Register, \A b \in Build : Sound(b),
           FrameSP - 8 .. FrameSP + 7 \subseteq Cell
    PROVE  Spec => Implements
BY SoundConform, PrimitiveIsRawCall
=============================================================================
