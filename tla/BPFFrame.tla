------------------------------- MODULE BPFFrame -------------------------------
(***************************************************************************)
(* Stack addresses through the compiler: BPFDAGToDAGISel selects memory    *)
(* operands and the addresses of frame objects, the register allocator     *)
(* spills with storeRegToStackSlot and loadRegFromStackSlot, and after the *)
(* frame is laid out BPFRegisterInfo::eliminateFrameIndex replaces every   *)
(* frame index, one instruction at a time.  The code is then executed, and *)
(* the addresses it accesses are compared with those of the source.        *)
(*                                                                         *)
(* Register allocation, frame layout and the loop over the instructions    *)
(* are LLVM's.                                                             *)
(***************************************************************************)
EXTENDS Integers, Sequences, SequencesExt, FiniteSets

CONSTANTS
  WordMod,     (* 2^(width of an address): 2^64 in the code                *)
  ImmMod,      (* 2^(width of an int):     2^32 in the code                *)
  Objects,     (* frame objects of the source                              *)
  NoFI,        (* absence of a frame index                                 *)
  PhysRegs,    (* physical registers                                       *)
  R10, R11,    (* the frame pointer and the stack pointer, two of them     *)
  NoReg,       (* absence of a register                                    *)
  Programs,    (* the sources                                              *)
  MaxSpills,   (* bound on the virtual registers that are spilled          *)
  FP0, Ptr0    (* the frame pointer and a pointer argument, when called    *)

Align == 8

\* Virtual registers: a pointer argument, the address of an object, and two
\* for an address that has to be computed.
VRegs == {"ptr", "obj", "sum", "imm"}

ASSUME FrameAssumption ==
  /\ WordMod \in Nat \ {0} /\ ImmMod \in Nat \ {0} /\ ImmMod <= WordMod
  /\ {R10, R11} \subseteq PhysRegs /\ NoReg \notin PhysRegs \cup VRegs
  /\ FP0 \in 0 .. WordMod - 1 /\ Ptr0 \in 0 .. WordMod - 1

\* One spill slot for each virtual register.
Slot(v)      == <<"slot", v>>
Slots        == {Slot(v) : v \in VRegs}

ASSUME IndexAssumption == NoFI \notin Objects \cup Slots /\ Objects \cap Slots = {}

\* "take" makes the address of an object a value, in obj; "access" reads or
\* writes at a base, an object or a register, plus a constant.
Source == {i \in [k : {"take", "access"}, fi : Objects \cup {NoFI},
                  reg : {"ptr", "obj", NoReg}, off : Int] :
             /\ i.k = "take" => i.fi # NoFI /\ i.off = 0
             /\ (i.fi = NoFI) <=> (i.reg # NoReg)}

\* A virtual register has one definition, before its uses.
SSA(p) ==
  /\ \A m, n \in DOMAIN p : p[m].k = "take" /\ p[n].k = "take" => m = n
  /\ \A n \in DOMAIN p : p[n].reg = "obj" => \E m \in 1 .. n - 1 : p[m].k = "take"

ASSUME ProgramsAssumption == Programs \subseteq Seq(Source) /\ \A p \in Programs : SSA(p)

VARIABLES
  source,      (* the source                                               *)
  code,        (* machine instructions                                     *)
  assigned,    (* register allocation: virtual to physical                 *)
  spilled,     (* the virtual registers kept in their slots                *)
  objectOffset, (* getObjectOffset, of objects and slots                   *)
  I,           (* the instruction PrologEpilogInserter or execution is at  *)
  regs,        (* execution: the registers                                 *)
  mem,         (* execution: the spill slots that were written, by address *)
  trace,       (* execution: the addresses accessed for the source         *)
  stage        (* "select", "allocate", "layout", "eliminate", "run", "halt" *)

vars == <<source, code, assigned, spilled, objectOffset, I, regs, mem, trace, stage>>

compiled == <<source, code, assigned, spilled, objectOffset>>

\* The signed value of the low bits of n, as in a conversion to int.
ToInt(n) == LET u == n % ImmMod IN IF 2 * u < ImmMod THEN u ELSE u - ImmMod

isInt32(n) == ToInt(n) = n

-----------------------------------------------------------------------------
(***************************************************************************)
(* Machine instructions: the destination, the source or base register or   *)
(* the frame index in its place, and an immediate.                         *)
(***************************************************************************)
Insn(op, rd, rs, fi, imm) == [op |-> op, rd |-> rd, rs |-> rs, fi |-> fi, imm |-> imm]

MoveFI(rd, fi)     == Insn("MOV_rr", rd, NoReg, fi, 0)
Move(rd, rs)       == Insn("MOV_rr", rd, rs, NoFI, 0)
AddImm(rd, n)      == Insn("ADD_ri", rd, rd, NoFI, n)
AddReg(rd, rs)     == Insn("ADD_rr", rd, rs, NoFI, 0)
LoadImm(rd, n)     == Insn("LD_imm64", rd, NoReg, NoFI, n)
Access(rs, fi, n)  == Insn("access", NoReg, rs, fi, n)

\* storeRegToStackSlot and loadRegFromStackSlot.
Store(rs, fi)      == Insn("STD", rs, NoReg, fi, 0)
Load(rd, fi)       == Insn("LDD", rd, NoReg, fi, 0)

\* Mutant: constants of any size are taken for the offset.
SelectAddr_AnyOffset(i) == [folded |-> TRUE, off |-> ToInt(i.off)]

\* SelectAddr: a constant that fits is folded into the operand; otherwise the
\* base is the sum, computed in a register, and the offset is 0.
SelectAddr(i) == IF isInt32(i.off) THEN [folded |-> TRUE, off |-> i.off]
                 ELSE [folded |-> FALSE, off |-> 0]

\* Select on FrameIndex, and the patterns of the access and of the addition
\* it may need.
Selected(i) ==
  LET addr == SelectAddr(i)
  IN  CASE i.k = "take"  -> <<MoveFI("obj", i.fi)>>
        [] i.k = "access" /\ addr.folded -> <<Access(i.reg, i.fi, addr.off)>>
        [] OTHER -> << IF i.fi # NoFI THEN MoveFI("sum", i.fi) ELSE Move("sum", i.reg),
                       LoadImm("imm", i.off), AddReg("sum", "imm"),
                       Access("sum", NoFI, addr.off) >>

Init ==
  /\ source \in Programs
  /\ code = << >>
  /\ assigned = [v \in VRegs |-> NoReg] /\ spilled = {}
  /\ objectOffset = [f \in Objects \cup Slots |-> 0]
  /\ I = 1
  /\ regs = [r \in PhysRegs |-> 0] /\ mem = [a \in {} |-> 0] /\ trace = << >>
  /\ stage = "select"

SelectCode ==
  /\ stage = "select"
  /\ code' = FlattenSeq([n \in DOMAIN source |-> Selected(source[n])])
  /\ stage' = "allocate"
  /\ UNCHANGED <<source, assigned, spilled, objectOffset, I, regs, mem, trace>>

-----------------------------------------------------------------------------
(***************************************************************************)
(* Register allocation.                                                    *)
(***************************************************************************)

\* Mutant: the frame pointer may be allocated.
getReservedRegs_NoFP == {R11}

getReservedRegs == {R10, R11}

\* The registers an instruction of selected code reads and writes.
Uses(i) == ({i.rs} \cup (IF i.op = "ADD_rr" THEN {i.rd} ELSE {})) \cap VRegs
Defs(i) == {i.rd} \cap VRegs

\* Two registers may share one if both live in their slots and no
\* instruction needs them together.
MayShare(s, v, w) == v = w \/ ({v, w} \subseteq s /\ {v, w} # {"sum", "imm"})

\* One instruction with its registers assigned, between reloads and a spill.
Rewritten(i, a, s) ==
  LET phys(v) == IF v \in VRegs THEN a[v] ELSE v
  IN  SetToSeq({Load(a[v], Slot(v)) : v \in Uses(i) \cap s})
        \o <<[i EXCEPT !.rd = phys(@), !.rs = phys(@)]>>
        \o SetToSeq({Store(a[v], Slot(v)) : v \in Defs(i) \cap s})

\* The argument arrives in its register, and is spilled there if it must be.
AllocateRegisters(a, s) ==
  /\ stage = "allocate"
  /\ Cardinality(s) <= MaxSpills
  /\ \A v, w \in VRegs : a[v] = a[w] => MayShare(s, v, w)
  /\ assigned' = a /\ spilled' = s
  /\ code' = (IF "ptr" \in s THEN <<Store(a["ptr"], Slot("ptr"))>> ELSE << >>)
               \o FlattenSeq([n \in DOMAIN code |-> Rewritten(code[n], a, s)])
  /\ stage' = "layout"
  /\ UNCHANGED <<source, objectOffset, I, regs, mem, trace>>

\* calculateFrameObjectOffsets: the objects, then the slots made after them,
\* in some order, from the frame pointer downwards.
UsedIndices == {code[n].fi : n \in DOMAIN code} \ {NoFI}

LayOutFrame(order) ==
  /\ stage = "layout"
  /\ objectOffset' = [f \in Objects \cup Slots |->
       IF f \in UsedIndices THEN -Align * (CHOOSE n \in DOMAIN order : order[n] = f) ELSE 0]
  /\ stage' = "eliminate"
  /\ UNCHANGED <<source, code, assigned, spilled, I, regs, mem, trace>>

-----------------------------------------------------------------------------
(***************************************************************************)
(* eliminateFrameIndex.                                                    *)
(***************************************************************************)
getFrameRegister == R10

Replaced(s) == SubSeq(code, 1, I - 1) \o s \o SubSeq(code, I + 1, Len(code))

\* Mutant: the offset of the object is added before the move.
EliminateInMove_AddFirst(i) ==
  /\ i.op = "MOV_rr"
  /\ code' = Replaced(<<AddImm(i.rd, ToInt(objectOffset[i.fi])),
                        [i EXCEPT !.rs = getFrameRegister, !.fi = NoFI]>>)

\* MOV_rr: the frame register is moved, and an ADD_ri follows.
EliminateInMove(i) ==
  /\ i.op = "MOV_rr"
  /\ code' = Replaced(<<[i EXCEPT !.rs = getFrameRegister, !.fi = NoFI],
                        AddImm(i.rd, ToInt(objectOffset[i.fi]))>>)

\* Mutant: the offset is rewritten, the index is not.
EliminateInAddress_KeepsIndex(i) ==
  /\ i.op # "MOV_rr"
  /\ code' = Replaced(<<[i EXCEPT !.rs = getFrameRegister,
                                 !.imm = ToInt(objectOffset[i.fi] + i.imm)]>>)

\* A memory operand: "int Offset" is the sum with the operand's offset, which
\* isInt<32> then accepts, an int being one.
EliminateInAddress(i) ==
  LET Offset == ToInt(objectOffset[i.fi] + i.imm)
  IN  /\ i.op # "MOV_rr"
      /\ isInt32(Offset)
      /\ code' = Replaced(<<[i EXCEPT !.rs = getFrameRegister, !.fi = NoFI, !.imm = Offset]>>)

eliminateFrameIndex ==
  /\ stage = "eliminate" /\ I <= Len(code) /\ code[I].fi # NoFI
  /\ EliminateInMove(code[I]) \/ EliminateInAddress(code[I])
  /\ I' = I + 1
  /\ UNCHANGED <<source, assigned, spilled, objectOffset, regs, mem, trace, stage>>

NextInstruction ==
  /\ stage = "eliminate" /\ I <= Len(code) /\ code[I].fi = NoFI
  /\ I' = I + 1
  /\ UNCHANGED <<compiled, regs, mem, trace, stage>>

\* The function is called: prologue and epilogue are empty.
EliminationDone ==
  /\ stage = "eliminate" /\ I > Len(code)
  /\ I' = 1
  /\ regs' = [regs EXCEPT ![R10] = FP0, ![assigned["ptr"]] = Ptr0]
  /\ stage' = "run"
  /\ UNCHANGED <<compiled, mem, trace>>

-----------------------------------------------------------------------------
(***************************************************************************)
(* Execution.                                                              *)
(***************************************************************************)
Address(i) == (regs[i.rs] + i.imm) % WordMod

Result(i) ==
  CASE i.op = "MOV_rr"   -> regs[i.rs]
    [] i.op = "ADD_ri"   -> (regs[i.rd] + i.imm) % WordMod
    [] i.op = "ADD_rr"   -> (regs[i.rd] + regs[i.rs]) % WordMod
    [] i.op = "LD_imm64" -> i.imm % WordMod
    [] i.op = "LDD"      -> IF Address(i) \in DOMAIN mem THEN mem[Address(i)] ELSE 0

Execute ==
  /\ stage = "run" /\ I <= Len(code)
  /\ LET i == code[I]
     IN  /\ regs' = IF i.op \in {"STD", "access"} THEN regs ELSE [regs EXCEPT ![i.rd] = Result(i)]
         /\ mem' = IF i.op = "STD"
                   THEN [a \in DOMAIN mem \cup {Address(i)} |->
                           IF a = Address(i) THEN regs[i.rd] ELSE mem[a]]
                   ELSE mem
         /\ trace' = IF i.op = "access" THEN Append(trace, Address(i)) ELSE trace
  /\ I' = I + 1
  /\ UNCHANGED <<compiled, stage>>

Return ==
  /\ stage = "run" /\ I > Len(code)
  /\ stage' = "halt"
  /\ UNCHANGED <<compiled, I, regs, mem, trace>>

Next ==
  \/ SelectCode
  \/ \E a \in [VRegs -> PhysRegs \ getReservedRegs], s \in SUBSET VRegs : AllocateRegisters(a, s)
  \/ \E o \in SetToSeqs(UsedIndices \cap Objects), s \in SetToSeqs(UsedIndices \cap Slots) :
       LayOutFrame(o \o s)
  \/ eliminateFrameIndex \/ NextInstruction \/ EliminationDone
  \/ Execute \/ Return

Spec == Init /\ [][Next]_vars

-----------------------------------------------------------------------------
(***************************************************************************)
(* Properties.                                                             *)
(***************************************************************************)

\* Type invariant; once frame indices are eliminated every register is a
\* physical one.
TypeOK ==
  /\ source \in Programs
  /\ assigned \in [VRegs -> PhysRegs \cup {NoReg}] /\ spilled \subseteq VRegs
  /\ objectOffset \in [Objects \cup Slots -> Int]
  /\ I \in 1 .. Len(code) + 1
  /\ regs \in [PhysRegs -> 0 .. WordMod - 1]
  /\ \A a \in DOMAIN mem : mem[a] \in 0 .. WordMod - 1
  /\ \A n \in DOMAIN code :
       /\ code[n].fi \in Objects \cup Slots \cup {NoFI}
       /\ stage \in {"run", "halt"} =>
            code[n].fi = NoFI /\ {code[n].rd, code[n].rs} \subseteq PhysRegs \cup {NoReg}
  /\ stage \in {"select", "allocate", "layout", "eliminate", "run", "halt"}

\* What the source accesses, instruction by instruction, in this frame.
Base(i) ==
  CASE i.fi # NoFI   -> FP0 + objectOffset[i.fi]
    [] i.reg = "ptr" -> Ptr0
    [] i.reg = "obj" ->
         LET n == CHOOSE n \in DOMAIN source : source[n].k = "take"
         IN  FP0 + objectOffset[source[n].fi]

Accessed(i) == IF i.k = "access" THEN <<(Base(i) + i.off) % WordMod>> ELSE << >>

SourceTrace == FlattenSeq([n \in DOMAIN source |-> Accessed(source[n])])

\* The code accesses the addresses the source does, in its order: through
\* folded and computed offsets, addresses held in registers and spilled ones,
\* in every frame layout.
AddressesKept ==
  stage \in {"run", "halt"} =>
    /\ IsPrefix(trace, SourceTrace)
    /\ stage = "halt" => trace = SourceTrace

\* In any layout, the offset of an object or a slot is an int, and so is its sum
\* with any offset that is folded: what eliminateFrameIndex relies on.
FramesFit ==
  \A p \in Programs :
    LET n == Cardinality({p[m].fi : m \in DOMAIN p} \ {NoFI})
    IN  /\ isInt32(-Align * (n + Cardinality(VRegs)))
        /\ \A m \in DOMAIN p : p[m].fi # NoFI /\ isInt32(p[m].off) =>
             \A k \in 1 .. n : isInt32(p[m].off - Align * k)

\* No step of the function moves its frame pointer: there is no prologue that
\* would set it up again.
FramePointerStays == [][stage = "run" => regs'[R10] = regs[R10]]_vars

\* "bug in frame offset": the check of eliminateFrameIndex lets through only
\* an offset that fits, so the operand is left with the sum.
FrameOffsetsExact ==
  [][stage = "eliminate" /\ I <= Len(code) =>
       LET i == code[I]
       IN  i.fi # NoFI /\ i.op # "MOV_rr" => code'[I].imm = objectOffset[i.fi] + i.imm]_vars
=============================================================================
