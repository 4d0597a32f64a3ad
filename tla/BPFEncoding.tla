----------------------------- MODULE BPFEncoding -----------------------------
(***************************************************************************)
(* The BPF instruction set as BPFInstrInfo.td lays it out, and the         *)
(* encoding of one machine instruction by BPFMCCodeEmitter.                *)
(*                                                                         *)
(* An instruction is a record of its operands; an operand its format lacks *)
(* is 0, or NoSym.  A word is a record of the fields EncodeInstruction     *)
(* emits in order: opcode byte, the two nibbles of the register byte,      *)
(* 2-byte offset, 4-byte immediate.  The widths of the last two are        *)
(* constants: the same definitions are checked on narrow fields and proved *)
(* for every width.                                                        *)
(***************************************************************************)
EXTENDS Integers, Sequences

CONSTANTS
  OffMod,      (* 2^(width of the offset field):    2^16 in the code       *)
  ImmMod,      (* 2^(width of the immediate field): 2^32 in the code       *)
  Blocks,      (* basic blocks, the targets of jumps                       *)
  Funcs,       (* functions defined in the section                         *)
  Externs,     (* symbols defined elsewhere                                *)
  NoSym        (* absence of a symbol operand                              *)

RegMod    == 16                    \* a register field is a nibble
AddrMod   == ImmMod * ImmMod       \* uint64_t arithmetic
WordBytes == 8

ASSUME WidthAssumption ==
  /\ OffMod \in Nat \ {0} /\ OffMod % 2 = 0
  /\ ImmMod \in Nat \ {0} /\ ImmMod % 2 = 0
  /\ AddrMod % (WordBytes * OffMod) = 0

ASSUME SymbolAssumption ==
  /\ Blocks \cap Funcs = {}
  /\ (Blocks \cup Funcs) \cap Externs = {}
  /\ NoSym \notin Blocks \cup Funcs \cup Externs

-----------------------------------------------------------------------------
(***************************************************************************)
(* Instruction formats and opcodes.                                        *)
(***************************************************************************)
JumpFormats == {"JMP_RR", "JMP_RI"}
AluFormats  == {"ALU_RR", "ALU_RI"}       \* MOV_RR and MOV_RI included
MemFormats  == {"STORE", "LOAD", "XADD"}
Formats     == JumpFormats \cup AluFormats \cup MemFormats
                 \cup {"LD_IMM64", "BRANCH", "CALL", "RET"}

\* defm J...: the operation nibble of a conditional jump.
BrOp == [JEQ |-> 1, JUGT |-> 2, JUGE |-> 3, JNE |-> 5, JSGT |-> 6, JSGE |-> 7]

\* defm ADD...: the operation nibble of an ALU instruction.
AluOp == [ADD |-> 0, SUB |-> 1, MUL |-> 2, DIV |-> 3, OR |-> 4, AND |-> 5,
          SLL |-> 6, SRL |-> 7, XOR |-> 10, MOV |-> 11, SRA |-> 12]

\* STW.., LDW.., XADD32..: the access size.
SizeOp == [W |-> 0, H |-> 1, B |-> 2, D |-> 3]

\* The operations of each format; a format with one instruction has one.
OpsOf(fmt) == CASE fmt \in JumpFormats -> DOMAIN BrOp
                [] fmt \in AluFormats  -> DOMAIN AluOp
                [] fmt \in MemFormats  -> DOMAIN SizeOp
                [] OTHER               -> {fmt}

\* getBPFRegisterNumbering: R0 .. R11.
RegNums == 0 .. 11

SignedRange(m) == -(m \div 2) .. (m \div 2) - 1

ImmsOf(fmt) == CASE fmt \in {"LD_IMM64", "CALL"} -> SignedRange(AddrMod)
                 [] fmt \in {"JMP_RI", "ALU_RI"}   -> SignedRange(ImmMod)
                 [] OTHER -> {0}

SymsOf(fmt) == CASE fmt \in JumpFormats \cup {"BRANCH"} -> Blocks
                 [] fmt \in {"CALL", "LD_IMM64"} -> Funcs \cup Externs \cup {NoSym}
                 [] OTHER -> {NoSym}

OnlyIn(formats, fmt, S) == IF fmt \in formats THEN S ELSE {0}

\* An MCInst after register allocation.  immSExt32 bounds the immediates;
\* SelectAddr accepts memory offsets of the immediate's width, not of the
\* offset field's.
MCInst == {i \in [fmt : Formats, op : STRING, rA : RegNums, rX : RegNums,
                  base : RegNums, off : Int, imm : Int,
                  sym : Blocks \cup Funcs \cup Externs \cup {NoSym}] :
             /\ i.op   \in OpsOf(i.fmt)
             /\ i.rA   \in OnlyIn({"JMP_RR", "JMP_RI", "ALU_RR", "ALU_RI",
                                   "LD_IMM64", "LOAD"}, i.fmt, RegNums)
             /\ i.rX   \in OnlyIn({"JMP_RR", "ALU_RR", "STORE", "XADD"}, i.fmt, RegNums)
             /\ i.base \in OnlyIn(MemFormats, i.fmt, RegNums)
             /\ i.off  \in OnlyIn(MemFormats, i.fmt, SignedRange(ImmMod))
             /\ i.imm  \in ImmsOf(i.fmt)
             /\ i.sym  \in SymsOf(i.fmt)
             /\ i.sym # NoSym => i.fmt \in JumpFormats \/ i.imm = 0}

\* Inst{63-56}: operation, source bit and class of a jump or ALU word;
\* mode, size and class of a load or store.
OpcodeByte(i) ==
  CASE i.fmt = "JMP_RR"   -> 16 * BrOp[i.op] + 8 + 5
    [] i.fmt = "JMP_RI"   -> 16 * BrOp[i.op] + 5
    [] i.fmt = "ALU_RR"   -> 16 * AluOp[i.op] + 8 + 7
    [] i.fmt = "ALU_RI"   -> 16 * AluOp[i.op] + 7
    [] i.fmt = "LD_IMM64" -> 32 * 0 + 8 * 3 + 0
    [] i.fmt = "STORE"    -> 32 * 3 + 8 * SizeOp[i.op] + 3
    [] i.fmt = "LOAD"     -> 32 * 3 + 8 * SizeOp[i.op] + 1
    [] i.fmt = "XADD"     -> 32 * 6 + 8 * SizeOp[i.op] + 3
    [] i.fmt = "BRANCH"   -> 16 * 0 + 5
    [] i.fmt = "CALL"     -> 16 * 8 + 5
    [] i.fmt = "RET"      -> 16 * 9 + 5

-----------------------------------------------------------------------------
(***************************************************************************)
(* Operand encoding.                                                       *)
(***************************************************************************)

\* BPFMCCodeEmitter::getMemoryOpValue: the base register above the offset,
\* which is masked to the width of its field.
getMemoryOpValue(i) == i.base * OffMod + (i.off % OffMod)

AddrReg(i) == (getMemoryOpValue(i) \div OffMod) % RegMod    \* addr{19-16}
AddrOff(i) == getMemoryOpValue(i) % OffMod                  \* addr{15-0}

\* Mutant: the immediate is not cast to unsigned.
getMachineOpValue_NoCast(i) ==
  IF i.fmt \in {"CALL", "LD_IMM64"} /\ i.sym # NoSym THEN 0 ELSE i.imm

\* Mutant: an instruction with a symbol operand loses its immediate.
getMachineOpValue_SymbolFirst(i) == IF i.sym # NoSym THEN 0 ELSE i.imm % ImmMod

\* The operand that getMachineOpValue encodes into the immediate field: a
\* symbol is encoded as 0, an immediate is cast to unsigned.
getMachineOpValue(i) ==
  IF i.fmt \in {"CALL", "LD_IMM64"} /\ i.sym # NoSym THEN 0 ELSE i.imm % ImmMod

\* Mutant: the address of a symbol is fixed up as a call is.
FixupKind_NoWide(i) ==
  IF i.fmt \in {"CALL", "LD_IMM64"} THEN "FK_SecRel_4" ELSE "FK_PCRel_2"

\* The kind of the fixup getMachineOpValue pushes for a symbol, by opcode.
FixupKind(i) == CASE i.fmt = "CALL"     -> "FK_SecRel_4"
                  [] i.fmt = "LD_IMM64" -> "FK_SecRel_8"
                  [] OTHER              -> "FK_PCRel_2"

\* The Fixups vector after encoding an instruction at byte offset "at".
NewFixups(i, at) ==
  IF i.sym = NoSym THEN {} ELSE {[at |-> at, kind |-> FixupKind(i), sym |-> i.sym]}

\* Inst{51-48}, Inst{55-52}, Inst{47-32} and Inst{31-0} of each format.
DstField(i) == IF i.fmt \in {"STORE", "XADD"} THEN AddrReg(i) ELSE i.rA

SrcField(i) == IF i.fmt = "LOAD" THEN AddrReg(i) ELSE i.rX

OffField(i) == IF i.fmt \in MemFormats THEN AddrOff(i) ELSE 0

getBinaryCodeForInstr(i) ==
  [opc |-> OpcodeByte(i), dst |-> DstField(i), src |-> SrcField(i),
   off |-> OffField(i),   imm |-> getMachineOpValue(i)]

\* Mutant: the second word repeats the low half of the immediate.
HighWord_LowHalf(i) ==
  [opc |-> 0, dst |-> 0, src |-> 0, off |-> 0,
   imm |-> IF i.sym = NoSym THEN i.imm % ImmMod ELSE 0]

\* The second word of LD_imm64: Imm >> 32 of the uint64_t immediate.
HighWord(i) ==
  [opc |-> 0, dst |-> 0, src |-> 0, off |-> 0,
   imm |-> IF i.sym = NoSym THEN (i.imm % AddrMod) \div ImmMod ELSE 0]

\* Mutant: every instruction is one word, as Size = 8 says of all of them.
Words_OneWord(i) == <<getBinaryCodeForInstr(i)>>

\* The words EncodeInstruction writes for one MCInst.
Words(i) == IF i.fmt = "LD_IMM64"
            THEN <<[getBinaryCodeForInstr(i) EXCEPT !.off = 0], HighWord(i)>>
            ELSE <<getBinaryCodeForInstr(i)>>

\* One word of BPFAsmBackend::writeNopData: Write64(0x15000000), little
\* endian, puts 0x15 in the high byte of the offset field.
NopWord == [opc |-> 0, dst |-> 0, src |-> 0, off |-> (21 * 256) % OffMod, imm |-> 0]

Word == [opc : 0 .. 255, dst : 0 .. RegMod - 1, src : 0 .. RegMod - 1,
         off : 0 .. OffMod - 1, imm : 0 .. ImmMod - 1]

-----------------------------------------------------------------------------
(***************************************************************************)
(* The machine's view: how an eBPF interpreter reads a word.  Independent  *)
(* of the encoder, this is the reference its output is compared with.      *)
(***************************************************************************)
SExt(v, m) == IF 2 * v < m THEN v ELSE v - m

ClassOf(w)   == w.opc % 8
NibbleOf(w)  == w.opc \div 16
SrcBitOf(w)  == (w.opc \div 8) % 2
SizeBitsOf(w) == (w.opc \div 8) % 4
ModeOf(w)    == w.opc \div 32

DecodedFormat(w) ==
  CASE ClassOf(w) = 0 /\ ModeOf(w) = 0 /\ SizeBitsOf(w) = 3 -> "LD_IMM64"
    [] ClassOf(w) = 1 /\ ModeOf(w) = 3                   -> "LOAD"
    [] ClassOf(w) = 3 /\ ModeOf(w) = 3                   -> "STORE"
    [] ClassOf(w) = 3 /\ ModeOf(w) = 6                   -> "XADD"
    [] ClassOf(w) = 5 /\ NibbleOf(w) = 0                 -> "BRANCH"
    [] ClassOf(w) = 5 /\ NibbleOf(w) = 8                 -> "CALL"
    [] ClassOf(w) = 5 /\ NibbleOf(w) = 9                 -> "RET"
    [] ClassOf(w) = 5 /\ NibbleOf(w) \in 1 .. 7          ->
         IF SrcBitOf(w) = 1 THEN "JMP_RR" ELSE "JMP_RI"
    [] ClassOf(w) = 7 /\ NibbleOf(w) \in 0 .. 12         ->
         IF SrcBitOf(w) = 1 THEN "ALU_RR" ELSE "ALU_RI"
    [] OTHER                                             -> "illegal"

OpNamed(table, n) == CHOOSE o \in DOMAIN table : table[o] = n

DecodedOp(w) ==
  LET fmt == DecodedFormat(w)
  IN  CASE fmt \in JumpFormats -> OpNamed(BrOp, NibbleOf(w))
        [] fmt \in AluFormats  -> OpNamed(AluOp, NibbleOf(w))
        [] fmt \in MemFormats  -> OpNamed(SizeOp, SizeBitsOf(w))
        [] OTHER               -> fmt

\* How many words an instruction takes, seen from its first word.
Width(w) == IF DecodedFormat(w) = "LD_IMM64" THEN 2 ELSE 1

(***************************************************************************)
(* What the words must mean for the instruction they encode.               *)
(***************************************************************************)
OperationKept(i, w) == DecodedFormat(w) = i.fmt /\ DecodedOp(w) = i.op

\* Loads read through the source register, stores and xadd write through the
\* destination register; the other register is the value.
RegistersKept(i, w) ==
  CASE i.fmt = "LOAD"              -> w.dst = i.rA   /\ w.src = i.base
    [] i.fmt \in {"STORE", "XADD"} -> w.dst = i.base /\ w.src = i.rX
    [] OTHER                       -> w.dst = i.rA   /\ w.src = i.rX

OffsetKept(i, w) == i.fmt \in MemFormats => SExt(w.off, OffMod) = i.off
FitsOffset(i)    == i.off \in SignedRange(OffMod)

ImmediateKept(i, w) == SExt(w.imm, ImmMod) = i.imm
FitsImmediate(i)    == i.imm \in SignedRange(ImmMod)

\* LD_imm64 reads the low half from the first word and the high half from
\* the next one.
WideImmediateKept(i, w, next) == SExt(w.imm + ImmMod * next.imm, AddrMod) = i.imm
=============================================================================
