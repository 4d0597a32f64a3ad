---------------------------- MODULE BPFInstPrinter ----------------------------
(***************************************************************************)
(* The other output: the text of an instruction.  BPFAsmPrinter hands each *)
(* MachineInstr to BPFMCInstLower, and the MCInst it builds goes either to *)
(* the encoder or to BPFInstPrinter, which finds the operands of the       *)
(* assembly string by their numbers.                                       *)
(*                                                                         *)
(* An operand is its kind and its value.  Of the text only the operands    *)
(* are kept, in the order they are printed.                                *)
(***************************************************************************)
EXTENDS BPFAssembler, SequencesExt

Reg(n)  == [k |-> "reg",  v |-> n]
Imm(n)  == [k |-> "imm",  v |-> n]
Expr(s) == [k |-> "expr", v |-> s]

\* The operands of a MachineInstr, outs before ins; the calling convention adds
\* a register mask and implicit registers at the end.
Implicit == <<[k |-> "mask", v |-> NoSym], [k |-> "implicit", v |-> 11]>>
Block(b) == [k |-> "block", v |-> b]
SymbolOrImm(i) == IF i.sym = NoSym THEN Imm(i.imm) ELSE [k |-> "global", v |-> i.sym]

MachineInstr(i) ==
  CASE i.fmt = "JMP_RR"   -> <<Reg(i.rA), Reg(i.rX), Block(i.sym)>>
    [] i.fmt = "JMP_RI"   -> <<Reg(i.rA), Imm(i.imm), Block(i.sym)>>
    [] i.fmt \in AluFormats ->
         LET last == IF i.fmt = "ALU_RR" THEN Reg(i.rX) ELSE Imm(i.imm)
         IN  IF i.op = "MOV" THEN <<Reg(i.rA), last>> ELSE <<Reg(i.rA), Reg(i.rA), last>>
    [] i.fmt = "STORE"    -> <<Reg(i.rX), Reg(i.base), Imm(i.off)>>
    [] i.fmt = "LOAD"     -> <<Reg(i.rA), Reg(i.base), Imm(i.off)>>
    [] i.fmt = "XADD"     -> <<Reg(i.rX), Reg(i.base), Imm(i.off), Reg(i.rX)>>
    [] i.fmt = "LD_IMM64" -> <<Reg(i.rA), SymbolOrImm(i)>>
    [] i.fmt = "BRANCH"   -> <<Block(i.sym)>>
    [] i.fmt = "CALL"     -> <<SymbolOrImm(i)>> \o Implicit
    [] i.fmt = "RET"      -> Tail(Implicit)

\* BPFMCInstLower::Lower, one operand: implicit registers and register masks
\* are skipped, blocks and globals become expressions.
LowerOperand(o) ==
  CASE o.k \in {"mask", "implicit"} -> << >>
    [] o.k \in {"block", "global"}  -> <<Expr(o.v)>>
    [] o.k \in {"reg", "imm"}       -> <<o>>

Lower(ops) == FlattenSeq([n \in DOMAIN ops |-> LowerOperand(ops[n])])

\* BPFAsmPrinter hands the streamer this.
EmitInstruction(i) == Lower(MachineInstr(i))

\* printOperand casts an immediate to int32_t.
printOperand(op) == IF op.k = "imm" THEN Imm(SExt(op.v % ImmMod, ImmMod)) ELSE op

\* Mutant: as any other operand.
printImm64Operand_Int32(op) == printOperand(op)

\* uint64_t.
printImm64Operand(op) == IF op.k = "imm" THEN Imm(op.v % AddrMod) ELSE op

\* The offset and the base, uncut.
printMemOperand(ops, n) == <<ops[n + 1], ops[n]>>

\* printInstruction, by the assembly string of the format.
printInstruction(i) ==
  LET ops == EmitInstruction(i)
      p(n) == printOperand(ops[n])
  IN  CASE i.fmt \in JumpFormats  -> <<p(1), p(2), p(3)>>
        [] i.fmt \in AluFormats   -> <<p(1), p(Len(ops))>>
        [] i.fmt = "STORE"        -> printMemOperand(ops, 2) \o <<p(1)>>
        [] i.fmt = "LOAD"         -> <<p(1)>> \o printMemOperand(ops, 2)
        [] i.fmt = "XADD"         -> <<p(1)>> \o printMemOperand(ops, 2) \o <<p(4)>>
        [] i.fmt = "LD_IMM64"     -> <<p(1), printImm64Operand(ops[2])>>
        [] i.fmt \in {"BRANCH", "CALL"} -> <<p(1)>>
        [] i.fmt = "RET"          -> << >>

-----------------------------------------------------------------------------
(***************************************************************************)
(* The words, read as a machine reads them, in the order of the text.      *)
(***************************************************************************)
Disassembled(k) ==
  LET w    == image[k]
      i    == source[k]
      imm  == IF i.sym = NoSym THEN Imm(SExt(w.imm, ImmMod)) ELSE Expr(i.sym)
      wide == IF i.sym = NoSym THEN Imm(w.imm + ImmMod * image[k + 1].imm) ELSE Expr(i.sym)
      off  == Imm(SExt(w.off, OffMod))
      fmt  == DecodedFormat(w)
  IN  CASE fmt = "JMP_RR"   -> <<Reg(w.dst), Reg(w.src), Expr(i.sym)>>
        [] fmt = "JMP_RI"   -> <<Reg(w.dst), Imm(SExt(w.imm, ImmMod)), Expr(i.sym)>>
        [] fmt = "ALU_RR"   -> <<Reg(w.dst), Reg(w.src)>>
        [] fmt = "ALU_RI"   -> <<Reg(w.dst), imm>>
        [] fmt = "STORE"    -> <<off, Reg(w.dst), Reg(w.src)>>
        [] fmt = "LOAD"     -> <<Reg(w.dst), off, Reg(w.src)>>
        [] fmt = "XADD"     -> <<Reg(w.src), off, Reg(w.dst), Reg(w.src)>>
        [] fmt = "LD_IMM64" -> <<Reg(w.dst), wide>>
        [] fmt = "BRANCH"   -> <<Expr(i.sym)>>
        [] fmt = "CALL"     -> <<imm>>
        [] fmt = "RET"      -> << >>

\* The two outputs of the compiler are the same program: what the printer
\* prints is what the machine reads in the object, also where an immediate was
\* cut to its field; memory offsets agree when they fit the field.
TextMeansObject ==
  \A k \in DOMAIN source :
    FitsOffset(source[k]) => printInstruction(source[k]) = Disassembled(k)
===============================================================================
