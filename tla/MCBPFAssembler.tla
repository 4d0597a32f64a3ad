--------------------------- MODULE MCBPFAssembler ---------------------------
(* Instances of BPFAssembler for TLC: the instructions and the sections.   *)
EXTENDS BPFInstPrinter

CONSTANTS b1, b2, main, static, helper

\* An instruction with no operand, and those built from it.
Bare(fmt, op) == [fmt |-> fmt, op |-> op, rA |-> 0, rX |-> 0, base |-> 0,
                  off |-> 0, imm |-> 0, sym |-> NoSym]

MCBlocksOf == [f \in Funcs |-> IF f = main THEN Blocks ELSE {}]

Jne(b)      == [Bare("JMP_RI", "JNE")  EXCEPT !.rA = 3, !.imm = -2, !.sym = b]
Jsgt(b)     == [Bare("JMP_RR", "JSGT") EXCEPT !.rA = 1, !.rX = 10, !.sym = b]
Jmp(b)      == [Bare("BRANCH", "BRANCH") EXCEPT !.sym = b]
Call(f)     == [Bare("CALL", "CALL") EXCEPT !.sym = f]
CallImm(n)  == [Bare("CALL", "CALL") EXCEPT !.imm = n]
LdSym(s)    == [Bare("LD_IMM64", "LD_IMM64") EXCEPT !.rA = 4, !.sym = s]
LdImm(n)    == [Bare("LD_IMM64", "LD_IMM64") EXCEPT !.rA = 5, !.imm = n]
AddImm(n)   == [Bare("ALU_RI", "ADD") EXCEPT !.rA = 9, !.imm = n]
MovReg      == [Bare("ALU_RR", "MOV") EXCEPT !.rA = 6, !.rX = 1]
Stb(off)    == [Bare("STORE", "B") EXCEPT !.rX = 2, !.base = 11, !.off = off]
Ldd(off)    == [Bare("LOAD", "D")  EXCEPT !.rA = 7, !.base = 10, !.off = off]
Xadd(off)   == [Bare("XADD", "W")  EXCEPT !.rX = 8, !.base = 1, !.off = off]
Ret         == Bare("RET", "RET")

(* Layout: jumps both ways, two-word loads, calls, padding and a static    *)
(* function that is called.                                                *)
LayoutInstrs == {Jne(b1), Jmp(b2), LdSym(helper), Call(static), Ret}

(* Encoding: every opcode, with operands at the limits of their fields.    *)
Limits(m) == {-(m \div 2), -1, 0, (m \div 2) - 1}

AllJumps == {[Jsgt(b1) EXCEPT !.op = o, !.rA = a] :
               o \in DOMAIN BrOp, a \in {0, 11}}
            \cup {[Jne(b1) EXCEPT !.op = o, !.imm = n] :
                    o \in DOMAIN BrOp, n \in Limits(ImmMod)}

AllAlu == {[MovReg EXCEPT !.op = o, !.rX = x] : o \in DOMAIN AluOp, x \in {1, 10}}
          \cup {[AddImm(n) EXCEPT !.op = o] : o \in DOMAIN AluOp, n \in {-1, ImmMod \div 2 - 1}}

(* Offsets in and out of the range of the field.                           *)
AllMem == {[i EXCEPT !.op = o] :
             i \in {Stb(n) : n \in Limits(ImmMod)} \cup {Ldd(n) : n \in Limits(OffMod)}
                     \cup {Xadd(n) : n \in Limits(OffMod)},
             o \in DOMAIN SizeOp}

AllOthers == {LdImm(n) : n \in Limits(AddrMod) \cup Limits(ImmMod) \cup {ImmMod, 1 - ImmMod}}
             \cup {CallImm(n) : n \in Limits(ImmMod) \cup {ImmMod + 1}}
             \cup {LdSym(helper), LdSym(main), Call(helper), Call(main), Jmp(b1), Ret}

EncodingInstrs == AllJumps \cup AllAlu \cup AllMem \cup AllOthers

(* A branch that may leave the range of its field.                         *)
FarInstrs == {Jmp(b1), Jmp(b2), Ret}

(* Memory accesses with offsets SelectAddr accepts.                        *)
OffsetInstrs == {Stb(n) : n \in Limits(ImmMod)} \cup {Ldd(n) : n \in Limits(OffMod)} \cup {Ret}
=============================================================================
