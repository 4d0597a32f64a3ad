----------------------------- MODULE BPFCondCodes -----------------------------
(***************************************************************************)
(* Comparisons: the condition codes of an i64 comparison, their reduction  *)
(* by NegateCC to those BPF has a jump for, and the jump each one becomes, *)
(* in the patterns of BPFInstrInfo.td and in EmitInstrWithCustomInserter.  *)
(***************************************************************************)
EXTENDS Integers

CONSTANTS
  WordMod,     (* 2^(width of a register):  2^64 in the code               *)
  ImmMod       (* 2^(width of an immediate): 2^32 in the code              *)

ASSUME RegisterWidthAssumption ==
  /\ WordMod \in Nat \ {0}
  /\ ImmMod \in Nat \ {0}

\* The condition codes of integer comparisons.
Conds == {"SETEQ", "SETNE", "SETGT", "SETGE", "SETLT", "SETLE",
          "SETUGT", "SETUGE", "SETULT", "SETULE"}

\* The values of a register, and their signed reading.
Values    == 0 .. WordMod - 1
Signed(v) == IF 2 * v < WordMod THEN v ELSE v - WordMod

\* What the comparison means: the reference for its lowering.
Holds(cc, x, y) ==
  CASE cc = "SETEQ"  -> x = y
    [] cc = "SETNE"  -> x # y
    [] cc = "SETGT"  -> Signed(x) > Signed(y)
    [] cc = "SETGE"  -> Signed(x) >= Signed(y)
    [] cc = "SETLT"  -> Signed(x) < Signed(y)
    [] cc = "SETLE"  -> Signed(x) <= Signed(y)
    [] cc = "SETUGT" -> x > y
    [] cc = "SETUGE" -> x >= y
    [] cc = "SETULT" -> x < y
    [] cc = "SETULE" -> x <= y

\* The codes NegateCC replaces, swapping the operands.
Swapped == [SETULT |-> "SETUGT", SETULE |-> "SETUGE", SETLT |-> "SETGT", SETLE |-> "SETGE"]

\* Mutant: the operands are not swapped.
NegateCC_NoSwap(n) ==
  IF n.cc \in DOMAIN Swapped THEN [n EXCEPT !.cc = Swapped[n.cc]] ELSE n

\* Mutant: a strict comparison stays as it is.
NegateCC_LTMissing(n) ==
  IF n.cc \in DOMAIN Swapped \ {"SETLT"}
  THEN [n EXCEPT !.cc = Swapped[n.cc], !.lhs = n.rhs, !.rhs = n.lhs]
  ELSE n

\* NegateCC on a node with a condition code and two operands.
NegateCC(n) ==
  IF n.cc \in DOMAIN Swapped
  THEN [n EXCEPT !.cc = Swapped[n.cc], !.lhs = n.rhs, !.rhs = n.lhs]
  ELSE n

\* The jump for each remaining code: the BPF_CC_ patterns of the jump
\* instructions, and the switch of EmitInstrWithCustomInserter.
JumpOf == [SETEQ |-> "JEQ", SETNE |-> "JNE", SETGT |-> "JSGT", SETGE |-> "JSGE",
           SETUGT |-> "JUGT", SETUGE |-> "JUGE"]

\* When the machine takes each jump: its view, independent of the compiler.
Taken(op, x, y) ==
  CASE op = "JEQ"  -> x = y
    [] op = "JNE"  -> x # y
    [] op = "JSGT" -> Signed(x) > Signed(y)
    [] op = "JSGE" -> Signed(x) >= Signed(y)
    [] op = "JUGT" -> x > y
    [] op = "JUGE" -> x >= y

\* immSExt32: an immediate the instruction can hold.
immSExt32(n) == -ImmMod <= 2 * n /\ 2 * n < ImmMod
=============================================================================
