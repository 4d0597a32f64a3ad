----------------------------- MODULE BPFLegalize ------------------------------
(***************************************************************************)
(* From the operations of the IR to instructions.  The constructor of      *)
(* BPFTargetLowering says what the legalizer does with each operation; the *)
(* legalizer (external) rewrites one node at a time, in any order, and     *)
(* then the patterns of BPFInstrInfo.td select an instruction for each.    *)
(* Comparisons stay as they are here, see BPFSelect.                       *)
(*                                                                         *)
(* A term is a node with its operands.  Widths are a quarter of the real   *)
(* ones, but that of i1, and all values are of type i64.                   *)
(***************************************************************************)
EXTENDS BPFCondCodes, Sequences, FiniteSets, Bitwise

CONSTANTS
  Sources,     (* the terms to compile                                     *)
  Samples,     (* values of registers and memory                           *)
  MaxNodes     (* bound on the nodes of a term                             *)

Bits == [i1 |-> 1, i8 |-> 2, i16 |-> 4, i32 |-> 8, i64 |-> 16]

ASSUME WidthAssumption   == WordMod = 2 ^ Bits.i64 /\ ImmMod = 2 ^ Bits.i32
ASSUME SamplesAssumption == Samples \subseteq Values

\* A node: what it does, its type, constant or condition, its operands.
Node(op, p, a)   == [op |-> op, p |-> p, a |-> a]
Const(n)         == Node("const", n, << >>)
Binary(op, x, y) == Node(op, "i64", <<x, y>>)

VARIABLES
  source,      (* the term of the IR                                       *)
  term,        (* what has become of it                                    *)
  status       (* "legalize", "selected", "unimplemented", "cannot select" *)

vars == <<source, term, status>>

Init == source \in Sources /\ term = source /\ status = "legalize"

\* The nodes of a term are named by the operand numbers that lead to them.
RECURSIVE Paths(_), At(_, _), Replace(_, _, _)
Paths(t)  == {<< >>} \cup UNION {{<<i>> \o q : q \in Paths(t.a[i])} : i \in DOMAIN t.a}
At(t, path) == IF path = << >> THEN t ELSE At(t.a[Head(path)], Tail(path))
Replace(t, path, new) ==
  IF path = << >> THEN new ELSE [t EXCEPT !.a[Head(path)] = Replace(@, Tail(path), new)]

-----------------------------------------------------------------------------
(***************************************************************************)
(* Legalization.                                                           *)
(***************************************************************************)

\* The actions the constructor sets, for loads by the type in memory.
Customs    == {"br_cc", "select_cc", "global", "dynamic_stackalloc", "cttz", "ctlz"}
Expansions == {"br_jt", "brcond", "setcc", "select", "stacksave", "srem", "urem",
               "sext_inreg", "sextload"}

\* Stores of less than a byte are widened whatever the target says.
IsBit(n) == n.op \in {"extload", "zextload", "sextload", "truncstore"} /\ n.p = "i1"

\* Mutant: SELECT_CC is to be expanded.
OperationAction_SelectCC(n) ==
  CASE n.op \in Customs \ {"select_cc"} -> "Custom"
    [] IsBit(n) -> "Promote"
    [] ~IsBit(n) /\ n.op \in Expansions \cup {"select_cc"} -> "Expand"
    [] OTHER -> "Legal"

\* Mutant: the sign-extending load of 16 bits is forgotten.
OperationAction_SextLoad(n) ==
  CASE n.op \in Customs -> "Custom"
    [] IsBit(n) -> "Promote"
    [] ~IsBit(n) /\ n.op \in Expansions /\ ~(n.op = "sextload" /\ n.p = "i16") -> "Expand"
    [] OTHER -> "Legal"

OperationAction(n) ==
  CASE n.op \in Customs -> "Custom"
    [] IsBit(n) -> "Promote"
    [] ~IsBit(n) /\ n.op \in Expansions -> "Expand"
    [] OTHER -> "Legal"

\* The target node for each operation that has one.
LowerOperation ==
  [br_cc |-> "BPFISD::BR_CC", global |-> "BPFISD::Wrapper", select_cc |-> "BPFISD::SELECT_CC"]

\* What the legalizer makes of an operation to be expanded.
Expand(n) ==
  LET x == n.a[1]
      y == n.a[2]
      \* A condition that is no comparison is compared with zero; only a branch masks it.
      Compare(op, condition, rest) ==
        IF x.op = "setcc" THEN Node(op, x.p, x.a \o rest)
        ELSE Node(op, "SETNE", <<condition, Const(0)>> \o rest)
      Remainder(div) == Binary("sub", x, Binary("mul", Binary(div, x, y), y))
      High == Const(Bits.i64 - Bits[n.p])
  IN  CASE n.op = "brcond"     -> Compare("br_cc", Binary("and", x, Const(1)), << >>)
        [] n.op = "select"     -> Compare("select_cc", x, Tail(n.a))
        [] n.op = "setcc"      -> Node("select_cc", n.p, <<x, y, Const(1), Const(0)>>)
        [] n.op = "select_cc"  -> Node("select", "i64", <<Node("setcc", n.p, <<x, y>>)>> \o SubSeq(n.a, 3, 4))
        [] n.op = "br_jt"      -> Node("brind", "i64", <<Binary("add", Node("jump_table", "i64", << >>), x)>>)
        [] n.op = "stacksave"  -> Node("reg", "R11", << >>)
        [] n.op = "srem"       -> Remainder("sdiv")
        [] n.op = "urem"       -> Remainder("udiv")
        [] n.op = "sext_inreg" -> Binary("sra", Binary("shl", x, High), High)
        [] n.op = "sextload"   -> Node("sext_inreg", n.p, <<Node("extload", n.p, << >>)>>)

\* An i1 in memory is a byte, whose other bits are zero.
Promote(n) ==
  CASE n.op = "sextload"   -> Node("sext_inreg", "i1", <<Node("extload", "i8", << >>)>>)
    [] n.op = "truncstore" -> Node("truncstore", "i8", <<Binary("and", n.a[1], Const(1))>>)
    [] OTHER               -> [n EXCEPT !.p = "i8"]

Legalize(path) ==
  LET n == At(term, path)
      Becomes(new) == term' = Replace(term, path, new) /\ UNCHANGED status
  IN  /\ status = "legalize" /\ Cardinality(Paths(term)) <= MaxNodes
      /\ \/ /\ OperationAction(n) = "Custom"
            /\ IF n.op \in DOMAIN LowerOperation
               THEN Becomes([n EXCEPT !.op = LowerOperation[@]])
               ELSE status' = "unimplemented" /\ UNCHANGED term
         \/ OperationAction(n) = "Expand" /\ Becomes(Expand(n))
         \/ OperationAction(n) = "Promote" /\ Becomes(Promote(n))
      /\ UNCHANGED source

-----------------------------------------------------------------------------
(***************************************************************************)
(* Selection.                                                              *)
(***************************************************************************)
ALU == [add |-> "ADD", sub |-> "SUB", or |-> "OR", and |-> "AND", shl |-> "SLL", srl |-> "SRL",
        xor |-> "XOR", sra |-> "SRA", mul |-> "MUL", udiv |-> "DIV"]

LoadOf  == [i8 |-> "LDB", i16 |-> "LDH", i32 |-> "LDW", i64 |-> "LDD"]
StoreOf == [i8 |-> "STB", i16 |-> "STH", i32 |-> "STW", i64 |-> "STD"]

\* Mutant: signed division has the pattern of unsigned division.
HasPattern_SDiv(n) == n.op \notin {"cttz", "ctlz", "brind", "jump_table", "vastart", "atomic_swap"}

HasPattern(n) ==
  \/ n.op \in DOMAIN ALU \cup {"reg", "const", "frameindex"}
  \/ n.op \in {"load", "extload", "zextload"} /\ n.p \in DOMAIN LoadOf
  \/ n.op \in {"store", "truncstore"} /\ n.p \in DOMAIN StoreOf
  \/ n.op \in {LowerOperation[o] : o \in DOMAIN LowerOperation}

\* An immediate operand is cut to its field.
Imm(n) == Node("imm", n % ImmMod, << >>)

Fits(n) == n.op = "const" /\ immSExt32(Signed(n.p))

\* Mutant: the second shift keeps the sign.
ZeroHigh_SRA(x) == Binary("SRA", Binary("SLL", x, Imm(Bits.i32)), Imm(Bits.i32))

\* 0xffffFFFF does not fit a signed immediate: two shifts do the same.
ZeroHigh(x) == Binary("SRL", Binary("SLL", x, Imm(Bits.i32)), Imm(Bits.i32))

RECURSIVE SelectCode(_)
SelectCode(n) ==
  LET args == [i \in DOMAIN n.a |-> SelectCode(n.a[i])]
  IN  CASE n.op = "and" /\ n.a[2] = Const(ImmMod - 1) -> ZeroHigh(args[1])
        [] n.op \in DOMAIN ALU /\ ~(n.op = "and" /\ n.a[2] = Const(ImmMod - 1)) ->
             Binary(ALU[n.op], args[1], IF Fits(n.a[2]) THEN Imm(n.a[2].p) ELSE args[2])
        [] n.op \in {"load", "extload", "zextload"} -> Node(LoadOf[n.p], n.p, << >>)
        [] n.op \in {"store", "truncstore"} -> Node(StoreOf[n.p], n.p, args)
        [] n.op = "const" -> IF Fits(n) THEN Node("MOV_ri", "i64", <<Imm(n.p)>>)
                             ELSE Node("LD_imm64", "i64", <<n>>)
        [] n.op = "frameindex" -> Node("MOV_rr", "i64", <<n>>)
        [] n.op = "BPFISD::Wrapper" -> Node("LD_imm64", "i64", <<[n EXCEPT !.op = "global"]>>)
        [] OTHER -> [n EXCEPT !.a = args]

Select ==
  /\ status = "legalize" /\ \A q \in Paths(term) : OperationAction(At(term, q)) = "Legal"
  /\ IF \A q \in Paths(term) : HasPattern(At(term, q))
     THEN term' = SelectCode(term) /\ status' = "selected"
     ELSE status' = "cannot select" /\ UNCHANGED term
  /\ UNCHANGED source

Next == (\E path \in Paths(term) : Legalize(path)) \/ Select

\* The legalizer works until nothing is left to do.
Spec == Init /\ [][Next]_vars /\ WF_vars(Next)

-----------------------------------------------------------------------------
(***************************************************************************)
(* The value of a term in an environment e of registers, addresses and one *)
(* word of memory: its lower "known" bits are v, the others anything.  The *)
(* value of a store is the word it leaves in memory.                       *)
(***************************************************************************)
All(v)     == [v |-> v % WordMod, known |-> Bits.i64]
Low(v, b)  == [v |-> v, known |-> b]
Undefined  == Low(0, 0)
SExt(v, b) == LET u == v % 2 ^ b IN IF 2 * u < 2 ^ b THEN u ELSE u - 2 ^ b

\* The ALU, by instruction: the machine's view.
Machine == [ADD |-> "add", SUB |-> "sub", OR |-> "or", AND |-> "and", SLL |-> "shl", SRL |-> "srl",
            XOR |-> "xor", SRA |-> "sra", MUL |-> "mul", DIV |-> "udiv"]

Compute(op, x, y) ==
  CASE op = "add" -> All(x + y)
    [] op = "sub" -> All(x - y)
    [] op = "mul" -> All(x * (y % ImmMod) + ((x * (y \div ImmMod)) % ImmMod) * ImmMod)
    [] op = "and" -> All(x & y)
    [] op = "or"  -> All(x | y)
    [] op = "xor" -> All(x ^^ y)
    [] op \in {"udiv", "urem"} ->
         IF y = 0 THEN Undefined ELSE All(IF op = "udiv" THEN x \div y ELSE x % y)
    [] op \in {"shl", "srl", "sra"} ->
         IF y >= Bits.i64 THEN Undefined
         ELSE All(CASE op = "shl" -> (x % 2 ^ (Bits.i64 - y)) * 2 ^ y
                    [] op = "srl" -> x \div 2 ^ y
                    [] op = "sra" -> Signed(x) \div 2 ^ y)

RECURSIVE Eval(_, _)
Eval(t, e) ==
  LET v(i) == Eval(t.a[i], e).v
      Bool(b) == IF b THEN 1 ELSE 0
      OnBit(val) == IF Eval(t.a[1], e).known = 0 THEN Undefined ELSE All(val)
      Stored(b, x) == All((e.mem - (e.mem % 2 ^ b)) + (x % 2 ^ b))
  IN  CASE t.op \in {"reg", "global", "frameindex"} -> All(e[t.p])
        [] t.op = "const" -> All(t.p)
        [] t.op = "imm" -> All(SExt(t.p, Bits.i32))
        [] t.op \in {"MOV_ri", "MOV_rr", "LD_imm64"} -> All(v(1))
        [] t.op \in {"zextload", "sextload"} /\ t.p = "i1" /\ e.mem % 2 ^ Bits.i8 > 1 -> Undefined   \* no i1 is stored there
        [] t.op \in {"load", "zextload"} \cup {LoadOf[s] : s \in DOMAIN LoadOf} ->
             All(e.mem % 2 ^ Bits[t.p])
        [] t.op = "truncstore" /\ t.p = "i1" -> Stored(Bits.i8, v(1) % 2)
        [] \/ t.op \in {"store"} \cup {StoreOf[s] : s \in DOMAIN StoreOf}
           \/ t.op = "truncstore" /\ t.p # "i1" -> Stored(Bits[t.p], v(1))
        [] t.op = "extload" -> Low(e.mem % 2 ^ Bits[t.p], Bits[t.p])
        [] t.op = "sextload" -> All(SExt(e.mem, Bits[t.p]))
        [] t.op = "sext_inreg" -> All(SExt(v(1), Bits[t.p]))
        [] t.op \in DOMAIN ALU \cup {"urem"} -> Compute(t.op, v(1), v(2))
        [] t.op \in DOMAIN Machine -> Compute(Machine[t.op], v(1), v(2))
        [] t.op \in {"br_cc", "BPFISD::BR_CC"} -> All(Bool(Holds(t.p, v(1), v(2))))
        [] t.op \in {"select_cc", "BPFISD::SELECT_CC"} -> All(IF Holds(t.p, v(1), v(2)) THEN v(3) ELSE v(4))
        [] t.op = "setcc" -> Low(Bool(Holds(t.p, v(1), v(2))), 1)
        [] t.op = "brcond" -> OnBit(v(1) % 2)
        [] t.op = "select" -> OnBit(IF v(1) % 2 = 1 THEN v(2) ELSE v(3))

Environments == [{"x", "y", "mem"} -> Samples]

-----------------------------------------------------------------------------
(***************************************************************************)
(* Properties.                                                             *)
(***************************************************************************)

\* What is left when instructions have been selected.
Instructions ==
  {ALU[o] : o \in DOMAIN ALU} \cup {LoadOf[s] : s \in DOMAIN LoadOf}
    \cup {StoreOf[s] : s \in DOMAIN StoreOf} \cup {"MOV_ri", "MOV_rr", "LD_imm64", "BPFISD::BR_CC", "BPFISD::SELECT_CC"}
    \cup {"reg", "imm", "const", "global", "frameindex"}

\* Type invariant; a selected term is one of instructions.
TypeOK ==
  /\ source \in Sources
  /\ status \in {"legalize", "selected", "unimplemented", "cannot select"}
  /\ \A q \in Paths(term) : DOMAIN At(term, q) = {"op", "p", "a"}
  /\ status = "selected" => \A q \in Paths(term) : At(term, q).op \in Instructions

\* The instructions selected compute what the IR asks for: through expansion,
\* promotion, the choice between immediates and registers, and the shifts that
\* replace a mask.
MeaningKept ==
  status = "selected" =>
    \A e \in Environments :
      LET old == Eval(source, e)
          new == Eval(term, e)
      IN  old.known <= new.known /\ (old.v - new.v) % 2 ^ old.known = 0

\* What the target has no instructions for, in any form.
Unsupported == {"dynamic_stackalloc", "cttz", "ctlz", "br_jt", "sdiv", "srem", "vastart", "atomic_swap"}

\* Everything else is compiled, whatever the order of the rewriting.
AcceptsExactly ==
  LET ok == \A q \in Paths(source) : At(source, q).op \notin Unsupported
  IN  /\ status = "selected" => ok
      /\ status \in {"unimplemented", "cannot select"} => ~ok

\* No expansion leads back to itself.
Terminates == <>(status # "legalize")
===============================================================================
