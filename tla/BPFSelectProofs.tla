--------------------------- MODULE BPFSelectProofs ---------------------------
(***************************************************************************)
(* Lowering keeps comparisons, the expansion of selects keeps the CFG, and *)
(* the code that results computes what the source does: for every register *)
(* width, every source block and every number of selects in it.            *)
(***************************************************************************)
EXTENDS BPFSelect, SequenceLemmas, TLAPS

\* The tables as records with known domains.
LEMMA Tables ==
  /\ DOMAIN Swapped = {"SETULT", "SETULE", "SETLT", "SETLE"}
  /\ DOMAIN JumpOf = {"SETEQ", "SETNE", "SETGT", "SETGE", "SETUGT", "SETUGE"}
  BY DEF Swapped, JumpOf

\* A comparison that NegateCC leaves alone becomes a jump that is taken when
\* it holds.
LEMMA DirectJump ==
  ASSUME NEW cc \in DOMAIN JumpOf, NEW x \in Values, NEW y \in Values
  PROVE  Taken(JumpOf[cc], x, y) = Holds(cc, x, y)
  BY Tables, RegisterWidthAssumption, SMTT(30) DEF Taken, Holds, JumpOf

\* One that it replaces holds when the replacement does with operands swapped.
LEMMA SwappedCondition ==
  ASSUME NEW cc \in DOMAIN Swapped, NEW x \in Values, NEW y \in Values
  PROVE  Swapped[cc] \in DOMAIN JumpOf /\ Holds(Swapped[cc], y, x) = Holds(cc, x, y)
  <1> Signed(x) \in Int /\ Signed(y) \in Int /\ x \in Int /\ y \in Int
    BY RegisterWidthAssumption DEF Signed, Values
  <1>1. CASE cc = "SETULT" BY <1>1, Tables DEF Swapped, Holds
  <1>2. CASE cc = "SETULE" BY <1>2, Tables DEF Swapped, Holds
  <1>3. CASE cc = "SETLT" BY <1>3, Tables DEF Swapped, Holds
  <1>4. CASE cc = "SETLE" BY <1>4, Tables DEF Swapped, Holds
  <1> QED BY <1>1, <1>2, <1>3, <1>4, Tables

\* NegateCC turns any comparison into one that compares the same operands and
\* has a jump, taken for the same values.
Nodes == SelectNode \cup BranchNode

LEMMA NodeShape ==
  ASSUME NEW s \in Nodes
  PROVE  /\ s.cc \in Conds
         /\ s.cc \in DOMAIN Swapped =>
              /\ NegateCC(s).cc = Swapped[s.cc]
              /\ NegateCC(s).lhs = s.rhs
              /\ NegateCC(s).rhs = s.lhs
  <1>1. CASE s \in SelectNode
    BY <1>1 DEF SelectNode, NegateCC
  <1>2. CASE s \in BranchNode
    BY <1>2 DEF BranchNode, NegateCC
  <1> QED BY <1>1, <1>2 DEF Nodes

LEMMA LoweringCompares ==
  ASSUME NEW s \in Nodes
  PROVE  ComparesAs(NegateCC(s), s)
  <1> DEFINE d == NegateCC(s)
  <1>1. CASE s.cc \in DOMAIN Swapped
    <2>1. d.cc = Swapped[s.cc] /\ d.lhs = s.rhs /\ d.rhs = s.lhs
      BY <1>1, NodeShape
    <2>2. d.cc \in DOMAIN JumpOf
      BY <2>1, <1>1, Tables DEF Swapped
    <2>3. ASSUME NEW v \in [{s.lhs, s.rhs} -> Values]
          PROVE  Taken(JumpOf[d.cc], v[d.lhs], v[d.rhs]) = Holds(s.cc, v[s.lhs], v[s.rhs])
      <3>1. v[s.lhs] \in Values /\ v[s.rhs] \in Values
        OBVIOUS
      <3>2. Taken(JumpOf[d.cc], v[s.rhs], v[s.lhs]) = Holds(d.cc, v[s.rhs], v[s.lhs])
        BY <2>2, <3>1, DirectJump
      <3>3. Holds(Swapped[s.cc], v[s.rhs], v[s.lhs]) = Holds(s.cc, v[s.lhs], v[s.rhs])
        BY <1>1, <3>1, SwappedCondition
      <3> QED BY <2>1, <3>2, <3>3
    <2> HIDE DEF d
    <2>4. {d.lhs, d.rhs} = {s.lhs, s.rhs}
      BY <2>1
    <2> QED BY <2>2, <2>3, <2>4 DEF ComparesAs, d
  <1>2. CASE s.cc \notin DOMAIN Swapped
    <2>1. d = s
      BY <1>2 DEF NegateCC
    <2>2. s.cc \in DOMAIN JumpOf
      BY <1>2, NodeShape, Tables DEF Conds
    <2>3. ASSUME NEW v \in [{s.lhs, s.rhs} -> Values]
          PROVE  Taken(JumpOf[s.cc], v[s.lhs], v[s.rhs]) = Holds(s.cc, v[s.lhs], v[s.rhs])
      BY <2>2, DirectJump
    <2> HIDE DEF d
    <2> QED BY <2>1, <2>2, <2>3 DEF ComparesAs, d
  <1> QED BY <1>1, <1>2

-----------------------------------------------------------------------------
\* The inductive invariant: the nodes not lowered yet are the source's.
Nodewise ==
  /\ prog \in Programs
  /\ lowered \in Nat /\ lowered <= Len(prog.selects) + 1
  /\ dag \in Seq(Nodes \cup {NegateCC(s) : s \in Nodes})
  /\ Len(dag) = Len(prog.selects) + 1
  /\ \A n \in 1 .. lowered : dag[n] = NegateCC(Source(n))
  /\ \A n \in lowered + 1 .. Len(dag) : dag[n] = Source(n)

LEMMA SourceNodes ==
  ASSUME NEW q \in Programs
  PROVE  /\ Append(q.selects, q.br) \in Seq(Nodes)
         /\ Len(Append(q.selects, q.br)) = Len(q.selects) + 1
         /\ Len(q.selects) \in Nat
  <1>1. q.selects \in Seq(SelectNode) /\ q.br \in BranchNode
    BY ProgramsAssumption DEF Program
  <1>2. q.selects \in Seq(Nodes) /\ q.br \in Nodes
    BY <1>1 DEF Nodes
  <1> QED BY <1>2

LEMMA NodewiseInit == Init => Nodewise
  <1> SUFFICES ASSUME Init PROVE Nodewise
    OBVIOUS
  <1>1. prog \in Programs /\ dag = Append(prog.selects, prog.br) /\ lowered = 0
    BY DEF Init
  <1>2. dag \in Seq(Nodes) /\ Len(dag) = Len(prog.selects) + 1 /\ Len(prog.selects) \in Nat
    BY <1>1, SourceNodes
  <1>3. dag \in Seq(Nodes \cup {NegateCC(s) : s \in Nodes})
    BY <1>2
  <1> QED BY <1>1, <1>2, <1>3 DEF Nodewise, Source

LEMMA NodewiseStep == Nodewise /\ [Next]_vars => Nodewise'
  <1> SUFFICES ASSUME Nodewise, [Next]_vars PROVE Nodewise'
    OBVIOUS
  <1>1. CASE LowerNext /\ lowered + 1 <= Len(dag)
    <2> DEFINE k == lowered + 1
    <2>1. k \in 1 .. Len(dag)
      BY <1>1 DEF Nodewise
    <2>2. /\ dag' = [dag EXCEPT ![k] = NegateCC(dag[k])]
          /\ lowered' = k /\ prog' = prog
      BY <1>1 DEF LowerNext
    <2>3. dag[k] = Source(k)
      BY <2>1 DEF Nodewise
    <2>4. Source(k) \in Nodes
      BY <2>1, SourceNodes DEF Nodewise, Source
    <2>5. /\ dag' \in Seq(Nodes \cup {NegateCC(s) : s \in Nodes})
          /\ Len(dag') = Len(dag)
          /\ \A n \in 1 .. Len(dag) : dag'[n] = IF n = k THEN NegateCC(Source(k)) ELSE dag[n]
      BY <2>1, <2>2, <2>3, <2>4 DEF Nodewise
    <2>6. \A n : Source(n)' = Source(n)
      BY <2>2 DEF Source
    <2>7. \A n \in 1 .. lowered' : dag'[n] = NegateCC(Source(n)')
      BY <2>1, <2>2, <2>5, <2>6 DEF Nodewise
    <2>8. \A n \in lowered' + 1 .. Len(dag') : dag'[n] = Source(n)'
      BY <2>1, <2>2, <2>5, <2>6 DEF Nodewise
    <2> QED BY <2>1, <2>2, <2>5, <2>7, <2>8 DEF Nodewise
  <1>2. CASE UNCHANGED <<prog, dag, lowered>>
    BY <1>2 DEF Nodewise, Source
  <1>3. UNCHANGED <<prog, dag, lowered>> \/ (LowerNext /\ lowered + 1 <= Len(dag))
    <2>1. Len(dag) \in Nat /\ lowered \in Nat
      BY DEF Nodewise
    <2>2. CASE LowerSELECT_CC \/ LowerBR_CC
      BY <2>1, <2>2 DEF LowerSELECT_CC, LowerBR_CC
    <2>3. CASE SelectBlock
      BY <2>3 DEF SelectBlock
    <2>4. CASE EmitInstrWithCustomInserter
      BY <2>4 DEF EmitInstrWithCustomInserter
    <2>5. CASE ExpansionDone
      BY <2>5 DEF ExpansionDone, compiled
    <2>6. CASE Run
      BY <2>6 DEF Run, RunPhi, RunLoad, RunBranch, RunJump, FallThrough, compiled
    <2>7. CASE UNCHANGED vars
      BY <2>7 DEF vars
    <2> QED BY <2>2, <2>3, <2>4, <2>5, <2>6, <2>7 DEF Next, Compile
  <1> QED BY <1>1, <1>2, <1>3

LEMMA NodewiseFaithful == Nodewise => LoweredFaithfully
  <1> SUFFICES ASSUME Nodewise, NEW n \in 1 .. lowered
               PROVE  ComparesAs(dag[n], Source(n))
    BY DEF LoweredFaithfully
  <1>1. Source(n) \in Nodes
    BY SourceNodes DEF Nodewise, Source
  <1>2. dag[n] = NegateCC(Source(n))
    BY DEF Nodewise
  <1> QED BY <1>1, <1>2, LoweringCompares

\* Every lowered comparison, of a select or of the branch, has a jump that is
\* taken for exactly the values for which the source comparison holds: the
\* work of NegateCC, the BPF_CC_ patterns and the switch of the inserter.
THEOREM ComparisonsKept == Spec => []LoweredFaithfully
  <1>1. Spec => []Nodewise
    BY NodewiseInit, NodewiseStep, PTL DEF Spec
  <1> QED BY <1>1, NodewiseFaithful, PTL

-----------------------------------------------------------------------------
(***************************************************************************)
(* Machine instructions.                                                   *)
(***************************************************************************)
JumpOps   == {"JEQ", "JNE", "JSGT", "JSGE", "JUGT", "JUGE"}
Phis      == [op : {"PHI"}, dst : Regs, in : UNION {[Q -> Regs] : Q \in SUBSET Nat}]
Loads     == [op : {"LD_imm64"}, dst : Regs, imm : Int]
SelectMIs == [op : {"Select"}, cc : Conds, lhs : Operand, rhs : Operand,
              dst : Regs, t : Regs, f : Regs]
Jumps     == [op : JumpOps, lhs : Operand, rhs : Operand, to : Nat]
JMPs      == [op : {"JMP"}, to : Nat]
Straight  == Loads \cup SelectMIs
Insns     == Phis \cup Straight \cup Jumps \cup JMPs

LEMMA InsnKinds ==
  ASSUME NEW i \in Insns
  PROVE  /\ i.op = "PHI" <=> i \in Phis
         /\ i.op = "LD_imm64" <=> i \in Loads
         /\ i.op = "Select" <=> i \in SelectMIs
         /\ i.op = "JMP" <=> i \in JMPs
         /\ IsCompare(i) <=> i \in Jumps
         /\ i.op = "JMP" \/ IsCompare(i) => i.to \in Nat
<1>1. CASE i \in Phis
  BY <1>1 DEF Phis, Loads, SelectMIs, Jumps, JMPs, JumpOps, IsCompare
<1>2. CASE i \in Loads
  BY <1>2 DEF Phis, Loads, SelectMIs, Jumps, JMPs, JumpOps, IsCompare
<1>3. CASE i \in SelectMIs
  BY <1>3 DEF Phis, Loads, SelectMIs, Jumps, JMPs, JumpOps, IsCompare
<1>4. CASE i \in Jumps
  BY <1>4 DEF Phis, Loads, SelectMIs, Jumps, JMPs, JumpOps, IsCompare
<1>5. CASE i \in JMPs
  BY <1>5 DEF Phis, Loads, SelectMIs, Jumps, JMPs, JumpOps, IsCompare
<1> QED
  BY <1>1, <1>2, <1>3, <1>4, <1>5 DEF Insns, Straight

LEMMA JumpShape ==
  ASSUME NEW n, n.cc \in DOMAIN JumpOf, n.lhs \in Operand, n.rhs \in Operand, NEW to \in Nat
  PROVE  Jump(n, to) \in Jumps /\ Jump(n, to).to = to
<1>1. JumpOf[n.cc] \in JumpOps
  BY Tables DEF JumpOf, JumpOps
<1> QED
  BY <1>1 DEF Jump, Jumps

\* What an instruction of lowered nodes is made of.
LEMMA LoweredNode ==
  ASSUME Nodewise, lowered = Len(dag), NEW n \in 1 .. Len(dag)
  PROVE  /\ dag[n].cc \in Conds /\ dag[n].lhs \in Operand /\ dag[n].rhs \in Operand
         /\ n < Len(dag) => dag[n].dst \in Regs /\ dag[n].t \in Regs /\ dag[n].f \in Regs
         /\ n = Len(dag) => dag[n] \in [cc : Conds, lhs : Operand, rhs : Operand]
         /\ Temps[n] \in Regs
<1>1. dag[n] = NegateCC(Source(n))
  BY DEF Nodewise
<1>2. /\ prog.selects \in Seq(SelectNode) /\ prog.br \in BranchNode
      /\ Len(prog.selects) < Len(Temps) /\ Temps \in Seq(Regs)
  BY ProgramsAssumption DEF Nodewise, Program
<1>3. Len(dag) = Len(prog.selects) + 1 /\ Len(prog.selects) \in Nat
  BY <1>2 DEF Nodewise
<1>4. IF n < Len(dag) THEN Source(n) \in SelectNode ELSE Source(n) \in BranchNode
  BY <1>2, <1>3 DEF Source
<1>5. \A cc \in DOMAIN Swapped : Swapped[cc] \in Conds
  BY Tables DEF Swapped, Conds
<1>6. CASE n < Len(dag)
  <2>1. PICK s \in SelectNode : s = Source(n)
    BY <1>4, <1>6
  <2>2. NegateCC(s) \in [cc : Conds, lhs : Operand, rhs : Operand, dst : Regs, t : Regs, f : Regs]
    <3>1. s \in [cc : Conds, lhs : Operand, rhs : Operand, dst : Regs, t : Regs, f : Regs]
      BY DEF SelectNode
    <3> QED
      BY <1>5, <3>1 DEF NegateCC
  <2>3. dag[n] \in [cc : Conds, lhs : Operand, rhs : Operand, dst : Regs, t : Regs, f : Regs]
    BY <1>1, <2>1, <2>2
  <2>4. Temps[n] \in Regs /\ n # Len(dag)
    BY <1>2, <1>3, <1>6
  <2> HIDE DEF Nodewise
  <2> QED
    BY <1>6, <2>3, <2>4
<1>7. CASE ~(n < Len(dag))
  <2>1. PICK s \in BranchNode : s = Source(n)
    BY <1>4, <1>7
  <2>2. NegateCC(s) \in [cc : Conds, lhs : Operand, rhs : Operand]
    <3>1. s \in [cc : Conds, lhs : Operand, rhs : Operand]
      BY DEF BranchNode
    <3> QED
      BY <1>5, <3>1 DEF NegateCC
  <2>3. dag[n] \in [cc : Conds, lhs : Operand, rhs : Operand]
    BY <1>1, <2>1, <2>2
  <2>4. Temps[n] \in Regs
    BY <1>2, <1>3
  <2> HIDE DEF Nodewise
  <2> QED
    BY <1>7, <2>3, <2>4
<1> QED
  BY <1>6, <1>7

LEMMA OperandShape ==
  ASSUME NEW o \in Operand, NEW n, Temps[n] \in Regs
  PROVE  InReg(o, n) \in Operand /\ LoadOf(o, n) \in Seq(Loads)
<1>1. InReg(o, n) \in Operand
  BY ProgramsAssumption DEF InReg, Operand
<1>2. o.imm \in Int
  BY DEF Operand
<1>3. [op |-> "LD_imm64", dst |-> Temps[n], imm |-> o.imm] \in Loads
  BY <1>2 DEF Loads
<1>4. LoadOf(o, n) \in Seq(Loads)
  BY <1>3 DEF LoadOf
<1> QED
  BY <1>1, <1>4

\* The selects become loads and pseudos,
LEMMA SelectsShape ==
  ASSUME Nodewise, lowered = Len(dag)
  PROVE  FlattenSeq([n \in 1 .. Len(dag) - 1 |-> SelectedSelect(n)]) \in Seq(Straight)
<1>1. Len(dag) \in Nat \ {0}
  BY SourceNodes DEF Nodewise
<1>2. ASSUME NEW n \in 1 .. Len(dag) - 1
      PROVE  SelectedSelect(n) \in Seq(Straight)
  <2> DEFINE mi == [op |-> "Select", cc |-> dag[n].cc, lhs |-> InReg(dag[n].lhs, n),
                    rhs |-> InReg(dag[n].rhs, n),
                    dst |-> dag[n].dst, t |-> dag[n].t, f |-> dag[n].f]
  <2>1. n \in 1 .. Len(dag) /\ n < Len(dag)
    BY <1>1
  <2>2. mi \in Straight
    BY <2>1, LoweredNode, OperandShape DEF Straight, SelectMIs
  <2>3. LoadOf(dag[n].lhs, n) \in Seq(Loads) /\ LoadOf(dag[n].rhs, n) \in Seq(Loads)
    BY <2>1, LoweredNode, OperandShape
  <2>4. LoadOf(dag[n].lhs, n) \in Seq(Straight) /\ LoadOf(dag[n].rhs, n) \in Seq(Straight)
    BY <2>3 DEF Straight
  <2>5. SelectedSelect(n) = LoadOf(dag[n].lhs, n) \o LoadOf(dag[n].rhs, n) \o <<mi>>
    BY DEF SelectedSelect
  <2> HIDE DEF mi
  <2> QED
    BY <2>2, <2>4, <2>5
<1>3. [n \in 1 .. Len(dag) - 1 |-> SelectedSelect(n)] \in Seq(Seq(Straight))
  BY <1>1, <1>2, IsASeq
<1> QED
  BY <1>3, FlattenSeqType

\* and the branch a jump, after loads.
LEMMA BranchShape ==
  ASSUME Nodewise, lowered = Len(dag), dag[Len(dag)].cc \in DOMAIN JumpOf, NEW to \in Nat
  PROVE  \E s \in Seq(Straight), j \in Jumps : SelectedBranch(to) = s \o <<j>> /\ j.to = to
<1> DEFINE n  == Len(dag)
           br == dag[n]
           rr == [br EXCEPT !.lhs = InReg(@, n), !.rhs = InReg(@, n)]
<1>1. n \in 1 .. Len(dag)
  BY SourceNodes DEF Nodewise
<1>2. br.lhs \in Operand /\ br.rhs \in Operand /\ Temps[n] \in Regs
  BY <1>1, LoweredNode
<1>3. Jump(br, to) \in Jumps /\ Jump(br, to).to = to
  BY <1>2, JumpShape
<1>4. InReg(br.lhs, n) \in Operand /\ InReg(br.rhs, n) \in Operand
      /\ LoadOf(br.lhs, n) \in Seq(Loads) /\ LoadOf(br.rhs, n) \in Seq(Loads)
  BY <1>2, OperandShape
<1>5. Jump(rr, to) \in Jumps /\ Jump(rr, to).to = to
  <2>1. br \in [cc : Conds, lhs : Operand, rhs : Operand]
    BY <1>1, LoweredNode
  <2>2. rr.cc = br.cc /\ rr.lhs = InReg(br.lhs, n) /\ rr.rhs = InReg(br.rhs, n)
    BY <2>1
  <2> QED
    BY <1>4, <2>2, JumpShape
<1>6. CASE IsConst(br.rhs) /\ immSExt32(br.rhs.imm)
  <2> DEFINE j == Jump(br, to)
             s == << >>
  <2>1. SelectedBranch(to) = <<j>>
    BY <1>6 DEF SelectedBranch
  <2> HIDE DEF j
  <2>2. s \in Seq(Straight) /\ s \o <<j>> = <<j>>
    OBVIOUS
  <2>3. j \in Jumps /\ j.to = to
    BY <1>3 DEF j
  <2> HIDE DEF s
  <2> QED
    BY <2>1, <2>2, <2>3
<1>7. CASE ~(IsConst(br.rhs) /\ immSExt32(br.rhs.imm))
  <2> DEFINE s == LoadOf(br.lhs, n) \o LoadOf(br.rhs, n)
  <2>1. SelectedBranch(to) = s \o <<Jump(rr, to)>>
    BY <1>7 DEF SelectedBranch
  <2>2. s \in Seq(Straight)
    BY <1>4 DEF Straight
  <2> HIDE DEF s, rr
  <2> QED
    BY <1>5, <2>1, <2>2
<1> QED
  BY <1>6, <1>7

-----------------------------------------------------------------------------
(***************************************************************************)
(* Sequences of blocks and of instructions.                                *)
(***************************************************************************)
OnceEach(s) == \A m, n \in 1 .. Len(s) : s[m] = s[n] => m = n

\* The block that follows is the next one.
LEMMA FollowerAt ==
  ASSUME NEW s \in Seq(Nat), OnceEach(s), NEW q \in 1 .. Len(s)
  PROVE  Follower(s, s[q]) = IF q < Len(s) THEN {s[q + 1]} ELSE {}
<1>1. \A m \in 1 .. Len(s) - 1 : s[m] = s[q] <=> m = q
  BY DEF OnceEach
<1>2. {m \in 1 .. Len(s) - 1 : s[m] = s[q]} = IF q < Len(s) THEN {q} ELSE {}
  BY <1>1
<1> QED
  BY <1>2 DEF Follower

\* A block goes to where its jumps go, and from its end to the next.
Targets(s) == {s[n].to : n \in {m \in DOMAIN s : IsCompare(s[m]) \/ s[m].op = "JMP"}}

-----------------------------------------------------------------------------
(***************************************************************************)
(* The inductive invariant of compilation and execution: nothing but the   *)
(* first instruction of a block is a PHI, and no branch comes before a     *)
(* Select, so that what moves to copy1MBB takes all the exits of the block *)
(* with it and no PHI; the layout has every block once, so that a fall     *)
(* through has one destination; a PHI has an entry for each predecessor    *)
(* and no other; and execution is where an edge leads.                     *)
(***************************************************************************)
BlocksOK ==
  /\ code \in Seq(Seq(Insns)) /\ Len(code) >= 4
  /\ order \in Seq(Nat) /\ Len(order) = Len(code) /\ OnceEach(order)
  /\ {order[n] : n \in 1 .. Len(order)} = 1 .. Len(code)
  /\ edges \in Seq(SUBSET Nat) /\ Len(edges) = Len(code)
  /\ \A b \in 1 .. Len(code) : edges[b] \subseteq 2 .. Len(code)
  /\ edges[Pre] = {Body}
  /\ mbb \in 1 .. Len(code) /\ mbb \notin {Pre, Nxt, Far}
  /\ Len(code[Body]) > 0
  /\ \A b \in {Body, Nxt, Far} : Len(code[b]) > 0 => code[b][1] \in Phis

BlockShape(s) ==
  /\ \A n \in 1 .. Len(s) : s[n].op = "PHI" => n = 1
  /\ \A m, n \in 1 .. Len(s) : m < n /\ s[n].op = "Select" => s[m].op # "JMP" /\ ~IsCompare(s[m])

ShapesOK == \A b \in 1 .. Len(code) : BlockShape(code[b])

PhisOK ==
  \A b \in 1 .. Len(code) : \A n \in 1 .. Len(code[b]) :
    code[b][n].op = "PHI" => DOMAIN code[b][n].in = Predecessors(b)

ExitsOK ==
  stage \in {"expand", "run"} => \A b \in (1 .. Len(code)) \ {Nxt, Far} : CodeExits(b) = edges[b]

Entry == [blk |-> Body, idx |-> 1, prev |-> Pre]

RunOK ==
  /\ start \in [Regs -> Values] /\ env \in [Regs -> Values]
  /\ pc \in [blk : 1 .. Len(code), idx : Nat, prev : 1 .. Len(code)]
  /\ pc.idx \in 1 .. Len(code[pc.blk]) + 1
  /\ stage \notin {"run", "halt"} => pc = Entry
  /\ stage = "run" => pc.blk \in edges[pc.prev] /\ pc.blk \notin {Pre, Nxt, Far}
  /\ stage = "run" /\ IsBarrier(code[pc.blk]) => pc.idx <= Len(code[pc.blk])

InitialEdges(p) ==
  [b \in 1 .. 4 |-> CASE b = Pre -> {Body} [] b = Body -> {Nxt, p.target} [] OTHER -> {}]

AtStart ==
  stage = "lower" => /\ code = [b \in 1 .. 4 |-> PhiOf(b, prog)]
                     /\ order = prog.layout /\ edges = InitialEdges(prog) /\ mbb = Body

CFGInv ==
  /\ Nodewise /\ stage \in {"lower", "expand", "run", "halt", "fatal"}
  /\ BlocksOK /\ ShapesOK /\ PhisOK /\ ExitsOK /\ RunOK /\ AtStart

LEMMA CFGInvGives == CFGInv => TypeOK /\ CFGConsistent
<1> SUFFICES ASSUME CFGInv PROVE TypeOK /\ CFGConsistent
  OBVIOUS
<1>1. /\ DOMAIN code = 1 .. Len(code) /\ DOMAIN edges = 1 .. Len(code) /\ Len(code) \in Nat
      /\ DOMAIN order = 1 .. Len(order)
      /\ \A b \in 1 .. Len(code) : DOMAIN code[b] = 1 .. Len(code[b])
  BY DEF CFGInv, BlocksOK
<1>2. \A n \in DOMAIN dag : dag[n].cc \in Conds
  <2>1. \A s \in Nodes : NegateCC(s).cc \in Conds
    <3> SUFFICES ASSUME NEW s \in Nodes PROVE NegateCC(s).cc \in Conds
      OBVIOUS
    <3>1. CASE s.cc \in DOMAIN Swapped
      BY <3>1, NodeShape, Tables DEF Swapped, Conds
    <3>2. CASE s.cc \notin DOMAIN Swapped
      BY <3>2, NodeShape DEF NegateCC
    <3> QED
      BY <3>1, <3>2
  <2>2. \A d \in Nodes \cup {NegateCC(s) : s \in Nodes} : d.cc \in Conds
    BY <2>1, NodeShape
  <2>3. \A n \in DOMAIN dag : dag[n] \in Nodes \cup {NegateCC(s) : s \in Nodes}
    BY DEF CFGInv, Nodewise
  <2> QED
    BY <2>2, <2>3
<1>3. prog \in Programs /\ lowered \in 0 .. Len(dag)
  BY SourceNodes DEF CFGInv, Nodewise
<1>4. TypeOK
  <2>1. \A b \in DOMAIN code : edges[b] \subseteq DOMAIN code
    <3>1. \A b \in 1 .. Len(code) : edges[b] \subseteq 2 .. Len(code)
      BY Zenon DEF CFGInv, BlocksOK
    <3>2. 2 .. Len(code) \subseteq 1 .. Len(code)
      BY <1>1
    <3> QED
      BY <1>1, <3>1, <3>2, Zenon
  <2>2. /\ start \in [Regs -> Values] /\ env \in [Regs -> Values]
        /\ pc.blk \in DOMAIN code /\ pc.prev \in DOMAIN code /\ pc.idx \in 1 .. Len(code[pc.blk]) + 1
    BY <1>1 DEF CFGInv, RunOK
  <2>3. /\ Len(order) = Len(code) /\ {order[n] : n \in DOMAIN order} = DOMAIN code
        /\ mbb \in DOMAIN code /\ DOMAIN edges = DOMAIN code
    BY <1>1 DEF CFGInv, BlocksOK
  <2>4. stage \in {"lower", "expand", "run", "halt", "fatal"}
    BY DEF CFGInv
  <2> QED
    BY <1>2, <1>3, <2>1, <2>2, <2>3, <2>4 DEF TypeOK
<1>5. CFGConsistent
  BY <1>1 DEF CFGInv, ExitsOK, PhisOK, CFGConsistent
<1> QED
  BY <1>4, <1>5

\* A block is a sequence of instructions, of the shape of a block.
LEMMA BlockAt ==
  ASSUME CFGInv, NEW b \in 1 .. Len(code)
  PROVE  code[b] \in Seq(Insns) /\ BlockShape(code[b])
<1>1. BlocksOK /\ ShapesOK
  BY Zenon DEF CFGInv
<1>2. code \in Seq(Seq(Insns))
  BY <1>1, Zenon DEF BlocksOK
<1>3. BlockShape(code[b])
  BY <1>1, Zenon DEF ShapesOK
<1> QED
  BY <1>2, <1>3, ElementOfSeq

\* The four blocks of a source.
LEMMA InitialBlocks ==
  ASSUME NEW p \in Programs
  PROVE  /\ PhiOf(Pre, p) = << >>
         /\ \A b \in {Body, Nxt, Far} :
              PhiOf(b, p) # << >> =>
                \E i \in Phis : /\ PhiOf(b, p) = <<i>>
                                /\ DOMAIN i.in = {q \in 1 .. 4 : b \in InitialEdges(p)[q]}
         /\ PhiOf(Body, p) # << >>
         /\ \A b \in {Body, Nxt, Far} : PhiOf(b, p) = << >> \/ Len(PhiOf(b, p)) = 1
<1>1. /\ p.in \in Regs /\ p.out \in Regs /\ p.phi \in Regs /\ p.target \in {Body, Far}
  BY ProgramsAssumption DEF Program
<1>2. PhiOf(Pre, p) = << >>
  BY DEF PhiOf, Pre, Body, Nxt, Far
<1>3. \A Q \in SUBSET Nat : \A in \in [Q -> Regs] : Phi(p.phi, in) \in Phis /\ Phi(p.phi, in).in = in
  BY <1>1 DEF Phis, Phi
<1> DEFINE E(b) == {q \in 1 .. 4 : b \in InitialEdges(p)[q]}
<1>4. /\ InitialEdges(p)[1] = {2} /\ InitialEdges(p)[2] = {3, p.target}
      /\ InitialEdges(p)[3] = {} /\ InitialEdges(p)[4] = {}
  BY DEF InitialEdges, Pre, Body, Nxt, Far
<1>5. ASSUME NEW b \in {2, 3, 4}
      PROVE  E(b) = (IF b = 2 THEN {1} ELSE {}) \cup (IF b = 3 THEN {2} ELSE {})
                      \cup (IF b = p.target THEN {2} ELSE {})
  <2>1. \A q \in 1 .. 4 : b \in InitialEdges(p)[q] <=> (q = 1 /\ b = 2) \/ (q = 2 /\ b \in {3, p.target})
    <3> SUFFICES ASSUME NEW q \in 1 .. 4
                 PROVE  b \in InitialEdges(p)[q] <=> (q = 1 /\ b = 2) \/ (q = 2 /\ b \in {3, p.target})
      OBVIOUS
    <3>1. q \in {1, 2, 3, 4}
      OBVIOUS
    <3> QED
      BY <1>4, <3>1
  <2> QED
    BY <2>1
<1> HIDE DEF E
<1>6. \E i \in Phis : PhiOf(2, p) = <<i>> /\ DOMAIN i.in = E(2)
  <2> DEFINE in == [q \in {Pre, Body} |-> IF q = Pre THEN p.in ELSE p.out]
             Q  == {Pre} \cup ({Body} \cap {p.target})
             f  == [q \in Q |-> in[q]]
  <2>1. PhiOf(2, p) = <<Phi(p.phi, f)>>
    BY DEF PhiOf, Pre, Body, Nxt, Far
  <2>2. f \in [Q -> Regs] /\ Q \in SUBSET Nat /\ DOMAIN f = Q
    BY <1>1 DEF Pre, Body
  <2>3. Q = E(2)
    BY <1>1, <1>5 DEF Pre, Body, Far
  <2> HIDE DEF f, Q
  <2> QED
    BY <1>3, <2>1, <2>2, <2>3
<1>7. \E i \in Phis : PhiOf(3, p) = <<i>> /\ DOMAIN i.in = E(3)
  <2> DEFINE f  == [q \in {Body} |-> p.out]
  <2>1. PhiOf(3, p) = <<Phi(p.phi, f)>>
    BY DEF PhiOf, Pre, Body, Nxt, Far
  <2>2. f \in [{2} -> Regs] /\ {2} \in SUBSET Nat /\ DOMAIN f = {2}
    BY <1>1 DEF Body
  <2>3. {2} = E(3)
    BY <1>1, <1>5 DEF Body, Far
  <2> HIDE DEF f
  <2> QED
    BY <1>3, <2>1, <2>2, <2>3
<1>8. IF p.target = Far THEN \E i \in Phis : PhiOf(4, p) = <<i>> /\ DOMAIN i.in = E(4)
                        ELSE PhiOf(4, p) = << >>
  <2>1. ASSUME p.target = Far
        PROVE  \E i \in Phis : PhiOf(4, p) = <<i>> /\ DOMAIN i.in = E(4)
    <3> DEFINE f  == [q \in {Body} |-> p.in]
    <3>1. PhiOf(4, p) = <<Phi(p.phi, f)>>
      BY <2>1 DEF PhiOf, Pre, Body, Nxt, Far
    <3>2. f \in [{2} -> Regs] /\ {2} \in SUBSET Nat /\ DOMAIN f = {2}
      BY <1>1 DEF Body
    <3>3. {2} = E(4)
      BY <1>5, <2>1 DEF Far
    <3> HIDE DEF f
    <3> QED
      BY <1>3, <3>1, <3>2, <3>3
  <2>2. ASSUME p.target # Far PROVE PhiOf(4, p) = << >>
    BY <2>2 DEF PhiOf, Pre, Body, Nxt, Far
  <2> QED
    BY <2>1, <2>2
<1>9. \A i : Len(<<i>>) = 1 /\ <<i>> # << >>
  OBVIOUS
<1> QED
  BY <1>2, <1>6, <1>7, <1>8, <1>9 DEF Body, Nxt, Far, E

LEMMA CFGInit == Init => CFGInv
<1> SUFFICES ASSUME Init PROVE CFGInv
  OBVIOUS
<1>1. /\ prog \in Programs /\ stage = "lower" /\ code = [b \in 1 .. 4 |-> PhiOf(b, prog)]
      /\ order = prog.layout /\ edges = InitialEdges(prog) /\ mbb = Body /\ pc = Entry /\ env = start
  BY DEF Init, InitialEdges, Entry
<1>2. Nodewise
  BY NodewiseInit
<1>3. \A b \in 1 .. 4 : code[b] = PhiOf(b, prog)
  BY <1>1
<1>4. /\ prog.target \in {2, 4} /\ prog.layout \in {<<1, 2, 3, 4>>, <<1, 2, 4, 3>>}
  BY <1>1, ProgramsAssumption DEF Program, Pre, Body, Nxt, Far
<1>5. /\ edges = [b \in 1 .. 4 |-> InitialEdges(prog)[b]]
      /\ edges[1] = {2} /\ edges[2] = {3, prog.target} /\ edges[3] = {} /\ edges[4] = {}
  BY <1>1 DEF InitialEdges, Pre, Body, Nxt, Far
<1>6. \A b \in 1 .. 4 : \/ code[b] = << >>
                        \/ \E i \in Phis : code[b] = <<i>> /\ DOMAIN i.in = {q \in 1 .. 4 : b \in edges[q]}
  <2>1. \A b \in {1, 2, 3, 4} :
          \/ PhiOf(b, prog) = << >>
          \/ \E i \in Phis : PhiOf(b, prog) = <<i>> /\ DOMAIN i.in = {q \in 1 .. 4 : b \in edges[q]}
    BY <1>1, InitialBlocks DEF Pre, Body, Nxt, Far
  <2> QED
    BY <1>3, <2>1
<1>7. ASSUME NEW b \in 1 .. 4
      PROVE  /\ code[b] \in Seq(Insns) /\ BlockShape(code[b])
             /\ \A n \in 1 .. Len(code[b]) :
                  n = 1 /\ code[b][n] \in Phis /\ DOMAIN code[b][n].in = {q \in 1 .. 4 : b \in edges[q]}
  <2>1. CASE code[b] = << >>
    BY <2>1 DEF BlockShape
  <2>2. CASE code[b] # << >>
    <3>1. PICK i \in Phis : code[b] = <<i>> /\ DOMAIN i.in = {q \in 1 .. 4 : b \in edges[q]}
      BY <1>6, <2>2
    <3>2. i \in Insns
      BY DEF Insns
    <3> QED
      BY <3>1, <3>2 DEF BlockShape
  <2> QED
    BY <2>1, <2>2
<1>8. code \in Seq(Seq(Insns)) /\ Len(code) = 4
  <2>1. code = [b \in 1 .. 4 |-> code[b]]
    BY <1>1
  <2> QED
    BY <1>7, <2>1
<1>9. edges \in Seq(SUBSET Nat) /\ Len(edges) = 4 /\ \A b \in 1 .. 4 : edges[b] \subseteq 2 .. 4
  <2>1. \A b \in {1, 2, 3, 4} : edges[b] \subseteq 2 .. 4
    BY <1>4, <1>5
  <2>2. \A b \in 1 .. 4 : edges[b] \subseteq 2 .. 4
    BY <2>1
  <2> QED
    BY <1>5, <2>2
<1>10. /\ order \in Seq(Nat) /\ Len(order) = 4 /\ OnceEach(order)
       /\ {order[n] : n \in 1 .. Len(order)} = 1 .. 4
  <2>1. CASE order = <<1, 2, 3, 4>>
    BY <2>1 DEF OnceEach
  <2>2. CASE order = <<1, 2, 4, 3>>
    BY <2>2 DEF OnceEach
  <2> QED
    BY <1>1, <1>4, <2>1, <2>2
<1>11. BlocksOK
  <2>1. Len(code[Body]) > 0
    <3>1. code[2] # << >>
      BY <1>1, <1>3, InitialBlocks DEF Body
    <3>2. code[2] \in Seq(Insns)
      BY <1>7
    <3> QED
      BY <3>1, <3>2 DEF Body
  <2>2. \A b \in {Body, Nxt, Far} : Len(code[b]) > 0 => code[b][1] \in Phis
    BY <1>7 DEF Body, Nxt, Far
  <2>3. edges[Pre] = {Body} /\ mbb \in 1 .. 4 /\ mbb \notin {Pre, Nxt, Far}
    BY <1>1, <1>5 DEF Pre, Body, Nxt, Far
  <2>4. /\ code \in Seq(Seq(Insns)) /\ Len(code) >= 4
        /\ order \in Seq(Nat) /\ Len(order) = Len(code) /\ OnceEach(order)
    BY <1>8, <1>10
  <2>5. {order[n] : n \in 1 .. Len(order)} = 1 .. Len(code)
    BY <1>8, <1>10, Zenon
  <2>6. /\ edges \in Seq(SUBSET Nat) /\ Len(edges) = Len(code)
        /\ \A b \in 1 .. Len(code) : edges[b] \subseteq 2 .. Len(code)
        /\ mbb \in 1 .. Len(code)
    BY <1>8, <1>9, <2>3
  <2> QED
    BY <2>1, <2>2, <2>3, <2>4, <2>5, <2>6, Zenon DEF BlocksOK
<1>12. ShapesOK
  BY <1>7, <1>8 DEF ShapesOK
<1>13. PhisOK
  <2>1. \A b : Predecessors(b) = {q \in 1 .. 4 : b \in edges[q]}
    BY <1>1 DEF Predecessors
  <2> QED
    BY <1>7, <1>8, <2>1 DEF PhisOK
<1>14. RunOK
  <2>1. start \in [Regs -> Values]
    <3>1. PICK live \in [LiveIns -> Values] :
            start = [r \in Regs |-> IF r \in LiveIns THEN live[r] ELSE 0]
      BY DEF Init
    <3>2. 0 \in Values
      BY RegisterWidthAssumption DEF Values
    <3> QED
      BY <3>1, <3>2
  <2>2. pc = [blk |-> 2, idx |-> 1, prev |-> 1] /\ 2 \in 1 .. 4 /\ Len(code[2]) \in Nat
    BY <1>1, <1>7 DEF Entry, Pre, Body
  <2> QED
    BY <1>1, <1>8, <2>1, <2>2 DEF RunOK
<1> QED
  BY <1>1, <1>2, <1>11, <1>12, <1>13, <1>14 DEF CFGInv, ExitsOK, AtStart

\* A PHI, straight code, a branch and perhaps a JMP: all branches are at the
\* end of the block.
LEMMA StraightThenBranch ==
  ASSUME NEW c \in Seq(Insns), NEW L \in Nat, L >= 2, Len(c) = L \/ Len(c) = L + 1,
         c[1] \in Phis, c[L] \in Jumps, \A n \in 2 .. L - 1 : c[n] \in Straight,
         Len(c) = L + 1 => c[L + 1] \in JMPs
  PROVE  /\ BlockShape(c)
         /\ Targets(c) = {c[L].to} \cup (IF Len(c) = L THEN {} ELSE {c[L + 1].to})
         /\ IsBarrier(c) <=> Len(c) = L + 1
<1>1. /\ \A i \in Phis : i.op # "Select" /\ i.op # "JMP" /\ ~IsCompare(i)
      /\ \A i \in Straight : i.op # "PHI" /\ i.op # "JMP" /\ ~IsCompare(i)
      /\ \A i \in Jumps : i.op # "PHI" /\ i.op # "Select" /\ i.op # "JMP" /\ IsCompare(i)
      /\ \A i \in JMPs : i.op # "PHI" /\ i.op # "Select" /\ i.op = "JMP"
  BY DEF Phis, Straight, Loads, SelectMIs, Jumps, JMPs, JumpOps, IsCompare
<1>2. PICK N \in Nat : N = Len(c) /\ (N = L \/ N = L + 1)
  OBVIOUS
<1>3. /\ \A n \in 2 .. N : c[n].op # "PHI"
      /\ \A n \in L .. N : c[n].op # "Select"
      /\ \A n \in 1 .. L - 1 : c[n].op # "JMP" /\ ~IsCompare(c[n])
      /\ \A n \in L .. N : c[n].op = "JMP" \/ IsCompare(c[n])
      /\ c[N].op = "JMP" <=> N = L + 1
  <2>1. \A n \in 1 .. N : \/ n = 1 /\ c[n] \in Phis
                          \/ n \in 2 .. L - 1 /\ c[n] \in Straight
                          \/ n = L /\ c[n] \in Jumps
                          \/ n = L + 1 /\ c[n] \in JMPs
    BY <1>2
  <2> QED
    BY <1>1, <1>2, <2>1
<1>4. BlockShape(c)
  <2>1. \A n \in 1 .. N : c[n].op = "PHI" => n = 1
    BY <1>2, <1>3
  <2>2. \A m, n \in 1 .. N : m < n /\ c[n].op = "Select" => m \in 1 .. L - 1
    BY <1>2, <1>3
  <2> QED
    BY <1>2, <1>3, <2>1, <2>2 DEF BlockShape
<1>5. Targets(c) = {c[L].to} \cup (IF Len(c) = L THEN {} ELSE {c[L + 1].to})
  <2>1. \A n \in 1 .. N : IsCompare(c[n]) \/ c[n].op = "JMP" <=> n \in L .. N
    BY <1>2, <1>3
  <2>2. DOMAIN c = 1 .. N
    BY <1>2
  <2>3. {m \in DOMAIN c : IsCompare(c[m]) \/ c[m].op = "JMP"} = L .. N
    BY <1>2, <2>1, <2>2
  <2>4. L .. N = IF Len(c) = L THEN {L} ELSE {L, L + 1}
    <3>1. L .. L = {L} /\ L .. L + 1 = {L, L + 1} /\ L # L + 1
      OBVIOUS
    <3>2. N = Len(c) /\ (N = L \/ N = L + 1)
      BY <1>2
    <3> QED
      BY <3>1, <3>2, Zenon
  <2>5. Targets(c) = {c[n].to : n \in L .. N}
    BY <2>3, Zenon DEF Targets
  <2> QED
    BY <2>4, <2>5
<1>6. IsBarrier(c) <=> Len(c) = L + 1
  BY <1>2, <1>3 DEF IsBarrier
<1> QED
  BY <1>4, <1>5, <1>6

Selected(x, ph, F, s, j) ==
  /\ x = <<ph>> \o F \o (s \o <<j>>)
  /\ Len(x) >= 2 /\ x[1] = ph /\ x[Len(x)] = j
  /\ \A n \in 2 .. Len(x) - 1 : x[n] \in Straight

LEMMA PhiStraightBranch ==
  ASSUME NEW ph \in Phis, NEW j \in Jumps,
         NEW F \in Seq(Straight), NEW s \in Seq(Straight)
  PROVE  \E x \in Seq(Insns) : Selected(x, ph, F, s, j)
<1>0. PICK G \in Seq(Insns), u \in Seq(Insns) :
        /\ G = F /\ \A n \in 1 .. Len(G) : G[n] \in Straight
        /\ u = s /\ \A n \in 1 .. Len(u) : u[n] \in Straight
  <2>1. F \in Seq(Insns) /\ \A n \in 1 .. Len(F) : F[n] \in Straight
    BY DEF Insns
  <2>2. s \in Seq(Insns) /\ \A n \in 1 .. Len(s) : s[n] \in Straight
    BY DEF Insns
  <2> QED
    BY <2>1, <2>2
<1>1. PICK a \in Seq(Insns) : a = <<ph>> /\ Len(a) = 1 /\ a[1] = ph
  <2>1. ph \in Insns
    BY DEF Insns
  <2> QED
    BY <2>1, Singleton
<1>2. PICK e \in Seq(Insns) : e = <<j>> /\ Len(e) = 1 /\ e[1] = j
  <2>1. j \in Insns
    BY DEF Insns
  <2> QED
    BY <2>1, Singleton
<1>3. PICK b : b = u \o e
  OBVIOUS
<1>4. /\ b \in Seq(Insns) /\ Len(b) = Len(u) + Len(e)
      /\ \A n \in 1 .. Len(u) + Len(e) : b[n] = IF n <= Len(u) THEN u[n] ELSE e[n - Len(u)]
  BY <1>3, ConcatProperties
<1>5. b \in Seq(Insns)
  BY <1>4
<1>6. PICK x : x = a \o G \o b
  OBVIOUS
<1>7. /\ x \in Seq(Insns) /\ Len(x) = Len(a) + Len(G) + Len(b)
      /\ \A n \in 1 .. Len(a) + Len(G) + Len(b) :
           x[n] = IF n <= Len(a) THEN a[n] ELSE IF n <= Len(a) + Len(G) THEN G[n - Len(a)]
                  ELSE b[n - (Len(a) + Len(G))]
  BY <1>5, <1>6, ConcatThree
<1>8. Len(G) \in Nat /\ Len(u) \in Nat
  OBVIOUS
<1>9. Len(x) = 1 + Len(G) + Len(u) + 1 /\ x[1] = ph /\ x[Len(x)] = j
  <2>1. Len(x) = 1 + Len(G) + Len(u) + 1
    BY <1>1, <1>2, <1>4, <1>7, <1>8
  <2>2. x[1] = ph
    BY <1>1, <1>4, <1>7, <1>8
  <2>3. PICK m \in Nat : m = Len(x)
    BY <1>7
  <2>4. m > Len(a) + Len(G) /\ m - (Len(a) + Len(G)) = Len(u) + 1
    BY <1>1, <1>8, <2>1, <2>3
  <2>5. x[m] = b[Len(u) + 1]
    <3>1. /\ m \in 1 .. Len(a) + Len(G) + Len(b)
          /\ ~(m <= Len(a)) /\ ~(m <= Len(a) + Len(G))
      BY <1>1, <1>7, <1>8, <2>3, <2>4
    <3>2. x[m] = b[m - (Len(a) + Len(G))]
      BY <1>7, <3>1, Zenon
    <3> QED
      BY <2>4, <3>2, Zenon
  <2>6. b[Len(u) + 1] = j
    BY <1>2, <1>4, <1>8
  <2> QED
    BY <2>1, <2>2, <2>3, <2>5, <2>6, Zenon
<1>10. ASSUME NEW n \in 2 .. Len(x) - 1
       PROVE  x[n] \in Straight
  <2>1. CASE n <= 1 + Len(G)
    <3>1. x[n] = G[n - 1] /\ n - 1 \in 1 .. Len(G)
      BY <1>1, <1>4, <1>7, <1>8, <1>9, <2>1
    <3> QED
      BY <1>0, <3>1
  <2>2. CASE n > 1 + Len(G)
    <3>1. x[n] = b[n - (1 + Len(G))] /\ n - (1 + Len(G)) \in 1 .. Len(u)
      BY <1>1, <1>2, <1>4, <1>7, <1>8, <1>9, <2>2
    <3>2. PICK k \in 1 .. Len(u) : k = n - (1 + Len(G))
      BY <3>1
    <3>3. b[k] = u[k]
      BY <1>2, <1>4, <1>8
    <3>4. x[n] = u[k]
      BY <3>1, <3>2, <3>3, Zenon
    <3> QED
      BY <1>0, <3>4
  <2> QED
    BY <1>8, <2>1, <2>2
<1>11. x = <<ph>> \o F \o (s \o <<j>>)
  BY <1>0, <1>1, <1>2, <1>3, <1>6
<1>12. Len(x) >= 2
  BY <1>8, <1>9
<1> QED
  BY <1>7, <1>9, <1>10, <1>11, <1>12 DEF Selected

\* The body when its comparisons have become instructions.
LEMMA SelectedBody ==
  ASSUME NEW x \in Seq(Insns), Len(x) >= 2, x[1] \in Phis, x[Len(x)] \in Jumps,
         \A n \in 2 .. Len(x) - 1 : x[n] \in Straight,
         NEW c, c = x \o FinalJump
  PROVE  /\ c \in Seq(Insns) /\ Len(c) > 0 /\ c[1] = x[1] /\ BlockShape(c)
         /\ Targets(c) = {x[Len(x)].to} \cup (IF prog.layout[3] = Nxt THEN {} ELSE {Nxt})
         /\ IsBarrier(c) <=> prog.layout[3] # Nxt
<1>1. PICK L \in Nat : L = Len(x) /\ L >= 2
  OBVIOUS
<1>2. CASE prog.layout[3] = Nxt
  <2>1. c = x
    BY <1>2 DEF FinalJump
  <2> QED
    BY <1>1, <1>2, <2>1, StraightThenBranch
<1>3. CASE prog.layout[3] # Nxt
  <2> DEFINE jmp == [op |-> "JMP", to |-> Nxt]
  <2>1. jmp \in Insns /\ jmp \in JMPs /\ jmp.to = Nxt
    BY DEF Insns, JMPs, Nxt
  <2>2. c = x \o <<jmp>>
    BY <1>3 DEF FinalJump
  <2> HIDE DEF jmp
  <2>3. /\ c \in Seq(Insns) /\ Len(c) = L + 1 /\ c[L + 1] = jmp /\ \A n \in 1 .. L : c[n] = x[n]
    BY <1>1, <2>1, <2>2
  <2>4. /\ BlockShape(c) /\ Targets(c) = {c[L].to} \cup {c[L + 1].to} /\ IsBarrier(c)
    <3>1. c[1] \in Phis /\ c[L] \in Jumps /\ c[L + 1] \in JMPs
      BY <1>1, <2>1, <2>3
    <3>2. \A n \in 2 .. L - 1 : c[n] \in Straight
      BY <1>1, <2>3
    <3>3. L + 1 # L
      OBVIOUS
    <3> HIDE <1>3
    <3> QED
      BY <1>1, <2>3, <3>1, <3>2, <3>3, StraightThenBranch
  <2> QED
    BY <1>1, <1>3, <2>1, <2>3, <2>4
<1> QED
  BY <1>2, <1>3

\* Steps that leave the code alone.
LEMMA SameCode ==
  ASSUME CFGInv, UNCHANGED <<code, order, edges, mbb>>
  PROVE  /\ BlocksOK' /\ ShapesOK' /\ PhisOK'
         /\ \A b : CodeExits(b)' = CodeExits(b)
<1>1. BlocksOK'
  BY DEF CFGInv, BlocksOK
<1>2. ShapesOK'
  BY DEF CFGInv, ShapesOK
<1>3. \A b : Predecessors(b)' = Predecessors(b)
  BY DEF Predecessors
<1>4. PhisOK'
  BY <1>3 DEF CFGInv, PhisOK
<1>5. \A b : CodeExits(b)' = CodeExits(b)
  BY DEF CodeExits
<1> QED
  BY <1>1, <1>2, <1>4, <1>5

LEMMA LowerStep ==
  ASSUME CFGInv, Nodewise', LowerSELECT_CC \/ LowerBR_CC
  PROVE  CFGInv'
<1>1. UNCHANGED <<prog, start, code, order, edges, mbb, pc, env, stage>>
  BY DEF LowerSELECT_CC, LowerBR_CC, LowerNext
<1> QED
  BY <1>1, SameCode DEF CFGInv, ExitsOK, RunOK, AtStart

\* Selection: each block goes where the CFG says.
LEMMA SelectStep ==
  ASSUME CFGInv, Nodewise', SelectBlock
  PROVE  CFGInv'
<1>1. /\ stage = "lower" /\ lowered = Len(dag) /\ UNCHANGED <<prog, start, dag, order, edges, mbb, pc, env>>
  BY DEF SelectBlock
<1>2. CASE stage' = "fatal" /\ UNCHANGED code
  BY <1>1, <1>2, SameCode DEF CFGInv, ExitsOK, RunOK, AtStart
<1>3. CASE dag[Len(dag)].cc \in DOMAIN JumpOf /\ stage' = "expand"
  <2> DEFINE F == FlattenSeq([n \in 1 .. Len(dag) - 1 |-> SelectedSelect(n)])
  <2>1. code' = [code EXCEPT ![Body] = code[Body] \o F \o SelectedBranch(prog.target) \o FinalJump]
    BY <1>3 DEF SelectBlock
  <2>2. F \in Seq(Straight)
    BY <1>1, SelectsShape DEF CFGInv
  <2>3. prog.target \in {Body, Far} /\ prog.layout \in {<<Pre, Body, Nxt, Far>>, <<Pre, Body, Far, Nxt>>}
    BY ProgramsAssumption DEF CFGInv, Nodewise, Program
  <2>4. PICK s \in Seq(Straight), j \in Jumps :
          SelectedBranch(prog.target) = s \o <<j>> /\ j.to = prog.target
    <3>1. prog.target \in Nat
      BY <2>3 DEF Body, Far
    <3> QED
      BY <1>1, <1>3, <3>1, BranchShape DEF CFGInv
  <2>5. /\ \A b \in 1 .. 4 : code[b] = PhiOf(b, prog)
        /\ Len(code) = 4 /\ order = prog.layout /\ edges = InitialEdges(prog) /\ mbb = Body
        /\ prog \in Programs
    BY <1>1 DEF CFGInv, Nodewise, AtStart
  <2>6. PICK ph \in Phis : code[Body] = <<ph>>
    BY <2>5, InitialBlocks DEF Body
  <2>7. PICK x \in Seq(Insns) :
          /\ x = <<ph>> \o F \o (s \o <<j>>)
          /\ Len(x) >= 2 /\ x[1] = ph /\ x[Len(x)] = j
          /\ \A n \in 2 .. Len(x) - 1 : x[n] \in Straight
    <3>1. PICK G \in Seq(Straight) : G = F
      BY <2>2
    <3>2. PICK x \in Seq(Insns) : Selected(x, ph, G, s, j)
      BY PhiStraightBranch
    <3> QED
      BY <3>1, <3>2 DEF Selected
  <2>8. PICK c : c = x \o FinalJump
    OBVIOUS
  <2>9. code' = [code EXCEPT ![Body] = c]
    BY <2>1, <2>4, <2>6, <2>7, <2>8
  <2> HIDE DEF F
  <2>10. /\ c \in Seq(Insns) /\ Len(c) > 0 /\ c[1] = ph /\ BlockShape(c)
         /\ Targets(c) = {prog.target} \cup (IF prog.layout[3] = Nxt THEN {} ELSE {Nxt})
         /\ IsBarrier(c) <=> prog.layout[3] # Nxt
    BY <2>4, <2>7, <2>8, SelectedBody
  <2>11. /\ code' \in Seq(Seq(Insns)) /\ Len(code') = 4
         /\ code'[Body] = c /\ \A b \in 1 .. 4 : b # Body => code'[b] = code[b]
    BY <2>5, <2>9, <2>10 DEF CFGInv, BlocksOK, Body
  <2>12. BlocksOK'
    <3>1. /\ order' = order /\ edges' = edges /\ mbb' = mbb
          /\ order \in Seq(Nat) /\ Len(order) = 4 /\ OnceEach(order)
          /\ {order[n] : n \in 1 .. Len(order)} = 1 .. 4
          /\ edges \in Seq(SUBSET Nat) /\ Len(edges) = 4
          /\ \A b \in 1 .. 4 : edges[b] \subseteq 2 .. 4
          /\ edges[Pre] = {Body}
          /\ mbb \in 1 .. 4 /\ mbb \notin {Pre, Nxt, Far}
      BY <1>1, <2>5 DEF CFGInv, BlocksOK
    <3>2. Len(code'[Body]) > 0 /\ \A b \in {Body, Nxt, Far} : Len(code'[b]) > 0 => code'[b][1] \in Phis
      <4>1. \A b \in {Body, Nxt, Far} : Len(code[b]) > 0 => code[b][1] \in Phis
        BY DEF CFGInv, BlocksOK
      <4>2. \A b \in {Nxt, Far} : code'[b] = code[b]
        BY <2>11 DEF Body, Nxt, Far
      <4>3. Len(code'[Body]) > 0 /\ code'[Body][1] \in Phis
        BY <2>10, <2>11
      <4> QED
        BY <4>1, <4>2, <4>3
    <3>3. /\ Len(code') >= 4 /\ Len(edges') = Len(code') /\ edges' \in Seq(SUBSET Nat)
          /\ \A b \in 1 .. Len(code') : edges'[b] \subseteq 2 .. Len(code')
          /\ mbb' \in 1 .. Len(code')
      BY <2>11, <3>1
    <3>4. /\ order' \in Seq(Nat) /\ Len(order') = Len(code') /\ OnceEach(order)'
          /\ {order'[n] : n \in 1 .. Len(order')} = 1 .. Len(code')
      <4>1. order' = order /\ Len(code') = 4 /\ order' \in Seq(Nat) /\ Len(order') = Len(code')
        BY <2>11, <3>1
      <4>2. OnceEach(order)'
        BY <3>1 DEF OnceEach
      <4>3. {order'[n] : n \in 1 .. Len(order')} = 1 .. 4
        BY <3>1
      <4> QED
        BY <4>1, <4>2, <4>3, Zenon
    <3>5. edges'[Pre] = {Body} /\ mbb' \notin {Pre, Nxt, Far}
      BY <3>1
    <3> QED
      BY <2>11, <3>2, <3>3, <3>4, <3>5, Zenon DEF BlocksOK
  <2>13. ShapesOK'
    BY <2>5, <2>10, <2>11 DEF CFGInv, ShapesOK
  <2>14. \A b : Predecessors(b)' = Predecessors(b)
    BY <1>1, <2>9 DEF Predecessors
  <2>15. PhisOK'
    <3> SUFFICES ASSUME NEW b \in 1 .. 4, NEW n \in 1 .. Len(code'[b]), code'[b][n].op = "PHI"
                 PROVE  DOMAIN code'[b][n].in = Predecessors(b)
      BY <2>11, <2>14 DEF PhisOK
    <3>1. CASE b = Body
      <4>1. n = 1
        BY <2>10, <2>11, <3>1 DEF BlockShape
      <4>2. code'[b][n] = ph /\ ph.op = "PHI"
        BY <2>10, <2>11, <3>1, <4>1 DEF Phis
      <4>3. Len(code[Body]) = 1 /\ code[Body][1] = ph
        BY <2>6
      <4>4. DOMAIN ph.in = Predecessors(Body)
        BY <2>5, <4>2, <4>3 DEF CFGInv, PhisOK, Body
      <4> QED
        BY <3>1, <4>2, <4>4
    <3>2. CASE b # Body
      BY <2>5, <2>11, <3>2 DEF CFGInv, PhisOK
    <3> QED
      BY <3>1, <3>2
  <2>16. ExitsOK'
    <3>1. order \in Seq(Nat) /\ Len(order) = 4 /\ OnceEach(order)
      BY <2>5 DEF CFGInv, BlocksOK
    <3>2. order[1] = 1 /\ order[2] = 2 /\ order[3] = prog.layout[3] /\ order[3] \in {3, 4}
      BY <2>3, <2>5 DEF Pre, Body, Nxt, Far
    <3>3. Follower(order, 1) = {2} /\ Follower(order, 2) = {order[3]}
      <4>1. 1 \in 1 .. Len(order) /\ 2 \in 1 .. Len(order) /\ 1 < Len(order) /\ 2 < Len(order)
        BY <3>1
      <4>2. Follower(order, order[1]) = {order[1 + 1]} /\ Follower(order, order[2]) = {order[2 + 1]}
        BY <3>1, <4>1, FollowerAt
      <4> QED
        BY <3>2, <4>2
    <3>4. edges[1] = {2} /\ edges[2] = {3, prog.target}
      BY <2>5 DEF InitialEdges, Pre, Body, Nxt, Far
    <3>5. CodeExits(1)' = {2}
      <4>1. code'[1] = << >>
        BY <2>5, <2>11, InitialBlocks DEF Pre, Body
      <4>2. Targets(<< >>) = {} /\ ~IsBarrier(<< >>)
        BY DEF Targets, IsBarrier
      <4>3. CodeExits(1)' = Targets(code'[1]) \cup (IF IsBarrier(code'[1]) THEN {} ELSE Follower(order', 1))
        BY DEF CodeExits, Targets
      <4> QED
        BY <1>1, <3>3, <4>1, <4>2, <4>3
    <3>6. CodeExits(2)' = {3, prog.target}
      <4>1. CodeExits(2)' = Targets(code'[2]) \cup (IF IsBarrier(code'[2]) THEN {} ELSE Follower(order', 2))
        BY DEF CodeExits, Targets
      <4>2. CodeExits(2)' = Targets(c) \cup (IF IsBarrier(c) THEN {} ELSE {order[3]})
        BY <1>1, <2>11, <3>3, <4>1 DEF Body
      <4> QED
        BY <2>10, <3>2, <4>2 DEF Nxt
    <3>7. \A b \in (1 .. 4) \ {3, 4} : b = 1 \/ b = 2
      OBVIOUS
    <3> QED
      BY <1>1, <2>11, <3>4, <3>5, <3>6, <3>7 DEF ExitsOK, Nxt, Far
  <2>17. RunOK'
    <3>1. pc' = Entry /\ env' = env /\ start' = start
      BY <1>1 DEF CFGInv, RunOK
    <3>2. /\ Entry.blk = 2 /\ Entry.idx = 1 /\ Entry.prev = 1
          /\ Entry \in [blk : 1 .. 4, idx : Nat, prev : 1 .. 4]
      BY DEF Entry, Pre, Body
    <3>3. start \in [Regs -> Values] /\ env \in [Regs -> Values]
      BY DEF CFGInv, RunOK
    <3>4. Entry.idx \in 1 .. Len(code'[Entry.blk]) + 1
      BY <2>10, <2>11, <3>2 DEF Body
    <3> QED
      BY <1>3, <2>11, <3>1, <3>2, <3>3, <3>4 DEF RunOK
  <2> QED
    BY <1>3, <2>12, <2>13, <2>15, <2>16, <2>17 DEF CFGInv, AtStart
<1> QED
  BY <1>2, <1>3 DEF SelectBlock

-----------------------------------------------------------------------------
(***************************************************************************)
(* The expansion of a Select.                                              *)
(***************************************************************************)

\* No place of a layout is lost or doubled by two new blocks.
InsertedAt(t, s, i, N) ==
  /\ \A n \in 1 .. N : s[n] \in 1 .. N
  /\ \A p, q \in 1 .. N : s[p] = s[q] => p = q
  /\ \A n \in 1 .. i : t[n] = s[n]
  /\ t[i + 1] = N + 1 /\ t[i + 2] = N + 2
  /\ \A n \in i + 1 .. N : t[n + 2] = s[n]

LEMMA InsertedOnce ==
  ASSUME NEW N \in Nat, NEW s, NEW t, NEW i \in 1 .. N, InsertedAt(t, s, i, N)
  PROVE  \A m, n \in 1 .. N + 2 : t[m] = t[n] => m = n
<1>0. /\ \A n \in 1 .. N : s[n] \in 1 .. N
      /\ \A p, q \in 1 .. N : s[p] = s[q] => p = q
      /\ \A n \in 1 .. i : t[n] = s[n]
      /\ t[i + 1] = N + 1 /\ t[i + 2] = N + 2
      /\ \A n \in i + 1 .. N : t[n + 2] = s[n]
  BY DEF InsertedAt
<1> DEFINE Low(q)  == q \in 1 .. i /\ q \in 1 .. N /\ t[q] = s[q] /\ t[q] \in 1 .. N
           High(q) == q - 2 \in 1 .. N /\ ~(q - 2 \in 1 .. i) /\ t[q] = s[q - 2] /\ t[q] \in 1 .. N
           New(q)  == t[q] \notin 1 .. N /\ q = t[q] - N + i /\ t[q] \in Nat
<1>1. ASSUME NEW q \in 1 .. N + 2 PROVE Low(q) \/ High(q) \/ New(q)
  <2>1. CASE q \in 1 .. i
    <3>1. q \in 1 .. N
      BY <2>1
    <3>2. t[q] = s[q] /\ s[q] \in 1 .. N
      BY <1>0, <2>1, <3>1
    <3> QED
      BY <2>1, <3>1, <3>2
  <2>2. CASE q = i + 1
    <3>1. N + 1 \notin 1 .. N /\ q = (N + 1) - N + i
      BY <2>2
    <3> QED
      BY <1>0, <2>2, <3>1
  <2>3. CASE q = i + 2
    <3>1. N + 2 \notin 1 .. N /\ q = (N + 2) - N + i
      BY <2>3
    <3> QED
      BY <1>0, <2>3, <3>1
  <2>4. CASE q \notin 1 .. i + 2
    <3>1. PICK p : p = q - 2
      OBVIOUS
    <3>2. p \in 1 .. N /\ p \in i + 1 .. N /\ ~(p \in 1 .. i) /\ q = p + 2
      BY <2>4, <3>1
    <3>3. t[p + 2] = s[p] /\ s[p] \in 1 .. N
      BY <1>0, <3>2
    <3> QED
      BY <3>1, <3>2, <3>3
  <2>5. q \in 1 .. i \/ q = i + 1 \/ q = i + 2 \/ q \notin 1 .. i + 2
    OBVIOUS
  <2> QED
    BY <2>1, <2>2, <2>3, <2>4, <2>5
<1> SUFFICES ASSUME NEW m \in 1 .. N + 2, NEW n \in 1 .. N + 2, t[m] = t[n] PROVE m = n
  OBVIOUS
<1>2. CASE Low(m) /\ Low(n)
  BY <1>0, <1>2
<1>3. CASE High(m) /\ High(n)
  <2>1. PICK p \in 1 .. N, r \in 1 .. N : p = m - 2 /\ r = n - 2
    BY <1>3
  <2>2. s[p] = s[r]
    BY <1>3, <2>1
  <2>3. p = r
    BY <1>0, <2>2
  <2> QED
    BY <2>1, <2>3
<1>4. CASE (Low(m) /\ High(n)) \/ (High(m) /\ Low(n))
  <2>1. m = n - 2 \/ n = m - 2
    BY <1>0, <1>4
  <2> QED
    BY <1>4, <2>1
<1>5. CASE New(m) /\ New(n)
  BY <1>5
<1>6. CASE (New(m) /\ ~New(n)) \/ (~New(m) /\ New(n))
  BY <1>1, <1>6
<1> QED
  BY <1>1, <1>2, <1>3, <1>4, <1>5, <1>6

\* Two blocks put in behind the i-th: each falls through to the next, and the
\* last of them to what the i-th fell through to.
LaidOut(s, N) ==
  /\ Len(s) = N /\ OnceEach(s)
  /\ \A n \in 1 .. N : s[n] \in 1 .. N
  /\ \A b \in 1 .. N : \E n \in 1 .. N : s[n] = b

FollowersKept(t, s, i, N) ==
  /\ Follower(t, s[i]) = {N + 1} /\ Follower(t, N + 1) = {N + 2}
  /\ Follower(t, N + 2) = Follower(s, s[i])
  /\ \A b \in 1 .. N : b # s[i] => Follower(t, b) = Follower(s, b)

LEMMA OrderInserted ==
  ASSUME NEW N \in Nat, NEW s \in Seq(Nat), LaidOut(s, N),
         NEW i \in 1 .. N, NEW t \in Seq(Nat), TwoBehind(t, s, i, N + 1, N + 2)
  PROVE  LaidOut(t, N + 2) /\ FollowersKept(t, s, i, N)
<1> SUFFICES ASSUME Len(s) = N, OnceEach(s), \A n \in 1 .. N : s[n] \in 1 .. N,
                    \A b \in 1 .. N : \E n \in 1 .. N : s[n] = b
             PROVE  LaidOut(t, N + 2) /\ FollowersKept(t, s, i, N)
  BY DEF LaidOut
<1>3. /\ Len(t) = N + 2
      /\ \A n \in 1 .. i : t[n] = s[n]
      /\ t[i + 1] = N + 1 /\ t[i + 2] = N + 2
      /\ \A n \in i + 1 .. N : t[n + 2] = s[n]
  BY DEF TwoBehind
<1>4. \A n \in 1 .. N : s[n] \in 1 .. N
  OBVIOUS
<1>5. \A n \in 1 .. N + 2 : \/ n \in 1 .. i /\ t[n] = s[n]
                            \/ n = i + 1 /\ t[n] = N + 1
                            \/ n = i + 2 /\ t[n] = N + 2
                            \/ n - 2 \in i + 1 .. N /\ t[n] = s[n - 2]
  <2> SUFFICES ASSUME NEW n \in 1 .. N + 2, n \notin 1 .. i, n # i + 1, n # i + 2
               PROVE  n - 2 \in i + 1 .. N /\ t[n] = s[n - 2]
    BY <1>3
  <2>1. PICK m \in i + 1 .. N : n = m + 2
    <3>1. n - 2 \in i + 1 .. N /\ n = (n - 2) + 2
      OBVIOUS
    <3> QED
      BY <3>1
  <2> QED
    BY <1>3, <2>1
<1>6. OnceEach(t)
  <2>1. \A p, q \in 1 .. N : s[p] = s[q] => p = q
    BY DEF OnceEach
  <2>2. InsertedAt(t, s, i, N)
    BY <1>3, <1>4, <2>1, Zenon DEF InsertedAt
  <2>3. \A m, n \in 1 .. N + 2 : t[m] = t[n] => m = n
    BY <2>2, InsertedOnce
  <2> QED
    BY <1>3, <2>3 DEF OnceEach
<1>7. /\ \A n \in 1 .. N + 2 : t[n] \in 1 .. N + 2
      /\ \A b \in 1 .. N + 2 : \E n \in 1 .. N + 2 : t[n] = b
  <2>1. ASSUME NEW n \in 1 .. N + 2 PROVE t[n] \in 1 .. N + 2
    <3>1. \A v \in 1 .. N : v \in 1 .. N + 2
      OBVIOUS
    <3>2. t[n] \in 1 .. N \/ t[n] \in {N + 1, N + 2}
      <4>1. \A q \in i + 1 .. N : q \in 1 .. N
        OBVIOUS
      <4>2. \A q \in 1 .. i : q \in 1 .. N
        OBVIOUS
      <4> QED
        BY <1>4, <1>5, <4>1, <4>2, Zenon
    <3>3. N + 1 \in 1 .. N + 2 /\ N + 2 \in 1 .. N + 2
      OBVIOUS
    <3> QED
      BY <3>1, <3>2, <3>3, Zenon
  <2>2. ASSUME NEW b \in 1 .. N + 2 PROVE \E n \in 1 .. N + 2 : t[n] = b
    <3>1. CASE b \in 1 .. N
      <4>1. PICK n \in 1 .. N : s[n] = b
        BY <3>1
      <4>2. CASE n \in 1 .. i
        BY <1>3, <4>1, <4>2
      <4>3. CASE n \in i + 1 .. N
        BY <1>3, <4>1, <4>3
      <4> QED
        BY <4>2, <4>3
    <3>2. CASE b = N + 1
      BY <1>3, <3>2
    <3>3. CASE b = N + 2
      BY <1>3, <3>3
    <3> QED
      BY <3>1, <3>2, <3>3
  <2> QED
    BY <2>1, <2>2
<1>8. \A q \in 1 .. N + 2 : Follower(t, t[q]) = IF q < N + 2 THEN {t[q + 1]} ELSE {}
  <2>1. \A q \in 1 .. Len(t) : Follower(t, t[q]) = IF q < Len(t) THEN {t[q + 1]} ELSE {}
    BY <1>6, FollowerAt
  <2> QED
    BY <1>3, <2>1, Zenon
<1>9. \A q \in 1 .. N : Follower(s, s[q]) = IF q < N THEN {s[q + 1]} ELSE {}
  <2>1. \A q \in 1 .. Len(s) : Follower(s, s[q]) = IF q < Len(s) THEN {s[q + 1]} ELSE {}
    BY FollowerAt
  <2> QED
    BY <2>1, Zenon
<1>10. Follower(t, s[i]) = {N + 1} /\ Follower(t, N + 1) = {N + 2}
  <2>1. /\ i \in 1 .. N + 2 /\ i < N + 2 /\ i + 1 \in 1 .. N + 2 /\ i + 1 < N + 2
        /\ (i + 1) + 1 = i + 2 /\ t[i] = s[i]
    BY <1>3
  <2> QED
    BY <1>3, <1>8, <2>1
<1>11. \A q \in i + 1 .. N : Follower(t, s[q]) = Follower(s, s[q])
  <2> SUFFICES ASSUME NEW q \in i + 1 .. N PROVE Follower(t, s[q]) = Follower(s, s[q])
    OBVIOUS
  <2>1. t[q + 2] = s[q] /\ q + 2 \in 1 .. N + 2 /\ q \in 1 .. N
    BY <1>3
  <2>2. CASE q < N
    <3>1. t[(q + 1) + 2] = s[q + 1] /\ (q + 1) + 2 = (q + 2) + 1 /\ q + 2 < N + 2
      BY <1>3, <2>2
    <3>2. Follower(t, t[q + 2]) = {t[(q + 2) + 1]}
      BY <1>8, <2>1, <3>1, Zenon
    <3>3. Follower(s, s[q]) = {s[q + 1]}
      BY <1>9, <2>1, <2>2, Zenon
    <3> QED
      BY <2>1, <3>1, <3>2, <3>3, Zenon
  <2>3. CASE ~(q < N)
    <3>1. ~(q + 2 < N + 2)
      BY <2>3
    <3> QED
      BY <1>8, <1>9, <2>1, <2>3, <3>1, Zenon
  <2> QED
    BY <2>2, <2>3
<1>12. Follower(t, N + 2) = Follower(s, s[i])
  <2>1. i + 2 \in 1 .. N + 2 /\ t[i + 2] = N + 2
    BY <1>3
  <2>2. CASE i < N
    <3>1. t[(i + 1) + 2] = s[i + 1] /\ (i + 1) + 2 = (i + 2) + 1 /\ i + 2 < N + 2
      BY <1>3, <2>2
    <3>2. Follower(t, N + 2) = {t[(i + 2) + 1]} /\ Follower(s, s[i]) = {s[i + 1]}
      BY <1>8, <1>9, <2>1, <2>2, <3>1, Zenon
    <3> QED
      BY <3>1, <3>2, Zenon
  <2>3. CASE ~(i < N)
    <3>1. ~(i + 2 < N + 2)
      BY <2>3
    <3> QED
      BY <1>8, <1>9, <2>1, <2>3, <3>1, Zenon
  <2> QED
    BY <2>2, <2>3
<1>13. ASSUME NEW b \in 1 .. N, b # s[i] PROVE Follower(t, b) = Follower(s, b)
  <2>1. PICK q \in 1 .. N : s[q] = b
    OBVIOUS
  <2>2. q # i
    BY <1>13, <2>1
  <2>3. CASE q < i
    <3>1. /\ q \in 1 .. i /\ q + 1 \in 1 .. i /\ q \in 1 .. N + 2 /\ q < N /\ q < N + 2
      BY <2>3
    <3>2. t[q] = s[q] /\ t[q + 1] = s[q + 1]
      BY <1>3, <3>1
    <3> QED
      BY <1>8, <1>9, <2>1, <3>1, <3>2
  <2>4. CASE q > i
    BY <1>11, <2>1, <2>4
  <2> QED
    BY <2>2, <2>3, <2>4
<1> QED
  BY <1>3, <1>6, <1>7, <1>10, <1>12, <1>13 DEF LaidOut, FollowersKept

\* The same instructions but for what a PHI reads.
SameButPhis(d, c) ==
  /\ Len(d) = Len(c)
  /\ \A n \in 1 .. Len(c) : d[n].op = c[n].op /\ (c[n].op # "PHI" => d[n] = c[n])

LEMMA SameButPhisGives ==
  ASSUME NEW c \in Seq(Insns), NEW d \in Seq(Insns), SameButPhis(d, c), BlockShape(c)
  PROVE  BlockShape(d) /\ Targets(d) = Targets(c) /\ (IsBarrier(d) <=> IsBarrier(c))
<1>1. PICK N \in Nat : N = Len(c) /\ N = Len(d)
  BY DEF SameButPhis
<1>2. \A n \in 1 .. N : /\ d[n].op = c[n].op
                        /\ IsCompare(d[n]) <=> IsCompare(c[n])
                        /\ (IsCompare(c[n]) \/ c[n].op = "JMP" => d[n] = c[n])
  BY <1>1 DEF SameButPhis, IsCompare
<1>3. BlockShape(d)
  BY <1>1, <1>2 DEF BlockShape
<1>4. Targets(d) = Targets(c)
  <2>1. DOMAIN d = 1 .. N /\ DOMAIN c = 1 .. N
    <3>1. DOMAIN d = 1 .. Len(d) /\ DOMAIN c = 1 .. Len(c)
      OBVIOUS
    <3> QED
      BY <1>1, <3>1, Zenon
  <2>2. {m \in DOMAIN d : IsCompare(d[m]) \/ d[m].op = "JMP"}
          = {m \in DOMAIN c : IsCompare(c[m]) \/ c[m].op = "JMP"}
    BY <1>2, <2>1
  <2>3. \A m \in {m \in DOMAIN c : IsCompare(c[m]) \/ c[m].op = "JMP"} : d[m].to = c[m].to
    BY <1>2, <2>1
  <2> QED
    BY <2>2, <2>3 DEF Targets
<1>5. IsBarrier(d) <=> IsBarrier(c)
  <2> DEFINE Empty(s) == s = << >>
  <2>0. (Empty(c) <=> Len(c) = 0) /\ (Empty(d) <=> Len(d) = 0)
    OBVIOUS
  <2>1. CASE N = 0
    BY <1>1, <2>0, <2>1, Zenon DEF IsBarrier
  <2>2. CASE N > 0
    <3>1. d # << >> /\ c # << >> /\ N \in 1 .. N
      <4>1. N # 0 /\ N \in 1 .. N
        BY <2>2
      <4> QED
        BY <1>1, <2>0, <4>1, Zenon
    <3> QED
      BY <1>1, <1>2, <3>1, Zenon DEF IsBarrier
  <2> QED
    BY <2>1, <2>2
<1> QED
  BY <1>3, <1>4, <1>5

\* What stays of a block that is cut at a Select: its exits have moved, and the
\* jump to copy1MBB is the only one,
UpperHalf(h, d, k, j) ==
  /\ h = Before(d, k, j) /\ Len(h) = k
  /\ \A n \in 1 .. k : h[n] = IF n < k THEN d[n] ELSE j
  /\ BlockShape(h) /\ Targets(h) = {j.to} /\ ~IsBarrier(h)

LEMMA Upper ==
  ASSUME NEW d \in Seq(Insns), BlockShape(d), NEW k \in 1 .. Len(d), d[k].op = "Select",
         NEW j \in Jumps
  PROVE  \E h \in Seq(Insns) : UpperHalf(h, d, k, j)
<1>1. j \in Insns /\ j.op # "PHI" /\ j.op # "Select" /\ j.op # "JMP" /\ IsCompare(j)
  BY DEF Insns, Jumps, JumpOps, IsCompare
<1>2. PICK h : h = Before(d, k, j)
  OBVIOUS
<1>3. h \in Seq(Insns) /\ Len(h) = k /\ \A n \in 1 .. k : h[n] = IF n < k THEN d[n] ELSE j
  <2>1. j \in Insns
    BY <1>1
  <2>2. /\ Before(d, k, j) \in Seq(Insns) /\ Len(Before(d, k, j)) = k
        /\ \A n \in 1 .. k : Before(d, k, j)[n] = IF n < k THEN d[n] ELSE j
    BY <2>1, CutParts DEF FirstPart
  <2> QED
    BY <1>2, <2>2, Zenon
<1>4. /\ \A n \in 1 .. k - 1 : h[n] = d[n] /\ d[n].op # "JMP" /\ ~IsCompare(d[n])
      /\ h[k] = j
  BY <1>3 DEF BlockShape
<1>5. BlockShape(h)
  <2>1. \A n \in 1 .. k : h[n].op = "PHI" => n = 1
    <3> SUFFICES ASSUME NEW n \in 1 .. k, h[n].op = "PHI" PROVE n = 1
      OBVIOUS
    <3>1. n \in 1 .. k - 1
      BY <1>1, <1>4
    <3>2. n \in 1 .. Len(d) /\ d[n].op = "PHI"
      BY <1>4, <3>1
    <3> QED
      BY <3>2 DEF BlockShape
  <2>2. \A m, n \in 1 .. k : m < n => m \in 1 .. k - 1
    OBVIOUS
  <2>3. \A m, n \in 1 .. k : m < n => h[m].op # "JMP" /\ ~IsCompare(h[m])
    BY <1>4, <2>2
  <2> QED
    BY <1>3, <2>1, <2>3 DEF BlockShape
<1>6. Targets(h) = {j.to}
  <2>1. DOMAIN h = 1 .. k
    BY <1>3
  <2>2. {m \in DOMAIN h : IsCompare(h[m]) \/ h[m].op = "JMP"} = {k}
    <3>1. \A m \in 1 .. k : m # k => ~(IsCompare(h[m]) \/ h[m].op = "JMP")
      BY <1>4
    <3> QED
      BY <1>1, <1>4, <2>1, <3>1
  <2> QED
    BY <1>4, <2>2 DEF Targets
<1>7. ~IsBarrier(h)
  BY <1>1, <1>3, <1>4 DEF IsBarrier
<1> QED
  BY <1>2, <1>3, <1>5, <1>6, <1>7 DEF UpperHalf

\* and what moves to copy1MBB takes all of them along.
LowerHalf(h, c, k, ph) ==
  /\ h = After(c, k, ph) /\ Len(h) >= 1 /\ h[1] = ph
  /\ BlockShape(h) /\ Targets(h) = Targets(c) /\ (IsBarrier(h) <=> IsBarrier(c))

LEMMA Lower ==
  ASSUME NEW c \in Seq(Insns), BlockShape(c), NEW k \in 1 .. Len(c), c[k].op = "Select",
         NEW ph \in Phis
  PROVE  \E h \in Seq(Insns) : LowerHalf(h, c, k, ph)
<1>1. ph \in Insns /\ ph.op = "PHI" /\ ph.op # "JMP" /\ ~IsCompare(ph)
  BY DEF Insns, Phis, IsCompare
<1>2. PICK h : h = After(c, k, ph)
  OBVIOUS
<1>3. PICK N \in Nat, M \in Nat : N = Len(c) /\ M = N - k + 1 /\ k <= N
  OBVIOUS
<1>4. h \in Seq(Insns) /\ Len(h) = M /\ \A n \in 1 .. M : h[n] = IF n = 1 THEN ph ELSE c[n - 1 + k]
  <2>1. ph \in Insns
    BY <1>1
  <2>2. /\ After(c, k, ph) \in Seq(Insns) /\ Len(After(c, k, ph)) = Len(c) - k + 1
        /\ \A n \in 1 .. Len(c) - k + 1 : After(c, k, ph)[n] = IF n = 1 THEN ph ELSE c[n - 1 + k]
    BY <2>1, CutParts DEF LastPart
  <2> QED
    BY <1>2, <1>3, <2>2, Zenon
<1>5. h[1] = ph /\ M >= 1
  BY <1>3, <1>4
<1>6. \A n \in 2 .. M : n - 1 + k \in k + 1 .. N /\ h[n] = c[n - 1 + k]
  BY <1>3, <1>4
<1>7. \A p \in k + 1 .. N : /\ p - k + 1 \in 2 .. M /\ h[p - k + 1] = c[p]
                            /\ c[p].op # "PHI"
  <2> SUFFICES ASSUME NEW p \in k + 1 .. N
               PROVE  p - k + 1 \in 2 .. M /\ h[p - k + 1] = c[p] /\ c[p].op # "PHI"
    OBVIOUS
  <2>1. p - k + 1 \in 2 .. M /\ (p - k + 1) - 1 + k = p
    BY <1>3
  <2>2. c[p].op # "PHI"
    BY <1>3 DEF BlockShape
  <2> QED
    BY <1>6, <2>1, <2>2
<1>8. \A p \in 1 .. k : c[p].op # "JMP" /\ ~IsCompare(c[p])
  <2>1. \A p \in 1 .. k - 1 : c[p].op # "JMP" /\ ~IsCompare(c[p])
    BY <1>3 DEF BlockShape
  <2>2. c[k].op # "JMP" /\ ~IsCompare(c[k])
    BY DEF IsCompare
  <2> QED
    BY <2>1, <2>2
<1>9. BlockShape(h)
  <2>1. ASSUME NEW n \in 1 .. M, n # 1 PROVE h[n].op # "PHI"
    <3>1. n \in 2 .. M
      BY <2>1
    <3>2. PICK p \in k + 1 .. N : p = n - 1 + k /\ h[n] = c[p]
      BY <1>6, <3>1
    <3> QED
      BY <1>7, <3>2
  <2>2. ASSUME NEW m \in 1 .. M, NEW n \in 1 .. M, m < n, h[n].op = "Select"
        PROVE  h[m].op # "JMP" /\ ~IsCompare(h[m])
    <3>1. n \in 2 .. M
      BY <2>2
    <3>2. PICK p \in k + 1 .. N : p = n - 1 + k /\ h[n] = c[p]
      BY <1>6, <3>1
    <3>3. CASE m = 1
      BY <1>1, <1>5, <3>3
    <3>4. CASE m # 1
      <4>1. m \in 2 .. M
        BY <3>4
      <4>2. PICK q \in k + 1 .. N : q = m - 1 + k /\ h[m] = c[q]
        BY <1>6, <4>1
      <4>3. q < p /\ p \in 1 .. N /\ q \in 1 .. N
        BY <2>2, <3>2, <4>2
      <4>4. c[p].op = "Select"
        BY <2>2, <3>2
      <4>5. c[q].op # "JMP" /\ ~IsCompare(c[q])
        BY <1>3, <4>3, <4>4 DEF BlockShape
      <4> QED
        BY <4>2, <4>5
    <3> QED
      BY <3>3, <3>4
  <2> QED
    BY <1>4, <2>1, <2>2 DEF BlockShape
<1>10. Targets(h) = Targets(c)
  <2> DEFINE At(s) == {m \in DOMAIN s : IsCompare(s[m]) \/ s[m].op = "JMP"}
  <2>1. DOMAIN h = 1 .. M /\ DOMAIN c = 1 .. N
    BY <1>3, <1>4
  <2>2. \A m \in At(h) : \E p \in At(c) : h[m].to = c[p].to
    <3> SUFFICES ASSUME NEW m \in 1 .. M, IsCompare(h[m]) \/ h[m].op = "JMP"
                 PROVE  \E p \in 1 .. N : /\ IsCompare(c[p]) \/ c[p].op = "JMP"
                                          /\ h[m].to = c[p].to
      BY <2>1
    <3>1. m \in 2 .. M
      BY <1>1, <1>5
    <3>2. PICK p \in k + 1 .. N : p = m - 1 + k /\ h[m] = c[p]
      BY <1>6, <3>1
    <3>3. p \in 1 .. N
      OBVIOUS
    <3> QED
      BY <3>2, <3>3
  <2>3. \A p \in At(c) : \E m \in At(h) : h[m].to = c[p].to
    <3> SUFFICES ASSUME NEW p \in 1 .. N, IsCompare(c[p]) \/ c[p].op = "JMP"
                 PROVE  \E m \in 1 .. M : /\ IsCompare(h[m]) \/ h[m].op = "JMP"
                                          /\ h[m].to = c[p].to
      BY <2>1
    <3>1. p \in k + 1 .. N
      BY <1>8
    <3>2. PICK m \in 2 .. M : m = p - k + 1 /\ h[m] = c[p]
      BY <1>7, <3>1
    <3>3. m \in 1 .. M
      OBVIOUS
    <3> QED
      BY <3>2, <3>3
  <2>4. Targets(h) = {h[m].to : m \in At(h)} /\ Targets(c) = {c[m].to : m \in At(c)}
    BY DEF Targets
  <2> HIDE DEF At
  <2> QED
    BY <2>2, <2>3, <2>4
<1>11. IsBarrier(h) <=> IsBarrier(c)
  <2>1. h # << >> /\ c # << >>
    BY <1>3, <1>4, <1>5
  <2>2. CASE k = N
    <3>1. M = 1
      BY <1>3, <2>2
    <3> QED
      BY <1>1, <1>3, <1>4, <1>5, <1>8, <2>1, <2>2, <3>1 DEF IsBarrier
  <2>3. CASE k < N
    <3>1. N \in k + 1 .. N /\ N - k + 1 = M
      BY <1>3, <2>3
    <3>2. h[M] = c[N]
      BY <1>7, <3>1
    <3> QED
      BY <1>3, <1>4, <2>1, <3>2 DEF IsBarrier
  <2> QED
    BY <1>3, <2>2, <2>3
<1> QED
  BY <1>2, <1>4, <1>5, <1>9, <1>10, <1>11 DEF LowerHalf

\* A PHI after transferSuccessorsAndUpdatePHIs.
LEMMA RenamedPhi ==
  ASSUME NEW i \in Phis, mbb \in DOMAIN i.in, Len(code) \in Nat
  PROVE  /\ [i EXCEPT !.in = Renamed(i.in)] \in Phis
         /\ DOMAIN [i EXCEPT !.in = Renamed(i.in)].in = (DOMAIN i.in \ {mbb}) \cup {copy1MBB}
<1> DEFINE Q == (DOMAIN i.in \ {mbb}) \cup {copy1MBB}
           f == Renamed(i.in)
<1>1. PICK P \in SUBSET Nat : i.in \in [P -> Regs] /\ i.dst \in Regs /\ i.op = "PHI"
  BY DEF Phis
<1>2. copy1MBB \in Nat
  BY DEF copy1MBB
<1>3. Q \in SUBSET Nat /\ mbb \in P /\ DOMAIN i.in = P
  BY <1>1, <1>2
<1>4. f = [q \in Q |-> i.in[IF q = copy1MBB THEN mbb ELSE q]]
  BY DEF Renamed
<1> HIDE DEF f
<1>5. f \in [Q -> Regs] /\ DOMAIN f = Q
  <2>1. \A q \in Q : i.in[IF q = copy1MBB THEN mbb ELSE q] \in Regs
    BY <1>1, <1>3
  <2> QED
    BY <1>4, <2>1
<1> HIDE DEF Q
<1>6. f \in UNION {[R -> Regs] : R \in SUBSET Nat}
  BY <1>3, <1>5
<1>7. i = [op |-> "PHI", dst |-> i.dst, in |-> i.in]
  BY DEF Phis
<1>8. [i EXCEPT !.in = f] = [op |-> "PHI", dst |-> i.dst, in |-> f]
  BY <1>7
<1>9. [op |-> "PHI", dst |-> i.dst, in |-> f] \in Phis
  BY <1>1, <1>6 DEF Phis
<1> QED
  BY <1>5, <1>8, <1>9 DEF f, Q

\* The ways into a block once the exits of BB are copy1MBB's.
Moved(b) == (Predecessors(b) \ {mbb}) \cup (IF b \in edges[mbb] THEN {copy1MBB} ELSE {})

LEMMA Transferred ==
  ASSUME CFGInv, NEW b \in 1 .. Len(code)
  PROVE  /\ transferred[b] \in Seq(Insns) /\ SameButPhis(transferred[b], code[b])
         /\ \A n \in 1 .. Len(code[b]) : code[b][n].op = "PHI" =>
              transferred[b][n] \in Phis /\ DOMAIN transferred[b][n].in = Moved(b)
<1>1. /\ code[b] \in Seq(Insns) /\ DOMAIN code = 1 .. Len(code) /\ mbb \in 1 .. Len(code)
      /\ Len(code) \in Nat
  BY DEF CFGInv, BlocksOK
<1>2. transferred[b] = IF b \in edges[mbb] THEN UpdatePHIs(code[b]) ELSE code[b]
  BY <1>1 DEF transferred
<1>3. mbb \in Predecessors(b) <=> b \in edges[mbb]
  BY <1>1 DEF Predecessors
<1>4. \A n \in 1 .. Len(code[b]) :
        code[b][n].op = "PHI" => code[b][n] \in Phis /\ DOMAIN code[b][n].in = Predecessors(b)
  <2>1. \A n \in 1 .. Len(code[b]) : code[b][n] \in Insns
    BY <1>1
  <2> QED
    BY <2>1, InsnKinds DEF CFGInv, PhisOK
<1>5. CASE b \in edges[mbb]
  <2> DEFINE s == code[b]
             U(n) == IF s[n].op = "PHI" /\ mbb \in DOMAIN s[n].in
                     THEN [s[n] EXCEPT !.in = Renamed(s[n].in)] ELSE s[n]
  <2>1. transferred[b] = [n \in 1 .. Len(s) |-> U(n)] /\ Len(s) \in Nat
    BY <1>1, <1>2, <1>5 DEF UpdatePHIs
  <2>2. ASSUME NEW n \in 1 .. Len(s), s[n].op = "PHI"
        PROVE  U(n) \in Phis /\ DOMAIN U(n).in = Moved(b)
    <3>1. s[n] \in Phis /\ DOMAIN s[n].in = Predecessors(b) /\ mbb \in DOMAIN s[n].in
      BY <1>3, <1>4, <1>5, <2>2
    <3>2. PICK i \in Phis : i = s[n] /\ mbb \in DOMAIN i.in /\ DOMAIN i.in = Predecessors(b)
      BY <3>1
    <3>3. U(n) = [i EXCEPT !.in = Renamed(i.in)]
      BY <2>2, <3>1, <3>2
    <3> HIDE DEF U
    <3> QED
      BY <1>1, <1>5, <3>2, <3>3, RenamedPhi DEF Moved
  <2>3. ASSUME NEW n \in 1 .. Len(s), s[n].op # "PHI"
        PROVE  U(n) = s[n] /\ U(n) \in Insns
    BY <1>1, <2>3
  <2>4. \A n \in 1 .. Len(s) : U(n) \in Insns /\ U(n).op = s[n].op
    <3>1. \A i \in Phis : i \in Insns /\ i.op = "PHI"
      BY DEF Insns, Phis
    <3> HIDE DEF U
    <3> QED
      BY <2>2, <2>3, <3>1
  <2>5. PICK L \in Nat : L = Len(s)
    BY <2>1
  <2> HIDE DEF U
  <2>6. transferred[b] \in Seq(Insns) /\ Len(transferred[b]) = L /\ \A n \in 1 .. L : transferred[b][n] = U(n)
    BY <2>1, <2>4, <2>5
  <2> QED
    BY <2>2, <2>3, <2>4, <2>5, <2>6 DEF SameButPhis
<1>6. CASE b \notin edges[mbb]
  <2>1. transferred[b] = code[b] /\ Moved(b) = Predecessors(b)
    BY <1>2, <1>3, <1>6 DEF Moved
  <2> QED
    BY <1>1, <1>4, <2>1 DEF SameButPhis
<1> QED
  BY <1>5, <1>6

\* The pseudo that is expanded; the block of the PHI that Body begins with is
\* not cut before it.
LEMMA FirstPseudo ==
  ASSUME CFGInv, Pseudos # {}
  PROVE  /\ First \in 1 .. Len(code[mbb]) /\ MI = code[mbb][First]
         /\ MI \in SelectMIs /\ MI.op = "Select"
         /\ mbb = Body => First > 1
<1>1. /\ mbb \in 1 .. Len(code) /\ code[mbb] \in Seq(Insns)
      /\ mbb \in {Body, Nxt, Far} /\ Len(code[mbb]) > 0 => code[mbb][1] \in Phis
  BY DEF CFGInv, BlocksOK
<1>2. Pseudos = {n \in 1 .. Len(code[mbb]) : code[mbb][n].op = "Select"}
  BY <1>1 DEF Pseudos
<1>3. \E n \in Pseudos : \A m \in Pseudos : n <= m
  <2>1. Pseudos \subseteq Nat
    BY <1>1, <1>2
  <2> QED
    BY <2>1, LeastElement
<1>4. First \in Pseudos
  BY <1>3 DEF First
<1>5. First \in 1 .. Len(code[mbb]) /\ code[mbb][First].op = "Select"
  BY <1>2, <1>4
<1>6. MI \in SelectMIs
  <2>1. code[mbb][First] \in Insns
    BY <1>1, <1>5
  <2> QED
    BY <1>5, <2>1, InsnKinds DEF MI
<1>7. ASSUME mbb = Body PROVE First > 1
  <2>1. code[mbb][1] \in Phis
    BY <1>1, <1>5, <1>7
  <2>2. First # 1
    BY <1>5, <2>1 DEF Phis
  <2> QED
    BY <1>1, <1>5, <2>2
<1> QED
  BY <1>5, <1>6, <1>7 DEF MI

\* The function after one expansion, block by block.
Expanded(N, up, low) ==
  /\ N = Len(code) /\ First \in 1 .. Len(code[mbb])
  /\ UpperHalf(up, transferred[mbb], First, Jump(MI, N + 2))
  /\ LowerHalf(low, code[mbb], First, SelectPhi)
  /\ code' \in Seq(Seq(Insns)) /\ TwoMore(code', transferred, mbb, up, << >>, low)
  /\ edges' \in Seq(SUBSET Nat)
  /\ TwoMore(edges', edges, mbb, {N + 1, N + 2}, {N + 2}, edges[mbb])
  /\ order' \in Seq(Nat) /\ I \in 1 .. N /\ order[I] = mbb /\ TwoBehind(order', order, I, N + 1, N + 2)

LEMMA TransferredType ==
  ASSUME CFGInv
  PROVE  transferred \in Seq(Seq(Insns)) /\ Len(transferred) = Len(code)
<1>1. PICK N \in Nat : N = Len(code) /\ DOMAIN code = 1 .. N
  BY DEF CFGInv, BlocksOK
<1>2. \A b \in 1 .. N : transferred[b] \in Seq(Insns)
  BY <1>1, Transferred
<1>3. transferred = [b \in 1 .. N |-> transferred[b]]
  BY <1>1 DEF transferred
<1> QED
  BY <1>1, <1>2, <1>3

LEMMA NewInsns ==
  ASSUME CFGInv, Pseudos # {}, MI.cc \in DOMAIN JumpOf
  PROVE  /\ Jump(MI, Len(code) + 2) \in Jumps /\ Jump(MI, Len(code) + 2).to = Len(code) + 2
         /\ SelectPhi \in Phis /\ DOMAIN SelectPhi.in = {Len(code) + 1, mbb}
<1>1. MI \in SelectMIs
  BY FirstPseudo
<1>2. /\ MI.lhs \in Operand /\ MI.rhs \in Operand
      /\ MI.dst \in Regs /\ MI.t \in Regs /\ MI.f \in Regs
  BY <1>1 DEF SelectMIs
<1>3. Len(code) \in Nat /\ mbb \in Nat
  BY DEF CFGInv, BlocksOK
<1>4. PICK to \in Nat : to = Len(code) + 2
  BY <1>3
<1>5. Jump(MI, to) \in Jumps /\ Jump(MI, to).to = to
  BY <1>2, JumpShape
<1> DEFINE Q == {copy0MBB, mbb}
           f == [q \in Q |-> IF q = copy0MBB THEN MI.f ELSE MI.t]
<1>6. f \in [Q -> Regs] /\ DOMAIN f = Q
  BY <1>2
<1>7. Q \in SUBSET Nat /\ Q = {Len(code) + 1, mbb}
  BY <1>3 DEF copy0MBB
<1>8. SelectPhi = [op |-> "PHI", dst |-> MI.dst, in |-> f]
  BY DEF SelectPhi, Phi
<1> HIDE DEF f, Q
<1>9. f \in UNION {[R -> Regs] : R \in SUBSET Nat}
  BY <1>6, <1>7
<1>10. SelectPhi \in Phis /\ SelectPhi.in = f
  BY <1>2, <1>8, <1>9 DEF Phis
<1> QED
  BY <1>4, <1>5, <1>6, <1>7, <1>10, Zenon

LEMMA Diamond ==
  ASSUME CFGInv, Pseudos # {}, MI.cc \in DOMAIN JumpOf, InsertDiamond
  PROVE  \E N \in Nat, up \in Seq(Insns), low \in Seq(Insns) : Expanded(N, up, low)
<1>1. PICK N \in Nat : N = Len(code) /\ N >= 4
  BY DEF CFGInv, BlocksOK
<1>2. /\ First \in 1 .. Len(code[mbb]) /\ code[mbb][First].op = "Select"
  BY FirstPseudo
<1>3. PICK j \in Jumps : j = Jump(MI, N + 2)
  BY <1>1, NewInsns
<1>4. PICK ph \in Phis : ph = SelectPhi
  BY NewInsns
<1>5. mbb \in 1 .. Len(code) /\ code[mbb] \in Seq(Insns) /\ BlockShape(code[mbb])
  BY DEF CFGInv, BlocksOK, ShapesOK
<1>0. PICK c \in Seq(Insns) : c = code[mbb]
  BY <1>5
<1>6. PICK k \in 1 .. Len(c) : c = code[mbb] /\ k = First /\ c[k].op = "Select" /\ BlockShape(c)
  BY <1>0, <1>2, <1>5
<1>7. PICK d \in Seq(Insns) : d = transferred[mbb] /\ SameButPhis(d, c)
  BY <1>5, <1>6, Transferred
<1>8. BlockShape(d) /\ Len(d) = Len(c) /\ d[k].op = "Select"
  BY <1>6, <1>7, SameButPhisGives DEF SameButPhis
<1>9. PICK up \in Seq(Insns) : UpperHalf(up, d, k, j)
  BY <1>8, Upper
<1>10. PICK low \in Seq(Insns) : LowerHalf(low, c, k, ph)
  BY <1>6, Lower
<1>11. code' \in Seq(Seq(Insns)) /\ TwoMore(code', transferred, mbb, up, << >>, low)
  <2>1. PICK s \in Seq(Seq(Insns)) : s = transferred /\ Len(s) = N
    BY <1>1, TransferredType
  <2>2. PICK p \in 1 .. Len(s) : p = mbb
    BY <1>1, <1>5, <2>1
  <2>3. PICK e \in Seq(Insns) : e = << >>
    <3>1. << >> \in Seq(Insns)
      OBVIOUS
    <3> QED
      BY <3>1, Zenon
  <2>4. PICK t \in Seq(Seq(Insns)) : t = [s EXCEPT ![p] = up] \o <<e, low>> /\ TwoMore(t, s, p, up, e, low)
    BY ReplaceAndExtend
  <2>5. code' = t
    <3>1. code' = [transferred EXCEPT ![mbb] = Before(d, k, j)] \o <<e, After(c, k, ph)>>
      BY <1>1, <1>3, <1>4, <1>6, <1>7, <2>3 DEF InsertDiamond, Before, After, copy1MBB
    <3>2. up = Before(d, k, j) /\ low = After(c, k, ph)
      BY <1>9, <1>10 DEF UpperHalf, LowerHalf
    <3> QED
      BY <2>1, <2>2, <2>4, <3>1, <3>2
  <2> QED
    BY <2>1, <2>2, <2>3, <2>4, <2>5
<1>12. edges' \in Seq(SUBSET Nat) /\ TwoMore(edges', edges, mbb, {N + 1, N + 2}, {N + 2}, edges[mbb])
  <2>1. PICK s \in Seq(SUBSET Nat) : s = edges /\ Len(s) = N
    BY <1>1 DEF CFGInv, BlocksOK
  <2>2. PICK p \in 1 .. Len(s) : p = mbb
    BY <1>1, <1>5, <2>1
  <2>3. PICK u \in SUBSET Nat, v \in SUBSET Nat, w \in SUBSET Nat :
          u = {N + 1, N + 2} /\ v = {N + 2} /\ w = s[p]
    <3>1. {N + 1, N + 2} \in SUBSET Nat /\ {N + 2} \in SUBSET Nat
      OBVIOUS
    <3>2. s[p] \in SUBSET Nat
      OBVIOUS
    <3> QED
      BY <3>1, <3>2, Zenon
  <2>4. PICK t \in Seq(SUBSET Nat) : t = [s EXCEPT ![p] = u] \o <<v, w>> /\ TwoMore(t, s, p, u, v, w)
    BY ReplaceAndExtend
  <2>5. edges' = t
    BY <1>1, <2>1, <2>2, <2>3, <2>4 DEF InsertDiamond, copy0MBB, copy1MBB
  <2> QED
    BY <2>1, <2>2, <2>3, <2>4, <2>5
<1>13. /\ order' \in Seq(Nat) /\ I \in 1 .. N /\ order[I] = mbb
       /\ TwoBehind(order', order, I, N + 1, N + 2)
  <2>1. PICK s \in Seq(Nat) : s = order /\ Len(s) = N
    BY <1>1 DEF CFGInv, BlocksOK
  <2>2. I \in 1 .. Len(s) /\ s[I] = mbb
    <3>1. mbb \in {order[n] : n \in 1 .. Len(order)}
      BY <1>5 DEF CFGInv, BlocksOK
    <3>2. \E n \in DOMAIN order : order[n] = mbb
      <4>1. PICK n \in 1 .. Len(order) : order[n] = mbb
        BY <3>1
      <4>2. DOMAIN order = 1 .. Len(order)
        BY <2>1
      <4> QED
        BY <4>1, <4>2
    <3>3. I \in DOMAIN order /\ order[I] = mbb
      BY <3>2 DEF I
    <3> QED
      BY <2>1, <3>3
  <2>3. PICK i \in 1 .. Len(s) : i = I
    BY <2>2
  <2>4. PICK x \in Nat, y \in Nat : x = N + 1 /\ y = N + 2
    OBVIOUS
  <2>5. PICK t \in Seq(Nat) : t = Splice(s, i, i, <<x, y>>) /\ TwoBehind(t, s, i, x, y)
    BY SplicePair
  <2>6. order' = t
    BY <1>1, <2>1, <2>3, <2>4, <2>5 DEF InsertDiamond, insertAfter, inserted, copy0MBB, copy1MBB, Splice
  <2> QED
    BY <2>1, <2>2, <2>3, <2>4, <2>5, <2>6
<1>14. Expanded(N, up, low)
  BY <1>1, <1>2, <1>3, <1>4, <1>6, <1>7, <1>9, <1>10, <1>11, <1>12, <1>13, Zenon DEF Expanded
<1> QED
  BY <1>14

LEMMA ExpandedAt ==
  ASSUME CFGInv, NEW N \in Nat, NEW up \in Seq(Insns), NEW low \in Seq(Insns), Expanded(N, up, low)
  PROVE  /\ N = Len(code) /\ N >= 4 /\ mbb \in 1 .. N /\ mbb \notin {Pre, Nxt, Far}
         /\ Len(code') = N + 2 /\ Len(edges') = N + 2 /\ Len(order') = N + 2
         /\ \A b \in 1 .. N : code'[b] = IF b = mbb THEN up ELSE transferred[b]
         /\ code'[N + 1] = << >> /\ code'[N + 2] = low
         /\ \A b \in 1 .. N : edges'[b] = IF b = mbb THEN {N + 1, N + 2} ELSE edges[b]
         /\ edges'[N + 1] = {N + 2} /\ edges'[N + 2] = edges[mbb]
         /\ \A b \in 1 .. N : edges[b] \subseteq 2 .. N
<1>1. /\ N = Len(code) /\ N >= 4 /\ mbb \in 1 .. N /\ mbb \notin {Pre, Nxt, Far} /\ Len(edges) = N
      /\ Len(order) = N /\ \A b \in 1 .. N : edges[b] \subseteq 2 .. N
  BY DEF CFGInv, BlocksOK, Expanded
<1>2. Len(transferred) = N
  BY <1>1, TransferredType
<1>3. TwoMore(code', transferred, mbb, up, << >>, low)
  BY DEF Expanded
<1>4. /\ Len(code') = N + 2
      /\ \A b \in 1 .. N : code'[b] = IF b = mbb THEN up ELSE transferred[b]
      /\ code'[N + 1] = << >> /\ code'[N + 2] = low
  BY <1>2, <1>3, Zenon DEF TwoMore
<1>5. TwoMore(edges', edges, mbb, {N + 1, N + 2}, {N + 2}, edges[mbb])
  BY DEF Expanded
<1>6. /\ Len(edges') = N + 2
      /\ \A b \in 1 .. N : edges'[b] = IF b = mbb THEN {N + 1, N + 2} ELSE edges[b]
      /\ edges'[N + 1] = {N + 2} /\ edges'[N + 2] = edges[mbb]
  BY <1>1, <1>5, Zenon DEF TwoMore
<1>7. Len(order') = N + 2
  BY <1>1, Zenon DEF Expanded, TwoBehind
<1> QED
  BY <1>1, <1>4, <1>6, <1>7

LEMMA ExpandedOrder ==
  ASSUME CFGInv, NEW N \in Nat, NEW up \in Seq(Insns), NEW low \in Seq(Insns), Expanded(N, up, low)
  PROVE  /\ order' \in Seq(Nat) /\ OnceEach(order') /\ {order'[n] : n \in 1 .. N + 2} = 1 .. N + 2
         /\ Follower(order', mbb) = {N + 1} /\ Follower(order', N + 1) = {N + 2}
         /\ Follower(order', N + 2) = Follower(order, mbb)
         /\ \A b \in 1 .. N : b # mbb => Follower(order', b) = Follower(order, b)
<1>1. PICK s \in Seq(Nat) : s = order /\ Len(s) = N /\ OnceEach(s) /\ {s[n] : n \in 1 .. N} = 1 .. N
  BY DEF CFGInv, BlocksOK, Expanded
<1>2. (\A n \in 1 .. N : s[n] \in 1 .. N) /\ (\A b \in 1 .. N : \E n \in 1 .. N : s[n] = b)
  BY <1>1, Zenon
<1>3. PICK i \in 1 .. N : i = I /\ s[i] = mbb
  BY <1>1 DEF Expanded
<1>4. PICK t \in Seq(Nat) : t = order' /\ TwoBehind(t, s, i, N + 1, N + 2)
  BY <1>1, <1>3 DEF Expanded
<1>5. LaidOut(t, N + 2) /\ FollowersKept(t, s, i, N)
  <2>1. LaidOut(s, N)
    BY <1>1, <1>2 DEF LaidOut
  <2> QED
    BY <1>4, <2>1, OrderInserted
<1>6. {t[n] : n \in 1 .. N + 2} = 1 .. N + 2
  BY <1>5, Zenon DEF LaidOut
<1>7. /\ Follower(t, mbb) = {N + 1} /\ Follower(t, N + 1) = {N + 2}
      /\ Follower(t, N + 2) = Follower(order, mbb)
      /\ \A b \in 1 .. N : b # mbb => Follower(t, b) = Follower(order, b)
  BY <1>1, <1>3, <1>5 DEF FollowersKept
<1>8. t \in Seq(Nat) /\ OnceEach(t)
  BY <1>5 DEF LaidOut
<1>9. order' = t
  BY <1>4
<1> QED
  BY <1>6, <1>7, <1>8, <1>9

LEMMA ExpandedBlocks ==
  ASSUME CFGInv, NEW N \in Nat, NEW up \in Seq(Insns), NEW low \in Seq(Insns), Expanded(N, up, low),
         mbb' = N + 2, Pseudos # {}
  PROVE  BlocksOK'
<1>1. /\ N = Len(code) /\ N >= 4 /\ mbb \in 1 .. N /\ mbb \notin {Pre, Nxt, Far}
      /\ Len(code') = N + 2 /\ Len(edges') = N + 2 /\ Len(order') = N + 2
      /\ \A b \in 1 .. N : code'[b] = IF b = mbb THEN up ELSE transferred[b]
      /\ \A b \in 1 .. N : edges'[b] = IF b = mbb THEN {N + 1, N + 2} ELSE edges[b]
      /\ edges'[N + 1] = {N + 2} /\ edges'[N + 2] = edges[mbb]
      /\ \A b \in 1 .. N : edges[b] \subseteq 2 .. N
  BY ExpandedAt
<1>2. /\ code' \in Seq(Seq(Insns)) /\ edges' \in Seq(SUBSET Nat)
  BY DEF Expanded
<1>3. /\ order' \in Seq(Nat) /\ OnceEach(order') /\ {order'[n] : n \in 1 .. N + 2} = 1 .. N + 2
  BY ExpandedOrder
<1>4. ASSUME NEW b \in 1 .. N + 2 PROVE edges'[b] \subseteq 2 .. N + 2
  <2>1. b \in 1 .. N \/ b = N + 1 \/ b = N + 2
    OBVIOUS
  <2> QED
    BY <1>1, <2>1
<1>5. edges'[Pre] = {Body}
  <2>1. edges[Pre] = {Body}
    BY DEF CFGInv, BlocksOK
  <2>2. Pre \in 1 .. N /\ Pre # mbb
    BY <1>1 DEF Pre
  <2> QED
    BY <1>1, <2>1, <2>2
<1>6. N + 2 \in 1 .. N + 2 /\ N + 2 \notin {Pre, Nxt, Far} /\ N + 2 >= 4
  BY <1>1 DEF Pre, Nxt, Far
<1>7. /\ Len(code[Body]) > 0
      /\ \A b \in {Body, Nxt, Far} : Len(code[b]) > 0 => code[b][1] \in Phis
  BY DEF CFGInv, BlocksOK
<1>8. \A b \in {Body, Nxt, Far} : b \in 1 .. N
  BY <1>1 DEF Body, Nxt, Far
<1>9. ASSUME NEW b \in {Body, Nxt, Far}, Len(transferred[b]) > 0
      PROVE  transferred[b][1] \in Phis
  <2>1. b \in 1 .. Len(code) /\ Len(transferred[b]) = Len(code[b])
    BY <1>1, <1>8, Transferred DEF SameButPhis
  <2>2. code[b] \in Seq(Insns)
    BY <2>1 DEF CFGInv, BlocksOK
  <2>3. 1 \in 1 .. Len(code[b]) /\ code[b][1].op = "PHI"
    BY <1>7, <1>9, <2>1, <2>2 DEF Phis
  <2> QED
    BY <2>1, <2>3, Transferred
<1>10. Len(transferred[Body]) > 0
  BY <1>1, <1>7, <1>8, Transferred DEF SameButPhis
<1>11. ASSUME mbb = Body PROVE Len(up) > 0 /\ up[1] \in Phis
  <2>1. First \in 1 .. Len(code[mbb]) /\ First > 1
    BY <1>11, FirstPseudo
  <2> QED
    BY <1>9, <1>10, <1>11, <2>1 DEF Expanded, UpperHalf
<1>12. Len(code'[Body]) > 0 /\ \A b \in {Body, Nxt, Far} : Len(code'[b]) > 0 => code'[b][1] \in Phis
  <2>1. code'[Body] = (IF Body = mbb THEN up ELSE transferred[Body])
    BY <1>1, <1>8
  <2>2. \A b \in {Body, Nxt, Far} : code'[b] = IF b = mbb THEN up ELSE transferred[b]
    BY <1>1, <1>8
  <2>3. \A b \in {Body, Nxt, Far} : b = mbb => b = Body
    BY <1>1
  <2>4. Len(code'[Body]) > 0
    BY <1>10, <1>11, <2>1, Zenon
  <2>5. ASSUME NEW b \in {Body, Nxt, Far}, Len(code'[b]) > 0 PROVE code'[b][1] \in Phis
    <3>1. CASE b = mbb
      BY <1>11, <2>2, <2>3, <3>1, Zenon
    <3>2. CASE b # mbb
      <4>1. code'[b] = transferred[b]
        BY <2>2, <3>2, Zenon
      <4> QED
        BY <1>9, <2>5, <4>1, Zenon
    <3> QED
      BY <3>1, <3>2
  <2> QED
    BY <2>4, <2>5, Zenon
<1> QED
  BY <1>1, <1>2, <1>3, <1>4, <1>5, <1>6, <1>12, Zenon DEF BlocksOK

LEMMA ExpandedShapes ==
  ASSUME CFGInv, NEW N \in Nat, NEW up \in Seq(Insns), NEW low \in Seq(Insns), Expanded(N, up, low)
  PROVE  ShapesOK'
<1>1. /\ N = Len(code) /\ Len(code') = N + 2
      /\ \A b \in 1 .. N : code'[b] = IF b = mbb THEN up ELSE transferred[b]
      /\ code'[N + 1] = << >> /\ code'[N + 2] = low
  BY ExpandedAt
<1>2. BlockShape(up) /\ BlockShape(low)
  BY DEF Expanded, UpperHalf, LowerHalf
<1>3. BlockShape(<< >>)
  BY DEF BlockShape
<1>4. ASSUME NEW b \in 1 .. N PROVE BlockShape(transferred[b])
  <2>1. PICK c \in Seq(Insns) : c = code[b] /\ BlockShape(c)
    BY <1>1, BlockAt
  <2>2. PICK d \in Seq(Insns) : d = transferred[b] /\ SameButPhis(d, c)
    BY <1>1, <2>1, Transferred
  <2> QED
    BY <2>1, <2>2, SameButPhisGives
<1>5. \A b \in 1 .. N + 2 : b \in 1 .. N \/ b = N + 1 \/ b = N + 2
  OBVIOUS
<1> QED
  BY <1>1, <1>2, <1>3, <1>4, <1>5, Zenon DEF ShapesOK

LEMMA ExpandedPhis ==
  ASSUME CFGInv, Pseudos # {}, MI.cc \in DOMAIN JumpOf,
         NEW N \in Nat, NEW up \in Seq(Insns), NEW low \in Seq(Insns), Expanded(N, up, low)
  PROVE  PhisOK'
<1>1. /\ N = Len(code) /\ N >= 4 /\ mbb \in 1 .. N /\ Len(code') = N + 2
      /\ \A b \in 1 .. N : code'[b] = IF b = mbb THEN up ELSE transferred[b]
      /\ code'[N + 1] = << >> /\ code'[N + 2] = low
      /\ \A b \in 1 .. N : edges'[b] = IF b = mbb THEN {N + 1, N + 2} ELSE edges[b]
      /\ edges'[N + 1] = {N + 2} /\ edges'[N + 2] = edges[mbb]
      /\ \A b \in 1 .. N : edges[b] \subseteq 2 .. N
  BY ExpandedAt
<1>2. \A b : Predecessors(b)' = {q \in 1 .. N + 2 : b \in edges'[q]}
  <2>1. code' \in Seq(Seq(Insns))
    BY DEF Expanded
  <2>2. DOMAIN code' = 1 .. N + 2
    BY <1>1, <2>1
  <2> QED
    BY <2>2 DEF Predecessors
<1>3. \A b : Predecessors(b) = {q \in 1 .. N : b \in edges[q]}
  <2>1. DOMAIN code = 1 .. N
    BY <1>1 DEF CFGInv, BlocksOK
  <2> QED
    BY <2>1 DEF Predecessors
<1>4. ASSUME NEW b \in 1 .. N PROVE Predecessors(b)' = Moved(b)
  <2>1. Moved(b) = ({q \in 1 .. N : b \in edges[q]} \ {mbb}) \cup (IF b \in edges[mbb] THEN {N + 2} ELSE {})
    BY <1>1, <1>3 DEF Moved, copy1MBB
  <2>2. ASSUME NEW q \in 1 .. N + 2
        PROVE  b \in edges'[q] <=> \/ q \in 1 .. N /\ q # mbb /\ b \in edges[q]
                                   \/ q = N + 2 /\ b \in edges[mbb]
    <3>1. CASE q \in 1 .. N /\ q # mbb
      BY <1>1, <3>1
    <3>2. CASE q = mbb
      <4>1. edges'[q] = {N + 1, N + 2} /\ b \notin {N + 1, N + 2} /\ q # N + 2
        BY <1>1, <3>2
      <4> QED
        BY <3>2, <4>1
    <3>3. CASE q = N + 1
      BY <1>1, <3>3
    <3>4. CASE q = N + 2
      BY <1>1, <3>4
    <3> QED
      BY <3>1, <3>2, <3>3, <3>4
  <2>3. N + 2 \in 1 .. N + 2 /\ \A q \in 1 .. N : q \in 1 .. N + 2
    OBVIOUS
  <2> QED
    BY <1>2, <2>1, <2>2, <2>3
<1>5. Predecessors(N + 2)' = {N + 1, mbb}
  <2>1. ASSUME NEW q \in 1 .. N + 2 PROVE N + 2 \in edges'[q] <=> q \in {N + 1, mbb}
    <3>1. \A b \in 1 .. N : N + 2 \notin edges[b]
      BY <1>1
    <3>2. CASE q \in 1 .. N
      BY <1>1, <3>1, <3>2
    <3>3. CASE q = N + 1
      BY <1>1, <3>3
    <3>4. CASE q = N + 2
      BY <1>1, <3>1, <3>4
    <3> QED
      BY <3>2, <3>3, <3>4
  <2>2. N + 1 \in 1 .. N + 2 /\ mbb \in 1 .. N + 2
    BY <1>1
  <2> QED
    BY <1>2, <2>1, <2>2
<1>6. ASSUME NEW b \in 1 .. N, NEW n \in 1 .. Len(transferred[b]), transferred[b][n].op = "PHI"
      PROVE  DOMAIN transferred[b][n].in = Predecessors(b)'
  <2>1. SameButPhis(transferred[b], code[b])
    BY <1>1, Transferred
  <2>2. n \in 1 .. Len(code[b]) /\ code[b][n].op = "PHI"
    BY <1>6, <2>1 DEF SameButPhis
  <2> QED
    BY <1>1, <1>4, <2>2, Transferred
<1>7. ASSUME NEW b \in 1 .. N, b = mbb, NEW n \in 1 .. Len(up), up[n].op = "PHI"
      PROVE  DOMAIN up[n].in = Predecessors(b)'
  <2>1. PICK j \in Jumps, k \in Nat, d \in Seq(Insns) :
          /\ d = transferred[mbb] /\ Len(up) = k /\ k <= Len(d)
          /\ \A m \in 1 .. k : up[m] = IF m < k THEN d[m] ELSE j
    <3>1. UpperHalf(up, transferred[mbb], First, Jump(MI, N + 2)) /\ First \in 1 .. Len(code[mbb])
      BY DEF Expanded
    <3>2. PICK j \in Jumps : j = Jump(MI, N + 2)
      BY <1>1, NewInsns
    <3>3. PICK d \in Seq(Insns) : d = transferred[mbb] /\ Len(d) = Len(code[mbb])
      BY <1>1, Transferred DEF SameButPhis
    <3>4. PICK k \in Nat : k = First /\ k <= Len(d)
      BY <3>1, <3>3
    <3> QED
      BY <3>1, <3>2, <3>3, <3>4 DEF UpperHalf
  <2>2. n # k
    BY <1>7, <2>1 DEF Jumps, JumpOps
  <2>3. n \in 1 .. Len(d) /\ up[n] = d[n]
    BY <2>1, <2>2
  <2> QED
    BY <1>1, <1>6, <1>7, <2>1, <2>3
<1>8. ASSUME NEW n \in 1 .. Len(low), low[n].op = "PHI" PROVE DOMAIN low[n].in = Predecessors(N + 2)'
  <2>1. n = 1 /\ low[1] = SelectPhi
    BY <1>8 DEF Expanded, LowerHalf, BlockShape
  <2> QED
    BY <1>1, <1>5, <2>1, NewInsns
<1> SUFFICES ASSUME NEW b \in 1 .. N + 2, NEW n \in 1 .. Len(code'[b]), code'[b][n].op = "PHI"
             PROVE  DOMAIN code'[b][n].in = Predecessors(b)'
  BY <1>1 DEF PhisOK
<1>9. CASE b \in 1 .. N /\ b # mbb
  BY <1>1, <1>6, <1>9
<1>10. CASE b = mbb
  BY <1>1, <1>7, <1>10
<1>11. CASE b = N + 1
  BY <1>1, <1>11
<1>12. CASE b = N + 2
  BY <1>1, <1>8, <1>12
<1> QED
  BY <1>9, <1>10, <1>11, <1>12

\* The exits of a block, from its code.
LEMMA ExitsOf ==
  /\ \A b : CodeExits(b) = Targets(code[b]) \cup (IF IsBarrier(code[b]) THEN {} ELSE Follower(order, b))
  /\ \A b : CodeExits(b)' = Targets(code'[b]) \cup (IF IsBarrier(code'[b]) THEN {} ELSE Follower(order', b))
BY DEF CodeExits, Targets

LEMMA ExpandedExits ==
  ASSUME CFGInv, stage = "expand", Pseudos # {}, MI.cc \in DOMAIN JumpOf,
         NEW N \in Nat, NEW up \in Seq(Insns), NEW low \in Seq(Insns), Expanded(N, up, low)
  PROVE  ExitsOK'
<1>1. /\ N = Len(code) /\ N >= 4 /\ mbb \in 1 .. N /\ mbb \notin {Pre, Nxt, Far} /\ Len(code') = N + 2
      /\ \A b \in 1 .. N : code'[b] = IF b = mbb THEN up ELSE transferred[b]
      /\ code'[N + 1] = << >> /\ code'[N + 2] = low
      /\ \A b \in 1 .. N : edges'[b] = IF b = mbb THEN {N + 1, N + 2} ELSE edges[b]
      /\ edges'[N + 1] = {N + 2} /\ edges'[N + 2] = edges[mbb]
  BY ExpandedAt
<1>2. /\ Follower(order', mbb) = {N + 1} /\ Follower(order', N + 1) = {N + 2}
      /\ Follower(order', N + 2) = Follower(order, mbb)
      /\ \A b \in 1 .. N : b # mbb => Follower(order', b) = Follower(order, b)
  BY ExpandedOrder
<1>3. \A b \in (1 .. N) \ {Nxt, Far} : CodeExits(b) = edges[b]
  BY <1>1 DEF CFGInv, ExitsOK
<1>4. ASSUME NEW b, b = mbb PROVE CodeExits(b)' = edges'[b]
  <2>1. Targets(up) = {N + 2} /\ ~IsBarrier(up)
    BY <1>1, NewInsns DEF Expanded, UpperHalf
  <2> QED
    BY <1>1, <1>2, <1>4, <2>1, ExitsOf
<1>5. CodeExits(N + 1)' = edges'[N + 1]
  <2>1. Targets(<< >>) = {} /\ ~IsBarrier(<< >>)
    BY DEF Targets, IsBarrier
  <2> QED
    BY <1>1, <1>2, <2>1, ExitsOf
<1>6. CodeExits(N + 2)' = edges'[N + 2]
  <2>1. Targets(low) = Targets(code[mbb]) /\ (IsBarrier(low) <=> IsBarrier(code[mbb]))
    BY DEF Expanded, LowerHalf
  <2>2. CodeExits(N + 2)' = CodeExits(mbb)
    BY <1>1, <1>2, <2>1, ExitsOf
  <2> QED
    BY <1>1, <1>3, <2>2
<1>7. ASSUME NEW b \in (1 .. N) \ {Nxt, Far}, b # mbb PROVE CodeExits(b)' = edges'[b]
  <2>1. PICK c \in Seq(Insns) : c = code[b] /\ BlockShape(c)
    BY <1>1, BlockAt
  <2>2. PICK d \in Seq(Insns) : d = transferred[b] /\ SameButPhis(d, c)
    BY <1>1, <2>1, Transferred
  <2>3. Targets(d) = Targets(c) /\ (IsBarrier(d) <=> IsBarrier(c))
    BY <2>1, <2>2, SameButPhisGives
  <2>4. code'[b] = d /\ edges'[b] = edges[b] /\ Follower(order', b) = Follower(order, b)
    BY <1>1, <1>2, <1>7, <2>2
  <2>5. CodeExits(b)' = CodeExits(b)
    BY <2>1, <2>3, <2>4, ExitsOf
  <2> QED
    BY <1>3, <2>4, <2>5
<1>8. \A b \in (1 .. N + 2) \ {Nxt, Far} :
        b = mbb \/ b = N + 1 \/ b = N + 2 \/ (b \in (1 .. N) \ {Nxt, Far} /\ b # mbb)
  OBVIOUS
<1>9. \A b \in (1 .. N + 2) \ {Nxt, Far} : CodeExits(b)' = edges'[b]
  BY <1>4, <1>5, <1>6, <1>7, <1>8, Zenon
<1> QED
  BY <1>1, <1>9 DEF ExitsOK

\* One expansion: what stays in BB, the empty copy0MBB, and copy1MBB, which has
\* the exits BB had.
LEMMA ExpandStep ==
  ASSUME CFGInv, Nodewise', EmitInstrWithCustomInserter
  PROVE  CFGInv'
<1>1. /\ stage = "expand" /\ Pseudos # {} /\ UNCHANGED <<prog, start, dag, lowered, pc, env>>
  BY DEF EmitInstrWithCustomInserter
<1>2. CASE MI.cc \notin DOMAIN JumpOf
  <2>1. stage' = "fatal" /\ UNCHANGED <<code, order, edges, mbb>>
    BY <1>2 DEF EmitInstrWithCustomInserter
  <2> QED
    BY <1>1, <2>1, SameCode DEF CFGInv, ExitsOK, RunOK, AtStart
<1>3. CASE MI.cc \in DOMAIN JumpOf
  <2>1. InsertDiamond
    BY <1>3 DEF EmitInstrWithCustomInserter
  <2>2. PICK N \in Nat, up \in Seq(Insns), low \in Seq(Insns) : Expanded(N, up, low)
    BY <1>1, <1>3, <2>1, Diamond
  <2>3. mbb' = N + 2 /\ stage' = "expand"
    BY <1>1, <2>1, <2>2 DEF InsertDiamond, Expanded, copy1MBB
  <2>4. BlocksOK'
    BY <1>1, <2>2, <2>3, ExpandedBlocks
  <2>5. ShapesOK'
    BY <2>2, ExpandedShapes
  <2>6. PhisOK'
    BY <1>1, <1>3, <2>2, ExpandedPhis
  <2>7. ExitsOK'
    BY <1>1, <1>3, <2>2, ExpandedExits
  <2>8. RunOK'
    <3>1. pc' = Entry /\ env' = env /\ start' = start
      BY <1>1 DEF CFGInv, RunOK
    <3>2. Len(code') = N + 2 /\ N >= 4
      BY <2>2, ExpandedAt
    <3>3. /\ Entry.blk = 2 /\ Entry.idx = 1 /\ Entry.prev = 1
          /\ Entry \in [blk : 1 .. N + 2, idx : Nat, prev : 1 .. N + 2]
      BY <3>2 DEF Entry, Pre, Body
    <3>4. Entry.idx \in 1 .. Len(code'[Entry.blk]) + 1
      <4>1. Len(code'[2]) \in Nat
        BY <2>4, <3>2 DEF BlocksOK
      <4> QED
        BY <3>3, <4>1
    <3>5. start \in [Regs -> Values] /\ env \in [Regs -> Values]
      BY DEF CFGInv, RunOK
    <3> QED
      BY <2>3, <3>1, <3>2, <3>3, <3>4, <3>5 DEF RunOK
  <2> QED
    BY <2>3, <2>4, <2>5, <2>6, <2>7, <2>8 DEF CFGInv, AtStart
<1> QED
  BY <1>2, <1>3

LEMMA ExpansionDoneStep ==
  ASSUME CFGInv, Nodewise', ExpansionDone
  PROVE  CFGInv'
<1>1. /\ stage = "expand" /\ stage' = "run" /\ UNCHANGED <<prog, start, compiled, pc, env>>
  BY DEF ExpansionDone
<1>2. UNCHANGED <<code, order, edges, mbb>>
  BY <1>1 DEF compiled
<1>3. /\ BlocksOK' /\ ShapesOK' /\ PhisOK' /\ \A b : CodeExits(b)' = CodeExits(b)
  BY <1>2, SameCode
<1>4. ExitsOK'
  BY <1>1, <1>2, <1>3 DEF CFGInv, ExitsOK
<1>5. RunOK'
  <2>1. pc = Entry /\ edges[Pre] = {Body}
    BY <1>1 DEF CFGInv, RunOK, BlocksOK
  <2>2. pc.blk \in edges[pc.prev] /\ pc.blk \notin {Pre, Nxt, Far}
    BY <2>1 DEF Entry, Pre, Body, Nxt, Far
  <2>3. pc.idx <= Len(code[pc.blk])
    <3>1. Len(code[Body]) >= 1
      <4>1. Len(code[Body]) > 0 /\ code[Body] \in Seq(Insns)
        BY DEF CFGInv, BlocksOK, Body
      <4> QED
        BY <4>1
    <3> QED
      BY <2>1, <3>1 DEF Entry
  <2> QED
    BY <1>1, <1>2, <2>2, <2>3 DEF CFGInv, RunOK
<1> QED
  BY <1>1, <1>3, <1>4, <1>5 DEF CFGInv, AtStart

-----------------------------------------------------------------------------
(***************************************************************************)
(* Execution.                                                              *)
(***************************************************************************)
LEMMA ValuesOf ==
  /\ \A v \in Int : v % WordMod \in Values
  /\ \A e \in [Regs -> Values], r \in Regs, v \in Values : [e EXCEPT ![r] = v] \in [Regs -> Values]
<1>1. ASSUME NEW v \in Int PROVE v % WordMod \in Values
  <2>1. PICK w \in Nat \ {0} : w = WordMod
    BY RegisterWidthAssumption
  <2>2. v % w \in 0 .. w - 1
    OBVIOUS
  <2> QED
    BY <2>1, <2>2 DEF Values
<1> QED
  BY <1>1

\* A PHI that an edge leads to reads a register.
LEMMA PhiReads ==
  ASSUME CFGInv, NEW q \in 1 .. Len(code), NEW b \in 1 .. Len(code), b \in edges[q],
         NEW n \in 1 .. Len(code[b]), code[b][n].op = "PHI"
  PROVE  AfterPhi(code[b][n], q, env) \in [Regs -> Values]
<1>1. code[b] \in Seq(Insns) /\ DOMAIN code = 1 .. Len(code)
  BY DEF CFGInv, BlocksOK
<1>2. PICK i \in Phis : i = code[b][n] /\ DOMAIN i.in = Predecessors(b)
  <2>1. code[b][n] \in Insns
    BY <1>1
  <2> QED
    BY <2>1, InsnKinds DEF CFGInv, PhisOK
<1>3. q \in DOMAIN i.in
  BY <1>1, <1>2 DEF Predecessors
<1>4. i.in[q] \in Regs /\ i.dst \in Regs
  <2>1. PICK Q \in SUBSET Nat : i.in \in [Q -> Regs] /\ i.dst \in Regs
    BY DEF Phis
  <2> QED
    BY <1>3, <2>1
<1>5. env \in [Regs -> Values]
  BY DEF CFGInv, RunOK
<1>6. AfterPhi(i, q, env) = [env EXCEPT ![i.dst] = env[i.in[q]]]
  BY DEF AfterPhi
<1> QED
  BY <1>2, <1>4, <1>5, <1>6, ValuesOf

\* Steps of the execution: the code stays.
LEMMA RunKeeps ==
  ASSUME CFGInv, Nodewise', stage = "run", stage' \in {"run", "halt"}, RunOK',
         UNCHANGED <<prog, start, compiled>>
  PROVE  CFGInv'
<1>1. UNCHANGED <<code, order, edges, mbb>>
  BY DEF compiled
<1>2. /\ BlocksOK' /\ ShapesOK' /\ PhisOK' /\ \A b : CodeExits(b)' = CodeExits(b)
  BY <1>1, SameCode
<1>3. ExitsOK'
  BY <1>1, <1>2 DEF CFGInv, ExitsOK
<1> QED
  BY <1>2, <1>3 DEF CFGInv, AtStart

\* Where execution is.
LEMMA RunningAt ==
  ASSUME CFGInv, stage = "run"
  PROVE  /\ pc \in [blk : 1 .. Len(code), idx : Nat, prev : 1 .. Len(code)]
         /\ pc.blk \in edges[pc.prev] /\ pc.blk \notin {Pre, Nxt, Far}
         /\ Len(code[pc.blk]) \in Nat /\ Len(code) \in Nat
         /\ InBlock => pc.idx \in 1 .. Len(code[pc.blk]) /\ Insn \in Insns
         /\ CodeExits(pc.blk) = edges[pc.blk]
         /\ ~InBlock => ~IsBarrier(code[pc.blk])
<1>1. /\ pc \in [blk : 1 .. Len(code), idx : Nat, prev : 1 .. Len(code)]
      /\ pc.idx \in 1 .. Len(code[pc.blk]) + 1
      /\ pc.blk \in edges[pc.prev] /\ pc.blk \notin {Pre, Nxt, Far}
      /\ ~InBlock => ~IsBarrier(code[pc.blk])
  <2>1. RunOK
    BY Zenon DEF CFGInv
  <2> QED
    BY <2>1, Zenon DEF RunOK, InBlock
<1>2. pc.blk \in 1 .. Len(code) /\ pc.idx \in Nat
  BY <1>1
<1>3. PICK c \in Seq(Insns) : c = code[pc.blk]
  BY <1>2, BlockAt, Zenon
<1>4. Len(code[pc.blk]) \in Nat /\ Len(code) \in Nat
  BY <1>3 DEF CFGInv, BlocksOK
<1>5. ASSUME InBlock PROVE pc.idx \in 1 .. Len(code[pc.blk]) /\ Insn \in Insns
  <2>1. pc.idx \in 1 .. Len(c)
    BY <1>1, <1>3, <1>5 DEF InBlock
  <2>2. c[pc.idx] \in Insns
    BY <2>1
  <2> QED
    BY <1>3, <2>1, <2>2 DEF Insn
<1>6. CodeExits(pc.blk) = edges[pc.blk]
  BY <1>1, <1>2 DEF CFGInv, ExitsOK
<1> QED
  BY <1>1, <1>4, <1>5, <1>6

\* The next instruction of the block.
LEMMA AdvanceStep ==
  ASSUME CFGInv, stage = "run", stage' = stage, InBlock, Insn.op # "JMP", Advance, env' \in [Regs -> Values],
         UNCHANGED <<prog, start, compiled>>
  PROVE  RunOK'
<1>1. UNCHANGED <<code, edges>>
  BY DEF compiled
<1>2. /\ pc \in [blk : 1 .. Len(code), idx : Nat, prev : 1 .. Len(code)]
      /\ pc.idx \in 1 .. Len(code[pc.blk]) /\ Len(code[pc.blk]) \in Nat
      /\ pc.blk \in edges[pc.prev] /\ pc.blk \notin {Pre, Nxt, Far}
  BY RunningAt
<1>3. /\ pc' \in [blk : 1 .. Len(code), idx : Nat, prev : 1 .. Len(code)]
      /\ pc'.blk = pc.blk /\ pc'.prev = pc.prev /\ pc'.idx = pc.idx + 1
  BY <1>2 DEF Advance
<1>4. pc'.idx \in 1 .. Len(code[pc'.blk]) + 1
  BY <1>2, <1>3
<1>5. ASSUME IsBarrier(code[pc.blk]) PROVE pc'.idx <= Len(code[pc.blk])
  <2>1. pc.idx # Len(code[pc.blk])
    BY <1>5 DEF IsBarrier, Insn
  <2> QED
    BY <1>2, <1>3, <2>1
<1>6. RunOK
  BY Zenon DEF CFGInv
<1>7. start' \in [Regs -> Values] /\ env' \in [Regs -> Values]
  <2>1. start' = start
    OBVIOUS
  <2> QED
    BY <1>6, <2>1, Zenon DEF RunOK
<1>8. IsBarrier(code[pc.blk])' => IsBarrier(code[pc.blk])
  BY <1>1, <1>3 DEF IsBarrier
<1> QED
  BY <1>1, <1>2, <1>3, <1>4, <1>5, <1>7, <1>8, Zenon DEF RunOK

\* Another block: one that an edge leads to.
LEMMA GotoStep ==
  ASSUME CFGInv, stage = "run", UNCHANGED <<prog, start, compiled>>,
         NEW b \in edges[pc.blk], Goto(b)
  PROVE  RunOK' /\ stage' \in {"run", "halt"}
<1>1. UNCHANGED <<code, edges>>
  BY DEF compiled
<1>2. /\ pc.blk \in 1 .. Len(code) /\ Len(code) \in Nat
  BY RunningAt
<1>3. b \in 2 .. Len(code)
  BY <1>2 DEF CFGInv, BlocksOK
<1>4. PICK c \in Seq(Insns) : c = code[b]
  <2>1. b \in 1 .. Len(code)
    BY <1>2, <1>3
  <2> QED
    BY <2>1, BlockAt, Zenon
<1>5. pc' = [blk |-> b, idx |-> 1, prev |-> pc.blk]
  BY DEF Goto
<1>6. /\ pc' \in [blk : 1 .. Len(code), idx : Nat, prev : 1 .. Len(code)]
      /\ pc'.blk = b /\ pc'.idx = 1 /\ pc'.prev = pc.blk /\ 1 \in 1 .. Len(code[b]) + 1
  BY <1>2, <1>3, <1>4, <1>5
<1>7. CASE b \in 1 .. 4
  <2>1. stage' = "halt" /\ env' = IF code[b] = << >> THEN env ELSE AfterPhi(code[b][1], pc.blk, env)
    BY <1>7 DEF Goto
  <2>2. env' \in [Regs -> Values]
    <3>1. CASE code[b] = << >>
      BY <2>1, <3>1 DEF CFGInv, RunOK
    <3>2. CASE code[b] # << >>
      <4>1. 1 \in 1 .. Len(code[b]) /\ Len(code[b]) > 0
        BY <1>4, <3>2
      <4>2. b \in {Body, Nxt, Far}
        BY <1>3, <1>7 DEF Body, Nxt, Far
      <4>3. code[b][1].op = "PHI"
        BY <4>1, <4>2 DEF CFGInv, BlocksOK, Phis
      <4>4. b \in 1 .. Len(code)
        BY <1>2, <1>3
      <4>5. AfterPhi(code[b][1], pc.blk, env) \in [Regs -> Values]
        BY <1>2, <4>1, <4>3, <4>4, PhiReads
      <4> QED
        BY <2>1, <3>2, <4>5
    <3> QED
      BY <3>1, <3>2
  <2> QED
    BY <1>1, <1>6, <2>1, <2>2 DEF CFGInv, RunOK
<1>8. CASE b \notin 1 .. 4
  <2>1. stage' = "run" /\ env' = env
    BY <1>8 DEF Goto
  <2>2. b \notin {Pre, Nxt, Far}
    BY <1>8 DEF Pre, Nxt, Far
  <2>3. ASSUME IsBarrier(code[b]) PROVE 1 <= Len(code[b])
    <3>1. c # << >>
      BY <1>4, <2>3 DEF IsBarrier
    <3>2. 1 <= Len(c)
      BY <3>1
    <3> QED
      BY <1>4, <3>2
  <2> QED
    BY <1>1, <1>6, <2>1, <2>2, <2>3 DEF CFGInv, RunOK
<1> QED
  BY <1>7, <1>8

LEMMA RunStep ==
  ASSUME CFGInv, Nodewise', Run
  PROVE  CFGInv'
<1>1. stage = "run" /\ UNCHANGED <<prog, start, compiled>>
  BY DEF Run, RunPhi, RunLoad, RunBranch, RunJump, FallThrough, Running
<1>2. /\ pc \in [blk : 1 .. Len(code), idx : Nat, prev : 1 .. Len(code)]
      /\ pc.blk \in edges[pc.prev] /\ Len(code) \in Nat
      /\ InBlock => pc.idx \in 1 .. Len(code[pc.blk]) /\ Insn \in Insns
      /\ CodeExits(pc.blk) = edges[pc.blk] /\ (~InBlock => ~IsBarrier(code[pc.blk]))
  BY <1>1, RunningAt
<1>3. env \in [Regs -> Values]
  BY DEF CFGInv, RunOK
<1>4. ASSUME InBlock, IsCompare(Insn) \/ Insn.op = "JMP" PROVE Insn.to \in edges[pc.blk]
  <2>1. pc.idx \in 1 .. Len(code[pc.blk])
    BY <1>2, <1>4
  <2>2. pc.idx \in DOMAIN code[pc.blk]
    <3>1. pc.blk \in 1 .. Len(code)
      BY <1>2
    <3>2. code[pc.blk] \in Seq(Insns)
      BY <3>1 DEF CFGInv, BlocksOK
    <3> QED
      BY <2>1, <3>2
  <2>3. Insn.to \in Targets(code[pc.blk])
    BY <1>4, <2>2 DEF Targets, Insn
  <2> QED
    BY <1>2, <2>3, ExitsOf
<1>5. CASE RunPhi
  <2>1. InBlock /\ Insn.op = "PHI" /\ env' = AfterPhi(Insn, pc.prev, env) /\ Advance /\ stage' = stage
    BY <1>5 DEF RunPhi
  <2>2. env' \in [Regs -> Values]
    <3>1. pc.prev \in 1 .. Len(code) /\ pc.blk \in 1 .. Len(code) /\ pc.idx \in 1 .. Len(code[pc.blk])
      BY <1>2, <2>1
    <3> QED
      BY <1>2, <2>1, <3>1, PhiReads DEF Insn
  <2> QED
    BY <1>1, <2>1, <2>2, AdvanceStep, RunKeeps
<1>6. CASE RunLoad
  <2>1. /\ InBlock /\ Insn.op = "LD_imm64" /\ Advance /\ stage' = stage
        /\ env' = [env EXCEPT ![Insn.dst] = Insn.imm % WordMod]
    BY <1>6 DEF RunLoad
  <2>2. Insn.dst \in Regs /\ Insn.imm \in Int
    BY <1>2, <2>1, InsnKinds DEF Loads
  <2>3. env' \in [Regs -> Values]
    BY <1>3, <2>1, <2>2, ValuesOf
  <2> QED
    BY <1>1, <2>1, <2>3, AdvanceStep, RunKeeps
<1>7. CASE RunBranch
  <2>1. InBlock /\ IsCompare(Insn) /\ Insn.op # "JMP"
    BY <1>7 DEF RunBranch, IsCompare
  <2>2. CASE Goto(Insn.to)
    BY <1>1, <1>4, <2>1, <2>2, GotoStep, RunKeeps
  <2>3. CASE Advance /\ UNCHANGED <<env, stage>>
    BY <1>1, <1>3, <2>1, <2>3, AdvanceStep, RunKeeps
  <2> QED
    BY <1>7, <2>2, <2>3 DEF RunBranch
<1>8. CASE RunJump
  <2>1. InBlock /\ Insn.op = "JMP" /\ Goto(Insn.to)
    BY <1>8 DEF RunJump
  <2> QED
    BY <1>1, <1>4, <2>1, GotoStep, RunKeeps
<1>9. CASE FallThrough
  <2>1. ~InBlock /\ \E b \in Follower(order, pc.blk) : Goto(b)
    BY <1>9 DEF FallThrough
  <2>2. PICK b \in Follower(order, pc.blk) : Goto(b)
    BY <2>1
  <2>3. b \in edges[pc.blk]
    BY <1>2, <2>1, <2>2, ExitsOf
  <2> QED
    BY <1>1, <2>2, <2>3, GotoStep, RunKeeps
<1> QED
  BY <1>5, <1>6, <1>7, <1>8, <1>9 DEF Run

\* The inductive invariant of compilation and execution.
THEOREM CFGInvariant == Spec => []CFGInv
<1>1. Init => CFGInv
  BY CFGInit
<1>2. ASSUME CFGInv, [Next]_vars PROVE CFGInv'
  <2>1. Nodewise'
    BY <1>2, NodewiseStep DEF CFGInv
  <2>2. CASE LowerSELECT_CC \/ LowerBR_CC
    BY <1>2, <2>1, <2>2, LowerStep
  <2>3. CASE SelectBlock
    BY <1>2, <2>1, <2>3, SelectStep
  <2>4. CASE EmitInstrWithCustomInserter
    BY <1>2, <2>1, <2>4, ExpandStep
  <2>5. CASE ExpansionDone
    BY <1>2, <2>1, <2>5, ExpansionDoneStep
  <2>6. CASE Run
    BY <1>2, <2>1, <2>6, RunStep
  <2>7. CASE UNCHANGED vars
    <3>1. UNCHANGED <<prog, start, code, order, edges, mbb, pc, env, stage>>
      BY <2>7 DEF vars
    <3> QED
      BY <1>2, <2>1, <3>1, SameCode DEF CFGInv, ExitsOK, RunOK, AtStart
  <2> QED
    BY <1>2, <2>2, <2>3, <2>4, <2>5, <2>6, <2>7 DEF Next, Compile
<1> QED
  BY <1>1, <1>2, PTL DEF Spec

\* Type correctness.
THEOREM SelectTypeCorrect == Spec => []TypeOK
<1>1. CFGInv => TypeOK
  BY CFGInvGives
<1> QED
  BY <1>1, CFGInvariant, PTL

\* Whatever the block, however many selects it has and wherever its branch
\* goes: after selection and after every expansion the CFG is what the code
\* does, and each PHI has an entry for each predecessor and no other.
THEOREM ExpansionKeepsCFG == Spec => []CFGConsistent
<1>1. CFGInv => CFGConsistent
  BY CFGInvGives
<1> QED
  BY <1>1, CFGInvariant, PTL

-----------------------------------------------------------------------------
(***************************************************************************)
(* What the source computes.                                               *)
(***************************************************************************)

\* The first m selects of p from the registers s, in e.
After1(p, s) == [s EXCEPT ![p.phi] = s[p.in]]

Evaluated(p, s, m, e) ==
  /\ DOMAIN e = 0 .. m
  /\ \A n \in 0 .. m : e[n] = IF n = 0 THEN After1(p, s) ELSE EvalSelect(e[n - 1], p.selects[n])

LEMMA EvaluationExists ==
  ASSUME NEW p, NEW s, NEW m \in Nat
  PROVE  \E e : Evaluated(p, s, m, e)
<1> DEFINE T == {n \in Nat : \E e : Evaluated(p, s, n, e)}
<1>1. 0 \in T
  <2> DEFINE e == [i \in 0 .. 0 |-> After1(p, s)]
  <2>1. \A n \in 0 .. 0 : n = 0
    OBVIOUS
  <2>2. Evaluated(p, s, 0, e)
    BY <2>1 DEF Evaluated
  <2> QED
    BY <2>2
<1>2. ASSUME NEW n \in Nat, n \in T PROVE n + 1 \in T
  <2>1. PICK e : Evaluated(p, s, n, e)
    BY <1>2
  <2> DEFINE f == [i \in 0 .. n + 1 |-> IF i \in 0 .. n THEN e[i] ELSE EvalSelect(e[n], p.selects[n + 1])]
  <2>2. ASSUME NEW i \in 0 .. n + 1
        PROVE  f[i] = IF i = 0 THEN After1(p, s) ELSE EvalSelect(f[i - 1], p.selects[i])
    <3>1. CASE i \in 0 .. n
      <4>1. f[i] = e[i] /\ (i # 0 => f[i - 1] = e[i - 1])
        BY <3>1
      <4>2. e[i] = IF i = 0 THEN After1(p, s) ELSE EvalSelect(e[i - 1], p.selects[i])
        BY <2>1, <3>1 DEF Evaluated
      <4> QED
        BY <4>1, <4>2
    <3>2. CASE i = n + 1
      <4>1. f[i] = EvalSelect(e[n], p.selects[n + 1]) /\ f[i - 1] = e[n] /\ i # 0
        BY <3>2
      <4> QED
        BY <3>2, <4>1
    <3> QED
      BY <3>1, <3>2
  <2>3. Evaluated(p, s, n + 1, f)
    <3>1. DOMAIN f = 0 .. n + 1
      OBVIOUS
    <3> HIDE DEF f
    <3> QED
      BY <2>2, <3>1 DEF Evaluated
  <2> HIDE DEF f
  <2> QED
    BY <2>3
<1> HIDE DEF T
<1>3. Nat \subseteq T
  BY <1>1, <1>2, SetInduction
<1> QED
  BY <1>3 DEF T

\* The recursion of RegsAfter has a solution.
LEMMA RegsAfterEvaluated ==
  ASSUME prog \in Programs
  PROVE  Evaluated(prog, start, Len(prog.selects), RegsAfter)
<1>1. PICK m \in Nat : m = Len(prog.selects)
  BY SourceNodes
<1> DEFINE Eq(f) == f = [n \in 0 .. Len(prog.selects) |->
                           IF n = 0 THEN [start EXCEPT ![prog.phi] = start[prog.in]]
                           ELSE EvalSelect(f[n - 1], prog.selects[n])]
           r == CHOOSE f : Eq(f)
<1>2. \E f : Eq(f)
  <2>1. PICK e : Evaluated(prog, start, m, e)
    BY EvaluationExists
  <2> DEFINE f == [n \in 0 .. m |-> e[n]]
  <2>2. f = [n \in 0 .. m |-> IF n = 0 THEN After1(prog, start) ELSE EvalSelect(f[n - 1], prog.selects[n])]
    <3>1. ASSUME NEW n \in 0 .. m
          PROVE  f[n] = IF n = 0 THEN After1(prog, start) ELSE EvalSelect(f[n - 1], prog.selects[n])
      <4>1. f[n] = e[n] /\ (n # 0 => f[n - 1] = e[n - 1])
        OBVIOUS
      <4>2. e[n] = IF n = 0 THEN After1(prog, start) ELSE EvalSelect(e[n - 1], prog.selects[n])
        BY <2>1 DEF Evaluated
      <4> QED
        BY <4>1, <4>2
    <3> QED
      BY <3>1
  <2>3. Eq(f)
    BY <1>1, <2>2 DEF After1
  <2> QED
    BY <2>3
<1>3. Eq(r)
  BY <1>2
<1>4. RegsAfter = r
  BY DEF RegsAfter
<1> HIDE DEF r
<1>5. RegsAfter = [n \in 0 .. m |-> IF n = 0 THEN After1(prog, start)
                                   ELSE EvalSelect(RegsAfter[n - 1], prog.selects[n])]
  BY <1>1, <1>3, <1>4 DEF After1
<1> QED
  BY <1>1, <1>5 DEF Evaluated

\* Operands, and what a lowered node has of its source.
OwnRegs == Regs \ TempRegs

LEMMA SourceNames ==
  ASSUME NEW q \in Programs
  PROVE  /\ q.in \in OwnRegs /\ q.out \in OwnRegs /\ q.phi \in OwnRegs
         /\ q.target \in {Body, Far}
         /\ q.layout \in {<<Pre, Body, Nxt, Far>>, <<Pre, Body, Far, Nxt>>}
         /\ Len(q.selects) \in Nat
         /\ \A n \in 1 .. Len(q.selects) :
              q.selects[n] \in SelectNode /\ NodeRegs(q.selects[n]) \cap TempRegs = {}
                /\ q.selects[n].dst \in OwnRegs /\ q.selects[n].t \in OwnRegs /\ q.selects[n].f \in OwnRegs
         /\ q.br \in BranchNode /\ NodeRegs(q.br) \cap TempRegs = {}
         /\ \A n \in 1 .. Len(q.selects) + 1 : Temps[n] \in Regs /\ Temps[n] \in TempRegs
<1>1. /\ q \in Program /\ NamedRegs(q) \cap TempRegs = {}
      /\ Len(q.selects) < Len(Temps) /\ Temps \in Seq(Regs)
  BY ProgramsAssumption
<1>2. /\ q.in \in Regs /\ q.out \in Regs /\ q.phi \in Regs
      /\ q.target \in {Body, Far}
      /\ q.layout \in {<<Pre, Body, Nxt, Far>>, <<Pre, Body, Far, Nxt>>}
      /\ q.selects \in Seq(SelectNode) /\ q.br \in BranchNode
  BY <1>1 DEF Program
<1>3. q.in \in NamedRegs(q) /\ q.out \in NamedRegs(q) /\ q.phi \in NamedRegs(q)
      /\ NodeRegs(q.br) \subseteq NamedRegs(q)
  BY DEF NamedRegs
<1>4. PICK L \in Nat : L = Len(q.selects) /\ DOMAIN q.selects = 1 .. L
  BY <1>2
<1>5. ASSUME NEW n \in 1 .. L
      PROVE  /\ q.selects[n] \in SelectNode /\ NodeRegs(q.selects[n]) \subseteq NamedRegs(q)
             /\ {q.selects[n].dst, q.selects[n].t, q.selects[n].f} \subseteq NamedRegs(q)
  <2>1. q.selects[n] \in SelectNode
    BY <1>2, <1>4
  <2>2. PICK s : s = q.selects[n] /\ s \in {q.selects[m] : m \in DOMAIN q.selects}
    BY <1>4
  <2>3. NodeRegs(s) \cup {s.dst, s.t, s.f} \subseteq NamedRegs(q)
    BY <2>2 DEF NamedRegs
  <2> QED
    BY <2>1, <2>2, <2>3
<1>6. ASSUME NEW n \in 1 .. L
      PROVE  q.selects[n].dst \in Regs /\ q.selects[n].t \in Regs /\ q.selects[n].f \in Regs
  BY <1>5 DEF SelectNode
<1>7. ASSUME NEW n \in 1 .. L + 1 PROVE Temps[n] \in Regs /\ Temps[n] \in TempRegs
  <2>1. n \in DOMAIN Temps
    BY <1>1, <1>4
  <2> QED
    BY <1>1, <2>1 DEF TempRegs
<1> QED
  BY <1>1, <1>2, <1>3, <1>4, <1>5, <1>6, <1>7 DEF OwnRegs

\* An operand that names no register of selection's.
OwnOperand(o) == o \in Operand /\ o.reg \notin TempRegs

Lowered == Nodewise /\ lowered = Len(dag)

LEMMA LoweredSource ==
  ASSUME Lowered, NEW n \in 1 .. Len(dag)
  PROVE  /\ Len(dag) = Len(prog.selects) + 1 /\ Len(dag) \in Nat
         /\ dag[n] = NegateCC(Source(n)) /\ Source(n) \in Nodes
         /\ OwnOperand(Source(n).lhs) /\ OwnOperand(Source(n).rhs)
         /\ ~(IsConst(Source(n).lhs) /\ IsConst(Source(n).rhs))
         /\ n < Len(dag) => Source(n) = prog.selects[n] /\ Source(n) \in SelectNode
         /\ n = Len(dag) => Source(n) = prog.br /\ Source(n) \in BranchNode
<1>1. prog \in Programs /\ lowered = Len(dag) /\ Len(dag) = Len(prog.selects) + 1
      /\ \A m \in 1 .. lowered : dag[m] = NegateCC(Source(m))
  BY DEF Lowered, Nodewise
<1>2. PICK L \in Nat : L = Len(prog.selects) /\ Len(dag) = L + 1
  BY <1>1, SourceNodes
<1>3. prog.selects \in Seq(SelectNode)
  BY <1>1, ProgramsAssumption DEF Program
<1>4. CASE n < Len(dag)
  <2>1. Source(n) = prog.selects[n] /\ n \in 1 .. L
    BY <1>2, <1>3, <1>4 DEF Source
  <2>2. PICK s \in SelectNode : s = Source(n) /\ NodeRegs(s) \cap TempRegs = {}
    BY <1>1, <1>2, <2>1, SourceNames
  <2>3. s.lhs \in Operand /\ s.rhs \in Operand /\ ~(IsConst(s.lhs) /\ IsConst(s.rhs))
    BY DEF SelectNode
  <2>4. s.lhs.reg \notin TempRegs /\ s.rhs.reg \notin TempRegs
    BY <2>2 DEF NodeRegs
  <2>5. s \in Nodes
    BY DEF Nodes
  <2> QED
    BY <1>1, <1>2, <1>4, <2>1, <2>2, <2>3, <2>4, <2>5 DEF OwnOperand
<1>5. CASE n = Len(dag)
  <2>1. Source(n) = prog.br
    BY <1>2, <1>3, <1>5 DEF Source
  <2>2. PICK s \in BranchNode : s = Source(n) /\ NodeRegs(s) \cap TempRegs = {}
    BY <1>1, <1>2, <2>1, SourceNames
  <2>3. s.lhs \in Operand /\ s.rhs \in Operand /\ ~(IsConst(s.lhs) /\ IsConst(s.rhs))
    BY DEF BranchNode
  <2>4. s.lhs.reg \notin TempRegs /\ s.rhs.reg \notin TempRegs
    BY <2>2 DEF NodeRegs
  <2>5. s \in Nodes
    BY DEF Nodes
  <2> QED
    BY <1>1, <1>2, <1>5, <2>1, <2>2, <2>3, <2>4, <2>5 DEF OwnOperand
<1> QED
  BY <1>2, <1>4, <1>5

\* The operands of the lowered node are those of its source, and so is the rest.
LEMMA LoweredOperands ==
  ASSUME Lowered, NEW n \in 1 .. Len(dag)
  PROVE  /\ OwnOperand(dag[n].lhs) /\ OwnOperand(dag[n].rhs)
         /\ ~(IsConst(dag[n].lhs) /\ IsConst(dag[n].rhs))
         /\ n < Len(dag) =>
              dag[n].dst = Source(n).dst /\ dag[n].t = Source(n).t /\ dag[n].f = Source(n).f
<1>1. PICK s \in Nodes : s = Source(n) /\ dag[n] = NegateCC(s)
  BY LoweredSource
<1>2. CASE s.cc \in DOMAIN Swapped
  <2>1. dag[n].lhs = s.rhs /\ dag[n].rhs = s.lhs
    BY <1>1, <1>2, NodeShape
  <2>2. ASSUME n < Len(dag) PROVE dag[n].dst = s.dst /\ dag[n].t = s.t /\ dag[n].f = s.f
    <3>1. s \in SelectNode
      BY <1>1, <2>2, LoweredSource
    <3>2. s \in [cc : Conds, lhs : Operand, rhs : Operand, dst : Regs, t : Regs, f : Regs]
      BY <3>1 DEF SelectNode
    <3> QED
      BY <1>1, <1>2, <3>2 DEF NegateCC
  <2> QED
    BY <1>1, <2>1, <2>2, LoweredSource
<1>3. CASE s.cc \notin DOMAIN Swapped
  <2>1. dag[n] = s
    BY <1>1, <1>3 DEF NegateCC
  <2> QED
    BY <1>1, <2>1, LoweredSource
<1> QED
  BY <1>2, <1>3

\* The source's registers stay in their range.
LEMMA ValueType ==
  ASSUME NEW o \in Operand, NEW e \in [Regs -> Values]
  PROVE  Value(o, e) \in Values
<1>1. CASE IsConst(o)
  BY <1>1, ValuesOf DEF Value, Operand
<1>2. CASE ~IsConst(o)
  BY <1>2 DEF Value, Operand, IsConst
<1> QED
  BY <1>1, <1>2

LEMMA EvalSelectType ==
  ASSUME NEW e \in [Regs -> Values], NEW s, s.dst \in Regs, s.t \in Regs, s.f \in Regs
  PROVE  EvalSelect(e, s) \in [Regs -> Values]
<1>1. (IF Holds(s.cc, Value(s.lhs, e), Value(s.rhs, e)) THEN e[s.t] ELSE e[s.f]) \in Values
  BY Zenon
<1> QED
  BY <1>1 DEF EvalSelect

LEMMA RegsAfterType ==
  ASSUME prog \in Programs, start \in [Regs -> Values]
  PROVE  \A n \in 0 .. Len(prog.selects) : RegsAfter[n] \in [Regs -> Values]
<1> DEFINE T == {n \in Nat : n <= Len(prog.selects) => RegsAfter[n] \in [Regs -> Values]}
<1>1. PICK L \in Nat : L = Len(prog.selects)
  BY SourceNodes
<1>2. Evaluated(prog, start, L, RegsAfter)
  BY <1>1, RegsAfterEvaluated
<1>3. prog.phi \in Regs /\ prog.in \in Regs
  BY SourceNames DEF OwnRegs
<1>4. 0 \in T
  <2>1. RegsAfter[0] = [start EXCEPT ![prog.phi] = start[prog.in]]
    BY <1>2 DEF Evaluated, After1
  <2> QED
    BY <1>3, <2>1
<1>5. ASSUME NEW n \in Nat, n \in T PROVE n + 1 \in T
  <2>1. CASE n + 1 <= L
    <3>1. n + 1 \in 0 .. L /\ n + 1 \in 1 .. L /\ n <= L /\ n + 1 # 0 /\ (n + 1) - 1 = n
      BY <2>1
    <3>2. RegsAfter[n + 1] = EvalSelect(RegsAfter[n], prog.selects[n + 1])
      BY <1>2, <3>1 DEF Evaluated
    <3>3. RegsAfter[n] \in [Regs -> Values]
      BY <1>1, <1>5, <3>1
    <3>4. prog.selects[n + 1].dst \in Regs /\ prog.selects[n + 1].t \in Regs /\ prog.selects[n + 1].f \in Regs
      BY <1>1, <3>1, SourceNames DEF OwnRegs
    <3> QED
      BY <1>1, <3>2, <3>3, <3>4, EvalSelectType
  <2>2. CASE ~(n + 1 <= L)
    BY <1>1, <2>2
  <2> QED
    BY <2>1, <2>2
<1> HIDE DEF T
<1>6. Nat \subseteq T
  BY <1>4, <1>5, SetInduction
<1> QED
  BY <1>1, <1>6 DEF T

\* Registers as after n selects of the source, but for selection's own; and
\* whether the condition of the n-th node holds there.
Agree(e, n) == \A r \in OwnRegs : e[r] = RegsAfter[n][r]

Met(n) == Holds(Source(n).cc, Value(Source(n).lhs, RegsAfter[n - 1]), Value(Source(n).rhs, RegsAfter[n - 1]))

LEMMA ValueAgrees ==
  ASSUME NEW o, OwnOperand(o), NEW e, NEW n, Agree(e, n)
  PROVE  Value(o, e) = Value(o, RegsAfter[n])
<1>1. CASE IsConst(o)
  BY <1>1 DEF Value
<1>2. CASE ~IsConst(o)
  <2>1. o.reg \in OwnRegs
    BY <1>2 DEF OwnOperand, Operand, OwnRegs, IsConst
  <2> QED
    BY <1>2, <2>1 DEF Value, Agree
<1> QED
  BY <1>1, <1>2

\* The lowered comparison has a jump, taken when the source's condition holds.
LEMMA TakenWhenMet ==
  ASSUME Lowered, start \in [Regs -> Values], NEW n \in 1 .. Len(dag),
         NEW e \in [Regs -> Values], Agree(e, n - 1)
  PROVE  /\ dag[n].cc \in DOMAIN JumpOf
         /\ Taken(JumpOf[dag[n].cc], Value(dag[n].lhs, e), Value(dag[n].rhs, e)) = Met(n)
<1>1. PICK s \in Nodes : s = Source(n) /\ OwnOperand(s.lhs) /\ OwnOperand(s.rhs)
  BY LoweredSource
<1>2. ComparesAs(dag[n], s)
  <2>1. LoweredFaithfully /\ n \in 1 .. lowered
    BY NodewiseFaithful DEF Lowered
  <2> QED
    BY <1>1, <2>1 DEF LoweredFaithfully
<1> DEFINE v == [o \in {s.lhs, s.rhs} |-> Value(o, e)]
<1>3. v \in [{s.lhs, s.rhs} -> Values]
  <2>1. \A o \in {s.lhs, s.rhs} : Value(o, e) \in Values
    BY <1>1, ValueType DEF OwnOperand
  <2> QED
    BY <2>1
<1>4. Taken(JumpOf[dag[n].cc], v[dag[n].lhs], v[dag[n].rhs]) = Holds(s.cc, v[s.lhs], v[s.rhs])
  BY <1>2, <1>3, Zenon DEF ComparesAs
<1>5. dag[n].cc \in DOMAIN JumpOf /\ dag[n].lhs \in {s.lhs, s.rhs} /\ dag[n].rhs \in {s.lhs, s.rhs}
  <2>1. {dag[n].lhs, dag[n].rhs} = {s.lhs, s.rhs}
    BY <1>2 DEF ComparesAs
  <2> QED
    BY <1>2, <2>1 DEF ComparesAs
<1>6. /\ v[dag[n].lhs] = Value(dag[n].lhs, e) /\ v[dag[n].rhs] = Value(dag[n].rhs, e)
      /\ v[s.lhs] = Value(s.lhs, e) /\ v[s.rhs] = Value(s.rhs, e)
  BY <1>5
<1> HIDE DEF v
<1>7. Value(s.lhs, e) = Value(s.lhs, RegsAfter[n - 1]) /\ Value(s.rhs, e) = Value(s.rhs, RegsAfter[n - 1])
  BY <1>1, ValueAgrees
<1>8. Met(n) = Holds(s.cc, Value(s.lhs, e), Value(s.rhs, e))
  BY <1>1, <1>7 DEF Met
<1> QED
  BY <1>4, <1>5, <1>6, <1>8

\* A select in the source.
LEMMA NextRegs ==
  ASSUME Lowered, start \in [Regs -> Values], NEW n \in 1 .. Len(dag) - 1
  PROVE  LET s == Source(n)
         IN  /\ s.dst \in OwnRegs /\ s.t \in OwnRegs /\ s.f \in OwnRegs
             /\ RegsAfter[n] = [RegsAfter[n - 1] EXCEPT ![s.dst] =
                                  IF Met(n) THEN RegsAfter[n - 1][s.t] ELSE RegsAfter[n - 1][s.f]]
<1>1. PICK L \in Nat : L = Len(prog.selects) /\ Len(dag) = L + 1 /\ prog \in Programs
  BY SourceNodes DEF Lowered, Nodewise
<1>2. n \in 1 .. L /\ n \in 0 .. L /\ n # 0 /\ n \in 1 .. Len(dag) /\ n < Len(dag)
  BY <1>1
<1>3. Source(n) = prog.selects[n]
  BY <1>2, LoweredSource
<1>4. RegsAfter[n] = EvalSelect(RegsAfter[n - 1], prog.selects[n])
  BY <1>1, <1>2, RegsAfterEvaluated DEF Evaluated
<1>5. prog.selects[n].dst \in OwnRegs /\ prog.selects[n].t \in OwnRegs /\ prog.selects[n].f \in OwnRegs
  BY <1>1, <1>2, SourceNames
<1> QED
  BY <1>3, <1>4, <1>5 DEF EvalSelect, Met

\* The registers at the entry of the block, after its PHI.
LEMMA FirstRegs ==
  ASSUME prog \in Programs
  PROVE  RegsAfter[0] = [start EXCEPT ![prog.phi] = start[prog.in]]
<1>1. Evaluated(prog, start, Len(prog.selects), RegsAfter) /\ 0 \in 0 .. Len(prog.selects)
  BY RegsAfterEvaluated, SourceNodes
<1>2. RegsAfter[0] = After1(prog, start)
  BY <1>1 DEF Evaluated
<1> QED
  BY <1>2 DEF After1

-----------------------------------------------------------------------------
(***************************************************************************)
(* The machine instructions of a node: at most one load, then a pseudo or  *)
(* a jump that reads what the node compares.                               *)
(***************************************************************************)
Piece(n) == IF n < Len(dag) THEN SelectedSelect(n) ELSE SelectedBranch(prog.target)

Reads(x, n, e) ==
  Compared(x.lhs, e) = Value(dag[n].lhs, e) /\ Compared(x.rhs, e) = Value(dag[n].rhs, e)

Fits(P, n, x) ==
  /\ P \in Seq(Insns) /\ Len(P) \in {1, 2} /\ P[Len(P)] = x
  /\ Len(P) = 1 => \A e : Reads(x, n, e)
  /\ Len(P) = 2 => /\ P[1] \in Loads /\ P[1].dst = Temps[n]
                   /\ \A e : e[Temps[n]] = P[1].imm % WordMod => Reads(x, n, e)

\* An operand in a register is compared with its value,
LEMMA RegCompared ==
  ASSUME NEW o, ~IsConst(o), NEW e
  PROVE  Compared(o, e) = Value(o, e)
BY DEF Compared, Value

LEMMA InRegReads ==
  ASSUME NEW o \in Operand, NEW n, Temps[n] \in Regs, NEW e,
         IsConst(o) => e[Temps[n]] = o.imm % WordMod
  PROVE  Compared(InReg(o, n), e) = Value(o, e)
<1>1. CASE IsConst(o)
  <2>1. InReg(o, n).reg = Temps[n] /\ Temps[n] # NoReg
    BY <1>1, ProgramsAssumption DEF InReg
  <2> QED
    BY <1>1, <2>1 DEF Compared, Value, IsConst
<1>2. CASE ~IsConst(o)
  BY <1>2, RegCompared DEF InReg
<1> QED
  BY <1>1, <1>2

\* and so is a constant that fits the field of an immediate.
LEMMA FieldKeeps ==
  ASSUME NEW n \in Int, immSExt32(n)
  PROVE  Field(n) = n
<1>1. PICK m \in Nat \ {0} : m = ImmMod /\ -m <= 2 * n /\ 2 * n < m
  BY RegisterWidthAssumption DEF immSExt32
<1>2. n % m = IF 0 <= n THEN n ELSE n + m
  <2>1. ASSUME NEW q \in Int, NEW r \in 0 .. m - 1, n = (m * q) + r PROVE n % m = r
    BY <2>1
  <2>2. CASE 0 <= n
    <3>1. n \in 0 .. m - 1 /\ n = (m * 0) + n
      BY <1>1, <2>2
    <3> QED
      BY <2>1, <2>2, <3>1
  <2>3. CASE n < 0
    <3>1. n + m \in 0 .. m - 1 /\ n = (m * (-1)) + (n + m)
      BY <1>1, <2>3
    <3> QED
      BY <2>1, <2>3, <3>1
  <2> QED
    BY <2>2, <2>3
<1>3. Field(n) = IF 2 * (n % m) < m THEN n % m ELSE (n % m) - m
  BY <1>1 DEF Field
<1> QED
  BY <1>1, <1>2, <1>3

LEMMA PairOf ==
  ASSUME NEW S, NEW a \in S, NEW b \in S
  PROVE  \E P \in Seq(S) : P = <<a>> \o <<b>> /\ Len(P) = 2 /\ P[1] = a /\ P[2] = b
<1>1. PICK s \in Seq(S) : s = <<a>> /\ Len(s) = 1 /\ s[1] = a
  BY Singleton
<1>2. PICK P \in Seq(S) : /\ P = s \o <<b>> /\ Len(P) = Len(s) + 1
                          /\ \A j \in 1 .. Len(s) : P[j] = s[j]
                          /\ P[Len(s) + 1] = b
  BY OneMore, Zenon
<1>3. Len(P) = 2 /\ P[1] = a /\ P[2] = b
  BY <1>1, <1>2
<1>4. P = <<a>> \o <<b>>
  BY <1>1, <1>2
<1> QED
  BY <1>3, <1>4, Zenon

LEMMA LoadsFit ==
  ASSUME Lowered, NEW n \in 1 .. Len(dag), NEW x \in Insns,
         x.lhs = InReg(dag[n].lhs, n), x.rhs = InReg(dag[n].rhs, n),
         NEW P, P = LoadOf(dag[n].lhs, n) \o LoadOf(dag[n].rhs, n) \o <<x>>
  PROVE  Fits(P, n, x)
<1>1. PICK l \in Operand, r \in Operand :
        l = dag[n].lhs /\ r = dag[n].rhs /\ ~(IsConst(l) /\ IsConst(r))
  BY LoweredOperands DEF OwnOperand
<1>2. Temps[n] \in Regs
  BY LoweredNode DEF Lowered
<1>3. ASSUME NEW o \in Operand
      PROVE  [op |-> "LD_imm64", dst |-> Temps[n], imm |-> o.imm] \in Loads
  BY <1>2 DEF Loads, Operand
<1>4. ASSUME NEW o \in Operand, IsConst(o), P = LoadOf(o, n) \o <<x>>,
             \A e : e[Temps[n]] = o.imm % WordMod => Reads(x, n, e)
      PROVE  Fits(P, n, x)
  <2>1. PICK ld \in Loads : ld = [op |-> "LD_imm64", dst |-> Temps[n], imm |-> o.imm]
    BY <1>3
  <2>2. LoadOf(o, n) = <<ld>> /\ ld.dst = Temps[n] /\ ld.imm = o.imm
    BY <1>4, <2>1 DEF LoadOf
  <2>3. ld \in Insns
    BY DEF Insns, Straight
  <2>4. PICK Q \in Seq(Insns) : Q = <<ld>> \o <<x>> /\ Len(Q) = 2 /\ Q[1] = ld /\ Q[2] = x
    BY <2>3, PairOf
  <2>5. P = Q
    BY <1>4, <2>2, <2>4
  <2>6. Len(Q) \in {1, 2} /\ Q[Len(Q)] = x /\ Len(Q) # 1
    BY <2>4
  <2>7. Q[1] \in Loads /\ Q[1].dst = Temps[n] /\ \A e : e[Temps[n]] = Q[1].imm % WordMod => Reads(x, n, e)
    BY <1>4, <2>2, <2>4
  <2>8. Fits(Q, n, x)
    BY <2>6, <2>7 DEF Fits
  <2> QED
    BY <2>5, <2>8
<1>5. ASSUME NEW e, IsConst(l) => e[Temps[n]] = l.imm % WordMod, IsConst(r) => e[Temps[n]] = r.imm % WordMod
      PROVE  Reads(x, n, e)
  BY <1>1, <1>2, <1>5, InRegReads DEF Reads
<1>6. PICK ll, lr : ll = LoadOf(l, n) /\ lr = LoadOf(r, n) /\ P = ll \o lr \o <<x>>
  BY <1>1
<1>7. ll \in Seq(Loads) /\ lr \in Seq(Loads)
  BY <1>2, <1>6, OperandShape
<1>8. CASE IsConst(l)
  <2>1. lr = << >> /\ ~IsConst(r)
    BY <1>1, <1>6, <1>8 DEF LoadOf
  <2>2. ll \o lr = ll
    BY <1>7, <2>1
  <2> QED
    BY <1>4, <1>5, <1>6, <1>8, <2>1, <2>2
<1>9. CASE IsConst(r)
  <2>1. ll = << >> /\ ~IsConst(l)
    BY <1>1, <1>6, <1>9 DEF LoadOf
  <2>2. ll \o lr = lr
    BY <1>7, <2>1
  <2> QED
    BY <1>4, <1>5, <1>6, <1>9, <2>1, <2>2
<1>10. CASE ~IsConst(l) /\ ~IsConst(r)
  <2>1. ll = << >> /\ lr = << >>
    BY <1>6, <1>10 DEF LoadOf
  <2>2. PICK Q \in Seq(Insns) : Q = <<x>> /\ Len(Q) = 1 /\ Q[1] = x
    BY Singleton
  <2>3. ll \o lr = << >> /\ << >> \o Q = Q
    BY <1>7, <2>1
  <2>4. P = Q
    BY <1>6, <2>1, <2>2, <2>3
  <2>5. Fits(Q, n, x)
    BY <1>5, <1>10, <2>2 DEF Fits
  <2> QED
    BY <2>4, <2>5
<1> QED
  BY <1>8, <1>9, <1>10

\* The last instruction of a node's piece.
Ending(x, n) ==
  IF n < Len(dag)
  THEN x \in SelectMIs /\ x.cc = dag[n].cc /\ x.dst = dag[n].dst /\ x.t = dag[n].t /\ x.f = dag[n].f
  ELSE x \in Jumps /\ x.op = JumpOf[dag[n].cc] /\ x.to = prog.target

LEMMA PieceShape ==
  ASSUME Lowered, start \in [Regs -> Values], NEW n \in 1 .. Len(dag)
  PROVE  \E x : Fits(Piece(n), n, x) /\ Ending(x, n)
<1>1. /\ dag[n].cc \in Conds /\ dag[n].lhs \in Operand /\ dag[n].rhs \in Operand /\ Temps[n] \in Regs
      /\ n < Len(dag) => dag[n].dst \in Regs /\ dag[n].t \in Regs /\ dag[n].f \in Regs
      /\ n = Len(dag) => dag[n] \in [cc : Conds, lhs : Operand, rhs : Operand]
  BY LoweredNode DEF Lowered
<1>2. InReg(dag[n].lhs, n) \in Operand /\ InReg(dag[n].rhs, n) \in Operand
  BY <1>1, OperandShape
<1>3. dag[n].cc \in DOMAIN JumpOf
  <2>1. LoweredFaithfully /\ n \in 1 .. lowered
    BY NodewiseFaithful DEF Lowered
  <2> QED
    BY <2>1 DEF LoweredFaithfully, ComparesAs
<1>4. Len(dag) \in Nat
  BY LoweredSource
<1>5. CASE n < Len(dag)
  <2>1. PICK x : x = [op |-> "Select", cc |-> dag[n].cc, lhs |-> InReg(dag[n].lhs, n),
                      rhs |-> InReg(dag[n].rhs, n),
                      dst |-> dag[n].dst, t |-> dag[n].t, f |-> dag[n].f]
    OBVIOUS
  <2>2. x \in SelectMIs /\ Ending(x, n) /\ x.lhs = InReg(dag[n].lhs, n) /\ x.rhs = InReg(dag[n].rhs, n)
    BY <1>1, <1>2, <1>5, <2>1 DEF SelectMIs, Ending
  <2>3. x \in Insns
    BY <2>2 DEF Insns, Straight
  <2>4. Piece(n) = LoadOf(dag[n].lhs, n) \o LoadOf(dag[n].rhs, n) \o <<x>>
    BY <1>5, <2>1 DEF Piece, SelectedSelect
  <2> QED
    BY <2>2, <2>3, <2>4, LoadsFit
<1>6. CASE n = Len(dag)
  <2>1. prog.target \in Nat
    BY SourceNames DEF Lowered, Nodewise, Body, Far
  <2>2. CASE IsConst(dag[n].rhs) /\ immSExt32(dag[n].rhs.imm)
    <3>1. PICK x : x = Jump(dag[n], prog.target)
      OBVIOUS
    <3>2. /\ x \in Jumps /\ x.op = JumpOf[dag[n].cc] /\ x.to = prog.target
          /\ x.lhs = dag[n].lhs /\ x.rhs = dag[n].rhs
      <4>1. x \in Jumps
        BY <1>1, <1>3, <2>1, <3>1, JumpShape
      <4> QED
        BY <3>1, <4>1 DEF Jump
    <3>3. x \in Insns
      BY <3>2 DEF Insns
    <3>4. Piece(n) = <<x>>
      BY <1>6, <2>2, <3>1 DEF Piece, SelectedBranch
    <3>5. PICK Q \in Seq(Insns) : Q = <<x>> /\ Len(Q) = 1 /\ Q[1] = x
      BY <3>3, Singleton
    <3>6. ASSUME NEW e PROVE Reads(x, n, e)
      <4>1. ~IsConst(dag[n].lhs) /\ dag[n].rhs.imm \in Int
        BY <1>1, <2>2, LoweredOperands DEF Operand
      <4>2. Field(dag[n].rhs.imm) = dag[n].rhs.imm
        BY <2>2, <4>1, FieldKeeps
      <4>3. Compared(dag[n].rhs, e) = Value(dag[n].rhs, e)
        BY <2>2, <4>2 DEF Compared, Value
      <4>4. Compared(dag[n].lhs, e) = Value(dag[n].lhs, e)
        BY <4>1, RegCompared
      <4> QED
        BY <3>2, <4>3, <4>4 DEF Reads
    <3>7. Fits(Q, n, x)
      BY <3>5, <3>6 DEF Fits
    <3>8. Ending(x, n)
      BY <1>6, <3>2 DEF Ending
    <3> QED
      BY <3>4, <3>5, <3>7, <3>8
  <2>3. CASE ~(IsConst(dag[n].rhs) /\ immSExt32(dag[n].rhs.imm))
    <3> DEFINE rr == [dag[n] EXCEPT !.lhs = InReg(@, n), !.rhs = InReg(@, n)]
    <3>1. rr.cc = dag[n].cc /\ rr.lhs = InReg(dag[n].lhs, n) /\ rr.rhs = InReg(dag[n].rhs, n)
      BY <1>1, <1>6
    <3>2. Piece(n) = LoadOf(dag[n].lhs, n) \o LoadOf(dag[n].rhs, n) \o <<Jump(rr, prog.target)>>
      <4>1. ~(n < Len(dag))
        BY <1>4, <1>6
      <4>2. Piece(n) = SelectedBranch(prog.target)
        BY <4>1, Zenon DEF Piece
      <4>3. SelectedBranch(prog.target) = LoadOf(dag[n].lhs, n) \o LoadOf(dag[n].rhs, n) \o <<Jump(rr, prog.target)>>
        BY <1>6, <2>3, Zenon DEF SelectedBranch
      <4> QED
        BY <4>2, <4>3, Zenon
    <3> HIDE DEF rr
    <3>3. PICK x : x = Jump(rr, prog.target)
      OBVIOUS
    <3>4. /\ x \in Jumps /\ x.op = JumpOf[dag[n].cc] /\ x.to = prog.target
          /\ x.lhs = InReg(dag[n].lhs, n) /\ x.rhs = InReg(dag[n].rhs, n)
      <4>1. x \in Jumps
        BY <1>2, <1>3, <2>1, <3>1, <3>3, JumpShape
      <4> QED
        BY <3>1, <3>3, <4>1 DEF Jump
    <3>5. x \in Insns /\ Ending(x, n)
      BY <1>6, <3>4 DEF Insns, Ending
    <3> QED
      BY <3>2, <3>3, <3>4, <3>5, LoadsFit
  <2> QED
    BY <2>2, <2>3
<1> QED
  BY <1>4, <1>5, <1>6

\* The instructions of the block behind its PHI, and the place among them where
\* those of each select end.
Parts   == [n \in 1 .. Len(dag) - 1 |-> SelectedSelect(n)]
Flat    == FlattenSeq(Parts)
Text    == Flat \o SelectedBranch(prog.target) \o FinalJump
PartEnd == CHOOSE b : Ends(Flat, Parts, b)

ToNext == [op |-> "JMP", to |-> Nxt]

InText(n) ==
  /\ PartEnd[n - 1] \in Nat /\ PartEnd[n - 1] + Len(Piece(n)) <= Len(Text)
  /\ \A j \in 1 .. Len(Piece(n)) : Text[PartEnd[n - 1] + j] = Piece(n)[j]
  /\ n < Len(dag) => PartEnd[n] = PartEnd[n - 1] + Len(Piece(n))

TextEnd == PartEnd[Len(dag) - 1] + Len(Piece(Len(dag)))

TextShape ==
  /\ Flat \in Seq(Insns) /\ SelectedBranch(prog.target) \in Seq(Insns) /\ FinalJump \in Seq(Insns)
  /\ Text \in Seq(Insns) /\ PartEnd[0] = 0
  /\ \A n \in 1 .. Len(dag) : InText(n)
  /\ IF prog.layout[3] = Nxt THEN Len(Text) = TextEnd
     ELSE Len(Text) = TextEnd + 1 /\ Text[TextEnd + 1] = ToNext

LEMMA TextShaped ==
  ASSUME Lowered, start \in [Regs -> Values]
  PROVE  TextShape
<1>1. PICK K \in Nat : Len(dag) = K + 1
  <2>1. 1 \in 1 .. Len(dag)
    BY SourceNodes DEF Lowered, Nodewise
  <2>2. Len(dag) = Len(prog.selects) + 1 /\ Len(prog.selects) \in Nat
    BY SourceNodes DEF Lowered, Nodewise
  <2> QED
    BY <2>2
<1>2. \A n \in 1 .. K + 1 : Piece(n) \in Seq(Insns) /\ Len(Piece(n)) \in {1, 2}
  BY <1>1, PieceShape DEF Fits
<1>3. Parts = [n \in 1 .. K |-> Piece(n)]
  BY <1>1 DEF Parts, Piece
<1>4. Parts \in Seq(Seq(Insns)) /\ Len(Parts) = K /\ \A n \in 1 .. K : Parts[n] = Piece(n)
  <2>1. \A n \in 1 .. K : Piece(n) \in Seq(Insns)
    BY <1>2
  <2>2. [n \in 1 .. K |-> Piece(n)] \in Seq(Seq(Insns))
    BY <2>1, IsASeq
  <2> QED
    BY <1>3, <2>2
<1>5. Flat \in Seq(Insns)
  BY <1>4, FlattenSeqType DEF Flat
<1>6. Ends(Flat, Parts, PartEnd)
  <2>1. \E b : Ends(FlattenSeq(Parts), Parts, b)
    BY <1>4, FlattenSeqEnds
  <2> QED
    BY <2>1 DEF PartEnd, Flat
<1>7. PICK b : b = PartEnd
  OBVIOUS
<1>8. /\ b \in [0 .. K -> Nat] /\ b[0] = 0 /\ b[K] = Len(Flat)
      /\ \A n \in 1 .. K : b[n] = b[n - 1] + Len(Piece(n))
      /\ \A n \in 1 .. K : \A j \in 1 .. Len(Piece(n)) : Flat[b[n - 1] + j] = Piece(n)[j]
  BY <1>4, <1>6, <1>7 DEF Ends
<1>9. \A n \in 0 .. K : b[n] \in 0 .. Len(Flat)
  <2>1. PICK ps \in Seq(Seq(Insns)), f \in Seq(Insns) : ps = Parts /\ f = Flat
    BY <1>4, <1>5
  <2> QED
    BY <1>4, <1>6, <1>7, <2>1, EndsInOrder
<1>10. PICK br \in Seq(Insns) : br = SelectedBranch(prog.target) /\ br = Piece(K + 1) /\ Len(br) \in {1, 2}
  BY <1>1, <1>2 DEF Piece
<1>11. PICK J \in Seq(Insns) :
         /\ J = FinalJump /\ Len(J) = IF prog.layout[3] = Nxt THEN 0 ELSE 1
         /\ prog.layout[3] # Nxt => J[1] = ToNext
  <2>1. CASE prog.layout[3] = Nxt
    <3>1. PICK J \in Seq(Insns) : J = << >> /\ Len(J) = 0
      <4>1. << >> \in Seq(Insns) /\ Len(<< >>) = 0
        OBVIOUS
      <4> QED
        BY <4>1, Zenon
    <3>2. J = FinalJump
      BY <2>1, <3>1 DEF FinalJump
    <3> QED
      BY <2>1, <3>1, <3>2
  <2>2. CASE prog.layout[3] # Nxt
    <3>1. ToNext \in Insns
      BY DEF ToNext, Insns, JMPs, Nxt
    <3>2. PICK J \in Seq(Insns) : J = <<ToNext>> /\ Len(J) = 1 /\ J[1] = ToNext
      BY <3>1, Singleton
    <3>3. FinalJump = <<ToNext>>
      BY <2>2 DEF FinalJump, ToNext
    <3> QED
      BY <2>2, <3>2, <3>3
  <2> QED
    BY <2>1, <2>2
<1>12. PICK f \in Seq(Insns), F \in Nat : f = Flat /\ F = Len(f)
  BY <1>5
<1>13. PICK t \in Seq(Insns) :
         /\ t = Text /\ Len(t) = F + Len(br) + Len(J)
         /\ \A n \in 1 .. F + Len(br) + Len(J) :
              t[n] = IF n <= F THEN f[n] ELSE IF n <= F + Len(br) THEN br[n - F] ELSE J[n - (F + Len(br))]
  <2>1. Text = f \o br \o J
    BY <1>10, <1>11, <1>12 DEF Text
  <2>2. /\ f \o br \o J \in Seq(Insns)
        /\ Len(f \o br \o J) = Len(f) + Len(br) + Len(J)
        /\ \A n \in 1 .. Len(f) + Len(br) + Len(J) :
             (f \o br \o J)[n] = IF n <= Len(f) THEN f[n] ELSE IF n <= Len(f) + Len(br) THEN br[n - Len(f)]
                                  ELSE J[n - (Len(f) + Len(br))]
    BY ConcatThree
  <2> QED
    BY <1>12, <2>1, <2>2, Zenon
<1>14. ASSUME NEW n \in 1 .. K PROVE InText(n)
  <2>1. n \in 0 .. K /\ n - 1 \in 0 .. K
    OBVIOUS
  <2>2. PICK x \in Nat, L \in Nat : x = b[n - 1] /\ L = Len(Piece(n)) /\ b[n] = x + L /\ x + L <= F
    <3>1. Len(Piece(n)) \in Nat
      BY <1>2
    <3>2. b[n - 1] \in Nat /\ b[n] = b[n - 1] + Len(Piece(n)) /\ b[n] <= F
      BY <1>8, <1>9, <1>12, <2>1
    <3> QED
      BY <3>1, <3>2
  <2>3. ASSUME NEW j \in 1 .. L PROVE t[x + j] = Piece(n)[j]
    <3>0. PICK B \in Nat : B = Len(br) + Len(J) /\ F + Len(br) + Len(J) = F + B
      BY <1>10, <1>11
    <3>1. x + j \in 1 .. F + Len(br) + Len(J) /\ x + j <= F
      <4>1. x + j <= F /\ x + j \in 1 .. F + B
        BY <2>2, PlaceWithin, Zenon
      <4> QED
        BY <3>0, <4>1
    <3>2. t[x + j] = f[x + j]
      BY <1>13, <3>1
    <3> QED
      BY <1>8, <1>12, <2>2, <3>2
  <2>4. x + L <= Len(t)
    BY <1>10, <1>11, <1>13, <2>2
  <2> QED
    BY <1>7, <1>13, <2>2, <2>3, <2>4 DEF InText
<1>15. InText(K + 1)
  <2>1. b[K] = F /\ (K + 1) - 1 = K /\ F \in Nat
    BY <1>8, <1>12
  <2>2. ASSUME NEW j \in 1 .. Len(br) PROVE t[F + j] = br[j]
    <3>1. F + j \in 1 .. F + Len(br) + Len(J) /\ ~(F + j <= F) /\ F + j <= F + Len(br) /\ (F + j) - F = j
      BY <1>10, <1>11
    <3> QED
      BY <1>13, <3>1
  <2>3. F + Len(br) <= Len(t)
    BY <1>10, <1>11, <1>13
  <2>4. PartEnd[(K + 1) - 1] = F
    BY <1>7, <2>1
  <2>5. ~(K + 1 < Len(dag))
    BY <1>1
  <2> QED
    BY <1>10, <1>13, <2>1, <2>2, <2>3, <2>4, <2>5, Zenon DEF InText
<1>16. TextEnd = F + Len(br)
  BY <1>1, <1>7, <1>8, <1>10, <1>12 DEF TextEnd
<1>17. IF prog.layout[3] = Nxt THEN Len(t) = F + Len(br)
       ELSE Len(t) = F + Len(br) + 1 /\ t[F + Len(br) + 1] = ToNext
  <2>1. CASE prog.layout[3] = Nxt
    BY <1>10, <1>11, <1>13, <2>1
  <2>2. CASE prog.layout[3] # Nxt
    <3>1. PICK y \in Nat : y = F + Len(br) + 1
      BY <1>10
    <3>2. /\ Len(J) = 1 /\ y \in 1 .. F + Len(br) + Len(J)
          /\ ~(y <= F) /\ ~(y <= F + Len(br)) /\ y - (F + Len(br)) = 1
      BY <1>10, <1>11, <2>2, <3>1
    <3>3. t[y] = J[1]
      BY <1>13, <3>2
    <3> QED
      BY <1>11, <1>13, <2>2, <3>1, <3>2, <3>3
  <2> QED
    BY <2>1, <2>2
<1>18. \A n \in 1 .. K + 1 : InText(n)
  <2>1. \A n \in 1 .. K + 1 : n \in 1 .. K \/ n = K + 1
    OBVIOUS
  <2> QED
    BY <1>14, <1>15, <2>1
<1> QED
  BY <1>1, <1>5, <1>7, <1>8, <1>10, <1>11, <1>13, <1>16, <1>17, <1>18 DEF TextShape

-----------------------------------------------------------------------------
(***************************************************************************)
(* The blocks after k expansions: BB is what copy1MBB was in the last one, *)
(* and every block before it has one piece and the jump over its copy0MBB. *)
(***************************************************************************)
copy1Of(n) == IF n = 0 THEN Body ELSE 4 + 2 * n
copy0Of(n) == 3 + 2 * n

DiamondPhi(n) ==
  Phi(dag[n].dst, [q \in {copy0Of(n), copy1Of(n - 1)} |-> IF q = copy0Of(n) THEN dag[n].f ELSE dag[n].t])

\* What is left of the block that was cut at the n-th select, and the diamond.
CutAt(n) ==
  /\ Len(code[copy1Of(n - 1)]) = 1 + Len(Piece(n))
  /\ \A i \in 1 .. Len(Piece(n)) : code[copy1Of(n - 1)][1 + i] =
       IF i < Len(Piece(n)) THEN Piece(n)[i] ELSE Jump(Piece(n)[Len(Piece(n))], copy1Of(n))
  /\ code[copy0Of(n)] = << >> /\ code[copy1Of(n)][1] = DiamondPhi(n)
  /\ Follower(order, copy1Of(n - 1)) = {copy0Of(n)} /\ Follower(order, copy0Of(n)) = {copy1Of(n)}

\* What BB still has.
RestFrom(k) ==
  /\ Len(code[mbb]) = 1 + Len(Text) - PartEnd[k]
  /\ \A i \in 1 .. Len(Text) - PartEnd[k] : code[mbb][1 + i] = Text[PartEnd[k] + i]

\* What the source's PHIs read.
EntryPhi == code[Body][1].dst = prog.phi /\ code[Body][1].in[Pre] = prog.in

ExitPhis ==
  \A b \in {Nxt, prog.target} :
    code[b] # << >> /\ code[b][1].dst = prog.phi
      /\ code[b][1].in[mbb] = IF b = Far THEN prog.in ELSE prog.out

Chain(k) ==
  /\ k \in 0 .. Len(dag) - 1 /\ Len(code) = 4 + 2 * k /\ mbb = copy1Of(k)
  /\ edges[mbb] = {Nxt, prog.target} /\ Follower(order, mbb) = {prog.layout[3]}
  /\ \A n \in 1 .. k : CutAt(n)
  /\ RestFrom(k) /\ EntryPhi /\ ExitPhis

LEMMA SamePieces ==
  ASSUME UNCHANGED <<prog, dag>>
  PROVE  /\ Text' = Text /\ PartEnd' = PartEnd
         /\ \A n : Piece(n)' = Piece(n) /\ DiamondPhi(n)' = DiamondPhi(n)
<1>1. Parts' = Parts
  BY DEF Parts, SelectedSelect, LoadOf, InReg
<1>2. Flat' = Flat
  BY <1>1 DEF Flat
<1>3. SelectedBranch(prog.target)' = SelectedBranch(prog.target) /\ FinalJump' = FinalJump
  BY DEF SelectedBranch, FinalJump
<1>4. \A n : Piece(n)' = Piece(n)
  BY <1>3 DEF Piece, SelectedSelect, LoadOf, InReg
<1>5. \A n : DiamondPhi(n)' = DiamondPhi(n)
  BY DEF DiamondPhi, copy0Of, copy1Of, Body
<1> QED
  BY <1>1, <1>2, <1>3, <1>4, <1>5 DEF Text, PartEnd

\* Three sequences in one, and one with an element in front.
Joined(t, x, y, z) ==
  /\ t = x \o y \o z
  /\ Len(t) = Len(x) + Len(y) + Len(z)
  /\ \A n \in 1 .. Len(x) + Len(y) + Len(z) :
       t[n] = IF n <= Len(x) THEN x[n]
              ELSE IF n <= Len(x) + Len(y) THEN y[n - Len(x)]
              ELSE z[n - (Len(x) + Len(y))]

LEMMA JoinThree ==
  ASSUME NEW S, NEW x \in Seq(S), NEW y \in Seq(S), NEW z \in Seq(S)
  PROVE  \E t \in Seq(S) : Joined(t, x, y, z)
<1>1. x \o y \o z \in Seq(S)
  BY ConcatThree
<1>2. Joined(x \o y \o z, x, y, z)
  BY ConcatThree DEF Joined
<1> QED
  BY <1>1, <1>2, Zenon

InFront(c, t, p, x, y, z) ==
  /\ c = <<p>> \o x \o y \o z /\ t = x \o y \o z
  /\ Len(c) = 1 + Len(t) /\ c[1] = p /\ \A i \in 1 .. Len(t) : c[1 + i] = t[i]

LEMMA Prefixed ==
  ASSUME NEW S, NEW p \in S, NEW x \in Seq(S), NEW y \in Seq(S), NEW z \in Seq(S)
  PROVE  \E c \in Seq(S), t \in Seq(S) : InFront(c, t, p, x, y, z)
<1>1. PICK t \in Seq(S) : Joined(t, x, y, z)
  BY JoinThree
<1>2. PICK u \in Seq(S) : u = <<p>> /\ Len(u) = 1 /\ u[1] = p
  BY Singleton
<1>3. PICK v \in Seq(S) : v = u \o x /\ Len(v) = 1 + Len(x) /\ v[1] = p /\ \A n \in 1 .. Len(x) : v[1 + n] = x[n]
  <2> DEFINE w == u \o x
  <2>1. w \in Seq(S) /\ Len(w) = 1 + Len(x) /\ w[1] = p /\ \A n \in 1 .. Len(x) : w[1 + n] = x[n]
    BY <1>2
  <2> QED
    BY <2>1, Zenon
<1>4. PICK c \in Seq(S) : Joined(c, v, y, z)
  BY JoinThree
<1>5. PICK X \in Nat, Y \in Nat, Z \in Nat : X = Len(x) /\ Y = Len(y) /\ Z = Len(z)
  OBVIOUS
<1>6. Len(t) = X + Y + Z /\ Len(v) = 1 + X /\ Len(c) = 1 + X + Y + Z
  BY <1>1, <1>3, <1>4, <1>5 DEF Joined
<1>7. ASSUME NEW i \in 1 .. X + Y + Z PROVE c[1 + i] = t[i]
  <2>1. 1 + i \in 1 .. Len(v) + Len(y) + Len(z) /\ i \in 1 .. Len(x) + Len(y) + Len(z)
    BY <1>5, <1>6
  <2>2. CASE i <= X
    <3>1. c[1 + i] = v[1 + i] /\ t[i] = x[i] /\ v[1 + i] = x[i]
      BY <1>1, <1>3, <1>4, <1>5, <1>6, <2>1, <2>2 DEF Joined
    <3> QED
      BY <3>1
  <2>3. CASE X < i /\ i <= X + Y
    <3>1. ~(i <= Len(x)) /\ i <= Len(x) + Len(y) /\ ~(1 + i <= Len(v)) /\ 1 + i <= Len(v) + Len(y)
          /\ (1 + i) - Len(v) = i - Len(x)
      BY <1>5, <1>6, <2>3
    <3> QED
      BY <1>1, <1>4, <2>1, <3>1 DEF Joined
  <2>4. CASE X + Y < i
    <3>1. ~(i <= Len(x)) /\ ~(i <= Len(x) + Len(y)) /\ ~(1 + i <= Len(v)) /\ ~(1 + i <= Len(v) + Len(y))
          /\ (1 + i) - (Len(v) + Len(y)) = i - (Len(x) + Len(y))
      BY <1>5, <1>6, <2>4
    <3> QED
      BY <1>1, <1>4, <2>1, <3>1 DEF Joined
  <2> QED
    BY <2>2, <2>3, <2>4
<1>8. c[1] = p
  <2>1. 1 \in 1 .. Len(v) + Len(y) + Len(z) /\ 1 <= Len(v)
    BY <1>5, <1>6
  <2> QED
    BY <1>3, <1>4, <2>1 DEF Joined
<1>9. c = <<p>> \o x \o y \o z
  BY <1>2, <1>3, <1>4 DEF Joined
<1>10. t = x \o y \o z /\ Len(c) = 1 + Len(t) /\ \A i \in 1 .. Len(t) : c[1 + i] = t[i]
  BY <1>1, <1>5, <1>6, <1>7 DEF Joined
<1> QED
  BY <1>8, <1>9, <1>10, Zenon DEF InFront

LEMMA ChainBegins ==
  ASSUME CFGInv, SelectBlock, stage' = "expand"
  PROVE  Chain(0)'
<1>1. /\ stage = "lower" /\ Lowered /\ UNCHANGED <<prog, start, dag, order, edges, mbb, pc, env>>
      /\ start \in [Regs -> Values]
      /\ code' = [code EXCEPT ![Body] = code[Body] \o Flat \o SelectedBranch(prog.target) \o FinalJump]
  BY DEF SelectBlock, CFGInv, RunOK, Lowered, Flat, Parts
<1>2. /\ prog \in Programs /\ order = prog.layout /\ edges = InitialEdges(prog) /\ mbb = Body
      /\ code = [b \in 1 .. 4 |-> PhiOf(b, prog)]
  BY <1>1 DEF CFGInv, Nodewise, AtStart
<1>3. /\ prog.target \in {Body, Far} /\ prog.in \in Regs /\ prog.out \in Regs /\ prog.phi \in Regs
      /\ prog.layout \in {<<Pre, Body, Nxt, Far>>, <<Pre, Body, Far, Nxt>>}
  BY <1>2, SourceNames DEF OwnRegs
<1> DEFINE P == {Pre} \cup ({Body} \cap {prog.target})
           f == [q \in P |-> IF q = Pre THEN prog.in ELSE prog.out]
           ph == Phi(prog.phi, f)
<1>4. code[Body] = <<ph>>
  <2>1. PhiOf(2, prog) =
          <<Phi(prog.phi, [q \in P |-> [x \in {Pre, Body} |-> IF x = Pre THEN prog.in ELSE prog.out][q]])>>
    BY DEF PhiOf, Pre, Body, Nxt, Far
  <2>2. [q \in P |-> [x \in {Pre, Body} |-> IF x = Pre THEN prog.in ELSE prog.out][q]] = f
    OBVIOUS
  <2>3. code[2] = PhiOf(2, prog)
    BY <1>2
  <2> QED
    BY <2>1, <2>2, <2>3 DEF Body
<1>5. ph \in Insns /\ ph.dst = prog.phi /\ ph.in = f
  <2>1. f \in [P -> Regs] /\ P \in SUBSET Nat
    BY <1>3 DEF Pre, Body
  <2> HIDE DEF f, P
  <2>2. f \in UNION {[Q -> Regs] : Q \in SUBSET Nat}
    BY <2>1
  <2>3. ph \in Phis
    BY <1>3, <2>2 DEF Phis, Phi
  <2> QED
    BY <2>3 DEF Insns, Phi
<1>6. f[Pre] = prog.in /\ (prog.target = Body => f[Body] = prog.out)
  <2>1. Pre \in P /\ (prog.target = Body => Body \in P) /\ Body # Pre
    <3>1. Pre \in P
      OBVIOUS
    <3>2. ASSUME prog.target = Body PROVE Body \in P
      BY <3>2
    <3> QED
      BY <3>1, <3>2 DEF Pre, Body
  <2> HIDE DEF P
  <2> QED
    BY <2>1
<1> HIDE DEF ph
<1> HIDE DEF f, P
<1>7. PICK i \in Insns : i = ph
  BY <1>5
<1>8. TextShape
  BY <1>1, TextShaped
<1>9. PICK c \in Seq(Insns), t \in Seq(Insns) :
        /\ t = Text /\ code' = [code EXCEPT ![Body] = c]
        /\ Len(c) = 1 + Len(t) /\ c[1] = i /\ \A n \in 1 .. Len(t) : c[1 + n] = t[n]
  <2>0. PICK x \in Seq(Insns), y \in Seq(Insns), z \in Seq(Insns) :
          x = Flat /\ y = SelectedBranch(prog.target) /\ z = FinalJump
    BY <1>8 DEF TextShape
  <2>1. PICK c \in Seq(Insns), t \in Seq(Insns) :
          /\ c = <<i>> \o Flat \o SelectedBranch(prog.target) \o FinalJump
          /\ t = Flat \o SelectedBranch(prog.target) \o FinalJump
          /\ Len(c) = 1 + Len(t) /\ c[1] = i /\ \A n \in 1 .. Len(t) : c[1 + n] = t[n]
    <3>1. PICK c \in Seq(Insns), t \in Seq(Insns) : InFront(c, t, i, x, y, z)
      BY Prefixed
    <3>2. c = <<i>> \o Flat \o SelectedBranch(prog.target) \o FinalJump
          /\ t = Flat \o SelectedBranch(prog.target) \o FinalJump
      BY <2>0, <3>1 DEF InFront
    <3> QED
      BY <3>1, <3>2, Zenon DEF InFront
  <2>2. t = Text
    BY <2>1 DEF Text
  <2>3. code' = [code EXCEPT ![Body] = c]
    BY <1>1, <1>4, <1>7, <2>1
  <2> QED
    BY <2>1, <2>2, <2>3
<1>10. /\ Len(code') = 4 /\ code'[2] = c /\ code'[3] = PhiOf(3, prog) /\ code'[4] = PhiOf(4, prog)
  BY <1>2, <1>9 DEF Body
<1>11. /\ PhiOf(3, prog) = <<Phi(prog.phi, [q \in {Body} |-> prog.out])>>
       /\ prog.target = Far => PhiOf(4, prog) = <<Phi(prog.phi, [q \in {Body} |-> prog.in])>>
  BY DEF PhiOf, Pre, Body, Nxt, Far
<1>12. ExitPhis'
  <2>1. /\ code'[3] # << >> /\ code'[3][1].dst = prog.phi /\ code'[3][1].in[Body] = prog.out
    BY <1>10, <1>11 DEF Phi
  <2>2. ASSUME prog.target = Far
        PROVE  code'[4] # << >> /\ code'[4][1].dst = prog.phi /\ code'[4][1].in[Body] = prog.in
    BY <1>10, <1>11, <2>2 DEF Phi
  <2>3. ASSUME prog.target = Body
        PROVE  code'[2] # << >> /\ code'[2][1].dst = prog.phi /\ code'[2][1].in[Body] = prog.out
    <3>1. Len(c) >= 1
      BY <1>9
    <3>2. c # << >>
      BY <3>1
    <3> QED
      BY <1>5, <1>6, <1>7, <1>9, <1>10, <2>3, <3>2
  <2>4. mbb' = Body /\ prog' = prog
    BY <1>1, <1>2
  <2> QED
    BY <1>3, <2>1, <2>2, <2>3, <2>4 DEF ExitPhis, Body, Nxt, Far
<1>13. EntryPhi'
  BY <1>1, <1>5, <1>6, <1>7, <1>9, <1>10 DEF EntryPhi, Body
<1>14. Text' = Text /\ PartEnd' = PartEnd
  BY <1>1, SamePieces
<1>15. RestFrom(0)'
  <2>1. PartEnd[0] = 0 /\ Len(t) \in Nat
    BY <1>8 DEF TextShape
  <2>2. code'[mbb'] = c
    BY <1>1, <1>2, <1>10 DEF Body
  <2>3. Len(c) = 1 + Len(t) - 0 /\ \A n \in 1 .. Len(t) - 0 : c[1 + n] = t[0 + n]
    BY <1>9, <2>1
  <2> QED
    BY <1>9, <1>14, <2>1, <2>2, <2>3 DEF RestFrom
<1>16. Follower(order', mbb') = {prog'.layout[3]} /\ edges'[mbb'] = {Nxt, prog'.target}
  <2>1. order \in Seq(Nat) /\ Len(order) = 4 /\ OnceEach(order)
    BY <1>2, <1>10 DEF CFGInv, BlocksOK
  <2>2. order[2] = 2 /\ order[3] = prog.layout[3]
    BY <1>2, <1>3 DEF Pre, Body, Nxt, Far
  <2>3. Follower(order, order[2]) = {order[2 + 1]}
    <3>1. 2 \in 1 .. Len(order) /\ 2 < Len(order)
      BY <2>1
    <3> QED
      BY <2>1, <3>1, FollowerAt
  <2>4. edges[2] = {Nxt, prog.target}
    BY <1>2 DEF InitialEdges, Pre, Body, Nxt, Far
  <2> QED
    BY <1>1, <1>2, <2>2, <2>3, <2>4 DEF Body
<1>17. 0 \in 0 .. Len(dag') - 1
  <2>1. Len(dag) = Len(prog.selects) + 1 /\ Len(prog.selects) \in Nat
    BY <1>1, SourceNodes DEF Lowered, Nodewise
  <2> QED
    BY <1>1, <2>1
<1> QED
  BY <1>1, <1>2, <1>10, <1>12, <1>13, <1>15, <1>16, <1>17 DEF Chain, copy1Of

\* BB begins with a PHI and goes on with the piece of the next node.
LEMMA NextPiece ==
  ASSUME CFGInv, Lowered, NEW k, Chain(k)
  PROVE  /\ k \in Nat /\ k + 1 \in 1 .. Len(dag)
         /\ code[mbb] \in Seq(Insns) /\ code[mbb][1].op = "PHI" /\ PartEnd[k] \in Nat
         /\ Len(Piece(k + 1)) \in {1, 2} /\ 1 + Len(Piece(k + 1)) <= Len(code[mbb])
         /\ \A j \in 1 .. Len(Piece(k + 1)) : code[mbb][1 + j] = Piece(k + 1)[j]
         /\ Len(code[mbb]) = 1 + Len(Text) - PartEnd[k]
         /\ Len(Text) \in Nat
<1>1. PICK n \in Nat : n = k + 1 /\ n \in 1 .. Len(dag) /\ n - 1 = k /\ k \in Nat
  BY LoweredSource DEF Chain, Lowered
<1>2. start \in [Regs -> Values]
  BY DEF CFGInv, RunOK
<1>3. TextShape
  BY <1>2, TextShaped
<1>4. InText(n) /\ Len(Text) \in Nat
  BY <1>1, <1>3 DEF TextShape
<1>5. Len(Piece(n)) \in {1, 2}
  BY <1>1, <1>2, PieceShape DEF Fits
<1>6. PICK x, L, T : x = PartEnd[k] /\ L = Len(Piece(n)) /\ T = Len(Text)
  OBVIOUS
<1>12. x \in Nat /\ L \in Nat /\ T \in Nat /\ x + L <= T /\ \A j \in 1 .. L : Text[x + j] = Piece(n)[j]
  BY <1>1, <1>4, <1>5, <1>6 DEF InText
<1>7. /\ Len(code[mbb]) = 1 + T - x
      /\ \A i \in 1 .. T - x : code[mbb][1 + i] = Text[x + i]
  BY <1>6, <1>12 DEF Chain, RestFrom
<1>8. \A j \in 1 .. L : code[mbb][1 + j] = Piece(n)[j]
  <2>1. x \in Nat /\ L \in Nat /\ T \in Nat /\ x + L <= T
    BY <1>12
  <2>2. \A j \in 1 .. L : j \in 1 .. T - x
    BY <2>1
  <2>3. \A j \in 1 .. L : Text[x + j] = Piece(n)[j]
    BY <1>12
  <2> QED
    BY <1>7, <2>2, <2>3, Zenon
<1>9. 1 + L <= Len(code[mbb])
  BY <1>6, <1>7, <1>12
<1>10. code[mbb] \in Seq(Insns)
  BY DEF CFGInv, BlocksOK
<1>11. code[mbb][1].op = "PHI"
  <2>1. CASE k = 0
    <3>1. mbb = Body
      BY <2>1 DEF Chain, copy1Of
    <3>2. code[Body][1] \in Phis
      BY DEF CFGInv, BlocksOK
    <3> QED
      BY <3>1, <3>2 DEF Phis
  <2>2. CASE k # 0
    <3>1. k \in 1 .. k /\ mbb = copy1Of(k)
      BY <1>1, <2>2 DEF Chain
    <3>2. code[mbb][1] = DiamondPhi(k)
      BY <3>1 DEF Chain, CutAt
    <3> QED
      BY <3>2 DEF DiamondPhi, Phi
  <2> QED
    BY <2>1, <2>2
<1> QED
  BY <1>1, <1>4, <1>5, <1>6, <1>7, <1>8, <1>9, <1>10, <1>11, <1>12

\* While a select is left, its pseudo is the one that is expanded next;
LEMMA NextPseudo ==
  ASSUME CFGInv, Lowered, NEW k, Chain(k), k + 1 < Len(dag)
  PROVE  /\ Pseudos # {} /\ First = 1 + Len(Piece(k + 1))
         /\ MI = Piece(k + 1)[Len(Piece(k + 1))] /\ Ending(MI, k + 1)
<1>1. PICK n \in 1 .. Len(dag) : n = k + 1
  BY NextPiece
<1>2. PICK x : Fits(Piece(n), n, x) /\ Ending(x, n)
  <2>1. start \in [Regs -> Values]
    BY DEF CFGInv, RunOK
  <2> QED
    BY <2>1, PieceShape
<1>0. PICK c, L : c = code[mbb] /\ L = Len(Piece(n))
  OBVIOUS
<1>3. /\ c \in Seq(Insns) /\ L \in Nat /\ c = code[mbb] /\ L = Len(Piece(n)) /\ L \in {1, 2}
      /\ c[1].op = "PHI" /\ 1 + L <= Len(c)
      /\ \A j \in 1 .. L : c[1 + j] = Piece(n)[j]
  BY <1>0, <1>1, NextPiece
<1>4. x.op = "Select" /\ Piece(n)[L] = x /\ (L = 2 => Piece(n)[1].op = "LD_imm64")
  <2>1. x \in SelectMIs
    BY <1>1, <1>2 DEF Ending
  <2> QED
    BY <1>2, <1>3, <2>1 DEF Fits, SelectMIs, Loads
<1>5. c[1 + L] = x /\ \A m \in 1 .. L : c[m].op # "Select"
  <2>1. c[1 + L] = x
    BY <1>3, <1>4
  <2>2. ASSUME NEW m \in 1 .. L PROVE c[m].op # "Select"
    <3>1. CASE m = 1
      BY <1>3, <3>1
    <3>2. CASE m = 2
      <4>1. L = 2 /\ c[1 + 1] = Piece(n)[1]
        BY <1>3, <3>2
      <4> QED
        BY <1>4, <3>2, <4>1
    <3> QED
      BY <1>3, <3>1, <3>2
  <2> QED
    BY <2>1, <2>2
<1>6. Pseudos = {m \in 1 .. Len(c) : c[m].op = "Select"}
  BY <1>3 DEF Pseudos
<1>7. 1 + L \in Pseudos /\ \A m \in Pseudos : 1 + L <= m
  BY <1>3, <1>4, <1>5, <1>6
<1>8. First \in Pseudos /\ \A m \in Pseudos : First <= m
  BY <1>7 DEF First
<1>9. First = 1 + L
  BY <1>3, <1>6, <1>7, <1>8
<1> QED
  BY <1>1, <1>2, <1>3, <1>4, <1>5, <1>7, <1>9 DEF MI

\* afterwards there is none.
LEMMA NoPseudo ==
  ASSUME CFGInv, Lowered, NEW k, Chain(k), k + 1 = Len(dag)
  PROVE  Pseudos = {}
<1>1. PICK n \in 1 .. Len(dag) : n = k + 1 /\ n = Len(dag) /\ n - 1 = k
  BY NextPiece
<1>2. PICK x : Fits(Piece(n), n, x) /\ Ending(x, n)
  <2>1. start \in [Regs -> Values]
    BY DEF CFGInv, RunOK
  <2> QED
    BY <2>1, PieceShape
<1>0. PICK c, L, e, T : c = code[mbb] /\ L = Len(Piece(n)) /\ e = PartEnd[k] /\ T = Len(Text)
  OBVIOUS
<1>3. /\ c \in Seq(Insns) /\ L \in Nat /\ e \in Nat /\ T \in Nat
      /\ c = code[mbb] /\ L = Len(Piece(n)) /\ L \in {1, 2} /\ c[1].op = "PHI" /\ 1 + L <= Len(c)
      /\ \A j \in 1 .. L : c[1 + j] = Piece(n)[j]
      /\ e = PartEnd[k] /\ T = Len(Text) /\ Len(c) = 1 + T - e
  BY <1>0, <1>1, NextPiece
<1>4. x.op # "Select" /\ Piece(n)[L] = x /\ (L = 2 => Piece(n)[1].op = "LD_imm64")
  <2>1. x \in Jumps
    BY <1>1, <1>2 DEF Ending
  <2> QED
    BY <1>2, <1>3, <2>1 DEF Fits, Jumps, JumpOps, Loads
<1>9. L \in {1, 2} /\ L \in Nat /\ e \in Nat /\ T \in Nat /\ Len(c) = 1 + T - e
  BY <1>3
<1>5. TextEnd = e + L
  BY <1>1, <1>3 DEF TextEnd
<1>6. T = e + L \/ (T = e + L + 1 /\ c[1 + (L + 1)].op = "JMP")
  <2>1. start \in [Regs -> Values]
    BY DEF CFGInv, RunOK
  <2>2. TextShape
    BY <2>1, TextShaped
  <2>3. CASE prog.layout[3] = Nxt
    BY <1>3, <1>5, <2>2, <2>3 DEF TextShape
  <2>4. CASE prog.layout[3] # Nxt
    <3>1. T = e + L + 1 /\ Text[e + L + 1] = ToNext
      BY <1>3, <1>5, <2>2, <2>4 DEF TextShape
    <3>2. \A i \in 1 .. T - e : c[1 + i] = Text[e + i]
      BY <1>3 DEF Chain, RestFrom
    <3>3. L + 1 \in 1 .. T - e /\ e + (L + 1) = e + L + 1
      BY <1>9, <3>1
    <3>4. c[1 + (L + 1)] = Text[e + L + 1]
      BY <3>2, <3>3
    <3> QED
      BY <3>1, <3>4 DEF ToNext
  <2> QED
    BY <2>3, <2>4
<1>7. ASSUME NEW m \in 1 .. Len(c) PROVE c[m].op # "Select"
  <2>1. m = 1 \/ m - 1 \in 1 .. L \/ m - 1 = L + 1
    BY <1>6, <1>9
  <2>2. CASE m = 1
    BY <1>3, <2>2
  <2>3. CASE m - 1 \in 1 .. L
    <3>1. PICK j \in 1 .. L : j = m - 1 /\ m = 1 + j
      BY <2>3
    <3>2. c[m] = Piece(n)[j]
      BY <1>3, <3>1
    <3>3. j = L \/ (L = 2 /\ j = 1)
      BY <1>9
    <3> QED
      BY <1>4, <3>2, <3>3
  <2>4. CASE m - 1 = L + 1
    <3>1. m = 1 + (L + 1) /\ T # e + L
      BY <1>9, <2>4
    <3> QED
      BY <1>6, <3>1
  <2> QED
    BY <2>1, <2>2, <2>3, <2>4
<1>8. Pseudos = {m \in 1 .. Len(c) : c[m].op = "Select"}
  <2>1. DOMAIN c = 1 .. Len(c)
    BY <1>3
  <2> QED
    BY <1>0, <2>1 DEF Pseudos
<1> QED
  BY <1>7, <1>8

\* What transferSuccessorsAndUpdatePHIs leaves.
LEMMA TransferredKeeps ==
  ASSUME CFGInv, NEW b \in 1 .. Len(code)
  PROVE  /\ b \notin edges[mbb] => transferred[b] = code[b]
         /\ Len(transferred[b]) = Len(code[b])
         /\ \A n \in 2 .. Len(code[b]) : transferred[b][n] = code[b][n]
         /\ b \in edges[mbb] /\ code[b] # << >> /\ code[b][1].op = "PHI" =>
              /\ transferred[b] # << >> /\ transferred[b][1].dst = code[b][1].dst
              /\ transferred[b][1].in[Len(code) + 2] = code[b][1].in[mbb]
              /\ \A q \in DOMAIN code[b][1].in :
                   q # mbb /\ q # Len(code) + 2 => transferred[b][1].in[q] = code[b][1].in[q]
<1>0. PICK c, d : c = code[b] /\ d = transferred[b]
  OBVIOUS
<1>1. /\ c = code[b] /\ d = transferred[b] /\ c \in Seq(Insns) /\ d \in Seq(Insns)
      /\ SameButPhis(d, c) /\ BlockShape(c)
  <2>1. code \in Seq(Seq(Insns)) /\ BlockShape(code[b])
    BY DEF CFGInv, BlocksOK, ShapesOK
  <2>2. transferred[b] \in Seq(Insns) /\ SameButPhis(transferred[b], code[b])
    BY Transferred
  <2> QED
    BY <1>0, <2>1, <2>2
<1>2. /\ DOMAIN code = 1 .. Len(code) /\ mbb \in 1 .. Len(code) /\ Len(code) \in Nat
  BY DEF CFGInv, BlocksOK
<1>3. transferred[b] = IF b \in edges[mbb] THEN UpdatePHIs(code[b]) ELSE code[b]
  BY <1>2 DEF transferred
<1>4. Len(d) = Len(c) /\ \A n \in 2 .. Len(c) : d[n] = c[n]
  <2>1. \A n \in 2 .. Len(c) : n \in 1 .. Len(c) /\ c[n].op # "PHI"
    BY <1>1 DEF BlockShape
  <2> QED
    BY <1>1, <2>1 DEF SameButPhis
<1>5. ASSUME b \in edges[mbb], c # << >>, c[1].op = "PHI"
      PROVE  /\ d # << >> /\ d[1].dst = c[1].dst
             /\ d[1].in[Len(code) + 2] = c[1].in[mbb]
             /\ \A q \in DOMAIN c[1].in :
                  q # mbb /\ q # Len(code) + 2 => d[1].in[q] = c[1].in[q]
  <2>1. 1 \in 1 .. Len(c) /\ DOMAIN c = 1 .. Len(c)
    BY <1>1, <1>5
  <2>2. mbb \in Predecessors(b)
    BY <1>2, <1>5 DEF Predecessors
  <2>3. mbb \in DOMAIN c[1].in
    BY <1>1, <1>5, <2>1, <2>2 DEF CFGInv, PhisOK
  <2>4. PICK i \in Phis : i = c[1] /\ mbb \in DOMAIN i.in
    <3>1. c[1] \in Insns
      BY <1>1, <2>1
    <3> QED
      BY <1>5, <2>3, <3>1, InsnKinds
  <2>5. d = UpdatePHIs(c)
    BY <1>1, <1>3, <1>5
  <2>6. d[1] = [i EXCEPT !.in = Renamed(i.in)]
    BY <1>5, <2>1, <2>4, <2>5 DEF UpdatePHIs
  <2>7. i = [op |-> "PHI", dst |-> i.dst, in |-> i.in]
    BY DEF Phis
  <2>8. d[1].dst = i.dst /\ d[1].in = Renamed(i.in)
    BY <2>6, <2>7
  <2>9. copy1MBB = Len(code) + 2 /\ copy1MBB # mbb
    BY <1>2 DEF copy1MBB
  <2>10. Renamed(i.in)[copy1MBB] = i.in[mbb]
    BY DEF Renamed
  <2>11. \A q \in DOMAIN i.in : q # mbb /\ q # copy1MBB => Renamed(i.in)[q] = i.in[q]
    BY DEF Renamed
  <2>12. d # << >>
    BY <1>1, <1>4, <2>1
  <2> QED
    BY <2>4, <2>8, <2>9, <2>10, <2>11, <2>12
<1> QED
  BY <1>1, <1>3, <1>4, <1>5

\* The two halves of BB.
Halves(N, up, low, P) ==
  /\ Len(up) = 1 + Len(P) /\ up[1] = transferred[mbb][1]
  /\ \A i \in 1 .. Len(P) : up[1 + i] = IF i < Len(P) THEN P[i] ELSE Jump(P[Len(P)], N + 2)
  /\ Len(low) = Len(code[mbb]) - Len(P) /\ low[1] = SelectPhi
  /\ \A i \in 1 .. Len(code[mbb]) - Len(P) - 1 : low[1 + i] = code[mbb][1 + Len(P) + i]

LEMMA CutText ==
  ASSUME CFGInv, Lowered, NEW k, Chain(k), k + 1 < Len(dag),
         NEW N \in Nat, NEW up \in Seq(Insns), NEW low \in Seq(Insns), Expanded(N, up, low)
  PROVE  Halves(N, up, low, Piece(k + 1))
<1>0. PICK L : L = Len(Piece(k + 1))
  OBVIOUS
<1>1. First = 1 + L /\ MI = Piece(k + 1)[L] /\ Pseudos # {} /\ MI.op = "Select"
  BY <1>0, NextPseudo, FirstPseudo
<1>2. L \in {1, 2} /\ L \in Nat /\ 1 + L <= Len(code[mbb])
      /\ \A j \in 1 .. L : code[mbb][1 + j] = Piece(k + 1)[j]
  <2>1. /\ Len(Piece(k + 1)) \in {1, 2} /\ 1 + Len(Piece(k + 1)) <= Len(code[mbb])
        /\ \A j \in 1 .. Len(Piece(k + 1)) : code[mbb][1 + j] = Piece(k + 1)[j]
    BY NextPiece
  <2>2. \A l \in {1, 2} : l \in Nat
    OBVIOUS
  <2> QED
    BY <1>0, <2>1, <2>2
<1>3. PICK c \in Seq(Insns) : c = code[mbb]
  BY NextPiece
<1>4. mbb \in 1 .. Len(code)
  BY DEF CFGInv, BlocksOK
<1>5. PICK d \in Seq(Insns) : d = transferred[mbb] /\ Len(d) = Len(c) /\ \A n \in 2 .. Len(c) : d[n] = c[n]
  BY <1>3, <1>4, Transferred, TransferredKeeps
<1>6. PICK M \in Nat : M = Len(c) /\ 1 + L <= M
  BY <1>2, <1>3
<1>7. /\ Len(up) = 1 + L
      /\ \A n \in 1 .. 1 + L : up[n] = IF n < 1 + L THEN d[n] ELSE Jump(MI, N + 2)
  BY <1>1, <1>5 DEF Expanded, UpperHalf
<1>8. up[1] = d[1]
  <2>0. L \in Nat /\ L # 0
    <3>1. L \in {1, 2} /\ L \in Nat
      BY <1>2, Zenon
    <3>2. \A l \in {1, 2} : l # 0
      OBVIOUS
    <3> QED
      BY <3>1, <3>2
  <2>1. 1 \in 1 .. 1 + L /\ 1 < 1 + L
    BY <2>0
  <2> QED
    BY <1>7, <2>1
<1>9. ASSUME NEW i \in 1 .. L
      PROVE  up[1 + i] = IF i < L THEN Piece(k + 1)[i] ELSE Jump(Piece(k + 1)[L], N + 2)
  <2>1. 1 + i \in 1 .. 1 + L /\ 1 + i \in 2 .. M /\ (1 + i < 1 + L <=> i < L)
    BY <1>2, <1>6
  <2>2. up[1 + i] = IF i < L THEN d[1 + i] ELSE Jump(MI, N + 2)
    BY <1>7, <2>1
  <2>3. d[1 + i] = Piece(k + 1)[i]
    BY <1>2, <1>3, <1>5, <1>6, <2>1
  <2> QED
    BY <1>1, <2>2, <2>3
<1>10. PICK p \in Insns : p = SelectPhi
  <2>1. MI.cc \in DOMAIN JumpOf
    <3>1. PICK n \in 1 .. Len(dag) : n = k + 1 /\ n < Len(dag)
      BY NextPiece
    <3>2. MI.cc = dag[n].cc
      BY <3>1, NextPseudo DEF Ending
    <3>3. LoweredFaithfully /\ n \in 1 .. lowered
      BY NodewiseFaithful DEF Lowered
    <3> QED
      BY <3>2, <3>3 DEF LoweredFaithfully, ComparesAs
  <2>2. SelectPhi \in Phis
    BY <1>1, <2>1, NewInsns
  <2> QED
    BY <2>2 DEF Insns
<1>11. LastPart(low, Insns, c, 1 + L, p)
  <2>1. 1 + L \in 1 .. Len(c)
    BY <1>2, <1>6
  <2>2. low = After(c, 1 + L, p)
    BY <1>1, <1>3, <1>10 DEF Expanded, LowerHalf
  <2>3. LastPart(After(c, 1 + L, p), Insns, c, 1 + L, p)
    BY <2>1, CutParts
  <2> QED
    BY <2>2, <2>3
<1>12. /\ Len(low) = M - (1 + L) + 1
       /\ \A n \in 1 .. M - (1 + L) + 1 : low[n] = IF n = 1 THEN p ELSE c[n - 1 + (1 + L)]
  BY <1>6, <1>11 DEF LastPart
<1>13. Len(low) = M - L /\ low[1] = p
  BY <1>2, <1>6, <1>12
<1>14. ASSUME NEW i \in 1 .. M - L - 1 PROVE low[1 + i] = c[1 + L + i]
  <2>1. 1 + i \in 1 .. M - (1 + L) + 1 /\ 1 + i # 1 /\ (1 + i) - 1 + (1 + L) = 1 + L + i
    BY <1>2, <1>6
  <2> QED
    BY <1>12, <2>1
<1>15. PICK P : P = Piece(k + 1)
  OBVIOUS
<1>16. /\ Len(up) = 1 + Len(P) /\ up[1] = transferred[mbb][1]
       /\ \A i \in 1 .. Len(P) : up[1 + i] = IF i < Len(P) THEN P[i] ELSE Jump(P[Len(P)], N + 2)
  BY <1>0, <1>5, <1>7, <1>8, <1>9, <1>15
<1>17. /\ Len(low) = Len(code[mbb]) - Len(P) /\ low[1] = SelectPhi
       /\ \A i \in 1 .. Len(code[mbb]) - Len(P) - 1 : low[1 + i] = code[mbb][1 + Len(P) + i]
  BY <1>0, <1>3, <1>6, <1>10, <1>13, <1>14, <1>15
<1> QED
  BY <1>15, <1>16, <1>17 DEF Halves

LEMMA ChainGrows ==
  ASSUME CFGInv, Lowered, NEW k, Chain(k), Pseudos # {}, InsertDiamond,
         UNCHANGED <<prog, start, dag, lowered, pc, env>>
  PROVE  Chain(k + 1)'
<1>1. PICK n \in 1 .. Len(dag) : n = k + 1 /\ n - 1 = k /\ k \in Nat
  BY NextPiece
<1>2. Len(dag) \in Nat /\ Len(dag) = Len(prog.selects) + 1 /\ prog \in Programs
  BY LoweredSource DEF Lowered, Nodewise
<1>3. n < Len(dag)
  <2>1. n # Len(dag)
    BY <1>1, NoPseudo
  <2> QED
    BY <1>2, <2>1
<1>4. First = 1 + Len(Piece(n)) /\ MI = Piece(n)[Len(Piece(n))] /\ Ending(MI, n)
  BY <1>1, <1>3, NextPseudo
<1>5. MI.cc \in DOMAIN JumpOf
  <2>1. MI.cc = dag[n].cc
    BY <1>3, <1>4 DEF Ending
  <2>2. LoweredFaithfully /\ n \in 1 .. lowered
    BY NodewiseFaithful DEF Lowered
  <2> QED
    BY <2>1, <2>2 DEF LoweredFaithfully, ComparesAs
<1>6. PICK N \in Nat, up \in Seq(Insns), low \in Seq(Insns) : Expanded(N, up, low)
  BY <1>5, Diamond
<1>7. /\ N = Len(code) /\ N >= 4 /\ mbb \in 1 .. N
      /\ Len(code') = N + 2
      /\ \A b \in 1 .. N : code'[b] = IF b = mbb THEN up ELSE transferred[b]
      /\ code'[N + 1] = << >> /\ code'[N + 2] = low
      /\ edges'[N + 2] = edges[mbb]
  BY <1>6, ExpandedAt
<1>8. /\ Follower(order', mbb) = {N + 1} /\ Follower(order', N + 1) = {N + 2}
      /\ Follower(order', N + 2) = Follower(order, mbb)
      /\ \A b \in 1 .. N : b # mbb => Follower(order', b) = Follower(order, b)
  BY <1>6, ExpandedOrder
<1>9. /\ N = 4 + 2 * k /\ mbb = copy1Of(k) /\ edges[mbb] = {Nxt, prog.target}
      /\ Follower(order, mbb) = {prog.layout[3]}
      /\ \A m \in 1 .. k : CutAt(m)
  BY <1>7 DEF Chain
<1>10. N + 1 = copy0Of(n) /\ N + 2 = copy1Of(n) /\ mbb' = N + 2 /\ n # 0
  <2>1. mbb' = Len(code) + 2
    BY DEF InsertDiamond, copy1MBB
  <2>2. N = 4 + 2 * k
    BY <1>9
  <2>3. ASSUME n = k + 1, k \in Nat, N = 4 + 2 * k
        PROVE  N + 1 = 3 + 2 * n /\ N + 2 = 4 + 2 * n /\ n # 0
    BY <2>3
  <2> QED
    BY <1>1, <1>7, <2>1, <2>2, <2>3 DEF copy0Of, copy1Of
<1>11. PICK L : L = Len(Piece(n)) /\ L \in {1, 2} /\ L \in Nat
  <2>1. Len(Piece(n)) \in {1, 2}
    BY <1>1, NextPiece
  <2>2. PICK l : l = Len(Piece(n))
    OBVIOUS
  <2>3. l \in {1, 2} => l \in Nat
    OBVIOUS
  <2> QED
    BY <2>1, <2>2, <2>3
<1>12. /\ Len(up) = 1 + L /\ up[1] = transferred[mbb][1]
       /\ \A i \in 1 .. L : up[1 + i] = IF i < L THEN Piece(n)[i] ELSE Jump(Piece(n)[L], N + 2)
       /\ Len(low) = Len(code[mbb]) - L /\ low[1] = SelectPhi
       /\ \A i \in 1 .. Len(code[mbb]) - L - 1 : low[1 + i] = code[mbb][1 + L + i]
  <2>1. k + 1 < Len(dag)
    BY <1>1, <1>3
  <2>2. N \in Nat /\ up \in Seq(Insns) /\ low \in Seq(Insns) /\ Expanded(N, up, low)
    BY <1>6
  <2>3. Halves(N, up, low, Piece(k + 1))
    BY <2>1, <2>2, CutText
  <2>4. Halves(N, up, low, Piece(n))
    BY <1>1, <2>3
  <2> QED
    BY <1>11, <2>4 DEF Halves
<1>13. /\ Text' = Text /\ PartEnd' = PartEnd
       /\ \A m : Piece(m)' = Piece(m) /\ DiamondPhi(m)' = DiamondPhi(m)
  BY SamePieces
<1>14. SelectPhi = DiamondPhi(n)
  <2>1. MI.dst = dag[n].dst /\ MI.t = dag[n].t /\ MI.f = dag[n].f
    BY <1>3, <1>4 DEF Ending
  <2>2. copy0MBB = copy0Of(n) /\ mbb = copy1Of(n - 1)
    BY <1>1, <1>7, <1>9, <1>10 DEF copy0MBB
  <2> QED
    BY <2>1, <2>2 DEF SelectPhi, DiamondPhi
<1>15. prog.target \in {Body, Far}
  BY <1>2, SourceNames
<1>16. CutAt(n)'
  <2>1. code'[copy1Of(n - 1)] = up
    BY <1>1, <1>7, <1>9
  <2>2. code'[copy0Of(n)] = << >> /\ code'[copy1Of(n)] = low
    BY <1>7, <1>10
  <2>3. Follower(order', copy1Of(n - 1)) = {copy0Of(n)} /\ Follower(order', copy0Of(n)) = {copy1Of(n)}
    BY <1>1, <1>8, <1>9, <1>10
  <2> QED
    BY <1>10, <1>11, <1>12, <1>13, <1>14, <2>1, <2>2, <2>3 DEF CutAt
<1>17. ASSUME NEW m \in 1 .. k PROVE CutAt(m)'
  <2>1. CutAt(m)
    BY <1>9
  <2> DEFINE a == copy1Of(m - 1)
  <2>2. /\ a \in 1 .. N /\ a # mbb /\ a < N + 1
        /\ copy0Of(m) \in 1 .. N /\ copy0Of(m) # mbb /\ copy0Of(m) \notin {Body, Nxt, Far}
        /\ copy1Of(m) \in 1 .. N /\ copy1Of(m) \notin {Body, Nxt, Far}
    BY <1>1, <1>9 DEF copy0Of, copy1Of, Body, Nxt, Far
  <2> HIDE DEF a
  <2>3. Len(code'[a]) = Len(code[a]) /\ \A i \in 2 .. Len(code[a]) : code'[a][i] = code[a][i]
    <3>1. code'[a] = transferred[a] /\ a \in 1 .. Len(code)
      BY <1>7, <2>2
    <3> QED
      BY <3>1, TransferredKeeps
  <2>4. PICK l : l = Len(Piece(m)) /\ l \in Nat
    <3>1. m \in 1 .. Len(dag) /\ start \in [Regs -> Values]
      BY <1>1, <1>2 DEF CFGInv, RunOK
    <3>2. Len(Piece(m)) \in {1, 2}
      BY <3>1, PieceShape DEF Fits
    <3>3. PICK l : l = Len(Piece(m))
      OBVIOUS
    <3>4. l \in {1, 2} => l \in Nat
      OBVIOUS
    <3> QED
      BY <3>2, <3>3, <3>4
  <2>5. Len(code'[a]) = 1 + l
        /\ \A i \in 1 .. l : code'[a][1 + i] = IF i < l THEN Piece(m)[i] ELSE Jump(Piece(m)[l], copy1Of(m))
    <3>1. Len(code[a]) = 1 + l
          /\ \A i \in 1 .. l : code[a][1 + i] = IF i < l THEN Piece(m)[i] ELSE Jump(Piece(m)[l], copy1Of(m))
      BY <2>1, <2>4 DEF CutAt, a
    <3>2. \A i \in 1 .. l : 1 + i \in 2 .. Len(code[a])
      BY <2>4, <3>1
    <3> QED
      BY <2>3, <3>1, <3>2
  <2>6. code'[copy0Of(m)] = << >>
    <3>1. copy0Of(m) \notin edges[mbb]
      BY <1>9, <1>15, <2>2
    <3>2. code'[copy0Of(m)] = transferred[copy0Of(m)]
      BY <1>7, <2>2
    <3>3. transferred[copy0Of(m)] = code[copy0Of(m)]
      BY <1>7, <2>2, <3>1, TransferredKeeps
    <3> QED
      BY <2>1, <3>2, <3>3 DEF CutAt
  <2>7. code'[copy1Of(m)][1] = DiamondPhi(m)
    <3>1. copy1Of(m) \notin edges[mbb]
      BY <1>9, <1>15, <2>2
    <3>2. transferred[copy1Of(m)] = code[copy1Of(m)]
      BY <1>7, <2>2, <3>1, TransferredKeeps
    <3>3. code'[copy1Of(m)][1] = transferred[copy1Of(m)][1]
      BY <1>7, <1>12, <2>2
    <3> QED
      BY <2>1, <3>2, <3>3 DEF CutAt
  <2>8. Follower(order', a) = {copy0Of(m)} /\ Follower(order', copy0Of(m)) = {copy1Of(m)}
    BY <1>8, <2>1, <2>2 DEF CutAt, a
  <2> QED
    BY <1>13, <2>4, <2>5, <2>6, <2>7, <2>8 DEF CutAt, a
<1>18. RestFrom(n)'
  <2>1. PICK e \in Nat, T \in Nat : e = PartEnd[k] /\ T = Len(Text) /\ Len(code[mbb]) = 1 + T - e
    BY NextPiece
  <2>2. PartEnd[n] = e + L /\ e + L <= T
    <3>1. start \in [Regs -> Values]
      BY DEF CFGInv, RunOK
    <3>2. InText(n)
      BY <3>1, TextShaped DEF TextShape
    <3> QED
      BY <1>1, <1>3, <1>11, <2>1, <3>2 DEF InText
  <2>3. \A i \in 1 .. T - e : code[mbb][1 + i] = Text[e + i]
    BY <2>1 DEF Chain, RestFrom
  <2>4. Len(low) = 1 + T - (e + L)
    BY <1>11, <1>12, <2>1
  <2>5. ASSUME NEW i \in 1 .. T - (e + L) PROVE low[1 + i] = Text[(e + L) + i]
    <3>1. /\ i \in 1 .. (1 + T - e) - L - 1 /\ L + i \in 1 .. T - e
          /\ 1 + (L + i) = 1 + L + i /\ e + (L + i) = (e + L) + i
      <4>1. L \in Nat
        BY <1>11
      <4> QED
        BY <4>1
    <3>2. low[1 + i] = code[mbb][1 + L + i]
      BY <1>12, <2>1, <3>1
    <3>3. code[mbb][1 + (L + i)] = Text[e + (L + i)]
      BY <2>3, <3>1
    <3> QED
      BY <3>1, <3>2, <3>3
  <2> QED
    BY <1>7, <1>10, <1>13, <2>1, <2>2, <2>4, <2>5 DEF RestFrom
<1>19. ASSUME NEW b \in {Body, Nxt, Far}
       PROVE  /\ b \in 1 .. N /\ code'[b][1] = transferred[b][1]
              /\ code'[b] # << >> <=> transferred[b] # << >>
  <2>1. b \in 1 .. N
    BY <1>7 DEF Body, Nxt, Far
  <2>2. CASE b = mbb
    <3>1. up # << >>
      BY <1>11, <1>12
    <3>2. transferred[mbb] # << >>
      <4>1. 1 + L <= Len(code[mbb]) /\ code[mbb] \in Seq(Insns)
        BY <1>1, <1>11, NextPiece
      <4>2. Len(transferred[mbb]) = Len(code[mbb]) /\ transferred[mbb] \in Seq(Insns)
        BY <1>7, TransferredKeeps, Transferred
      <4>3. L \in Nat /\ Len(code[mbb]) \in Nat
        BY <1>11, <4>1
      <4>4. Len(transferred[mbb]) # 0
        BY <4>1, <4>2, <4>3
      <4> QED
        BY <4>2, <4>4
    <3> QED
      BY <1>7, <1>12, <2>1, <2>2, <3>1, <3>2
  <2>3. CASE b # mbb
    BY <1>7, <2>1, <2>3
  <2> QED
    BY <2>1, <2>2, <2>3
<1>20. ASSUME NEW b \in {Body, Nxt, Far}, code[b] # << >> PROVE code[b][1] \in Phis /\ code[b][1].op = "PHI"
  <2>1. code[b] \in Seq(Insns) /\ (Len(code[b]) > 0 => code[b][1] \in Phis)
    <3>0. code \in Seq(Seq(Insns))
      BY DEF CFGInv, BlocksOK
    <3>1. b \in DOMAIN code
      <4>1. b \in 1 .. Len(code)
        BY <1>7, <1>19
      <4> QED
        BY <3>0, <4>1
    <3>2. code[b] \in Seq(Insns)
      BY <3>0, <3>1
    <3>3. Len(code[b]) > 0 => code[b][1] \in Phis
      BY DEF CFGInv, BlocksOK
    <3> QED
      BY <3>2, <3>3
  <2>2. code[b][1] \in Phis
    BY <1>20, <2>1
  <2> QED
    BY <2>2 DEF Phis
<1>21. EntryPhi'
  <2>1. code[Body][1].dst = prog.phi /\ code[Body][1].in[Pre] = prog.in
    BY DEF Chain, EntryPhi
  <2>2. code[Body] # << >>
    BY DEF CFGInv, BlocksOK
  <2>3. transferred[Body][1].dst = prog.phi /\ transferred[Body][1].in[Pre] = prog.in
    <3>1. CASE Body \notin edges[mbb]
      <4>1. transferred[Body] = code[Body]
        BY <1>7, <1>19, <3>1, TransferredKeeps
      <4> QED
        BY <2>1, <4>1
    <3>2. CASE Body \in edges[mbb]
      <4>1. Pre \in DOMAIN code[Body][1].in
        <5>1. /\ 1 \in 1 .. Len(code[Body]) /\ Body \in 1 .. Len(code)
              /\ DOMAIN code = 1 .. Len(code) /\ Pre \in 1 .. Len(code)
          <6>1. code[Body] \in Seq(Insns)
            BY <1>7, <1>19 DEF CFGInv, BlocksOK
          <6>2. DOMAIN code = 1 .. Len(code)
            BY DEF CFGInv, BlocksOK
          <6> QED
            BY <1>7, <1>19, <2>2, <6>1, <6>2 DEF Pre
        <5>2. DOMAIN code[Body][1].in = Predecessors(Body)
          BY <1>20, <2>2, <5>1 DEF CFGInv, PhisOK
        <5>3. Body \in edges[Pre]
          BY DEF CFGInv, BlocksOK
        <5> QED
          BY <5>1, <5>2, <5>3 DEF Predecessors
      <4>2. Pre # mbb /\ Pre # Len(code) + 2
        <5>1. Len(code) \in Nat
          BY <1>7
        <5>2. mbb # Pre
          BY DEF Chain, copy1Of, Body, Pre
        <5> QED
          BY <5>1, <5>2 DEF Pre
      <4> QED
        BY <1>7, <1>19, <1>20, <2>1, <2>2, <3>2, <4>1, <4>2, TransferredKeeps
    <3> QED
      BY <3>1, <3>2
  <2> QED
    BY <1>19, <2>3 DEF EntryPhi
<1>22. ExitPhis'
  <2> SUFFICES ASSUME NEW b \in {Nxt, prog.target}
               PROVE  /\ code'[b] # << >> /\ code'[b][1].dst = prog.phi
                      /\ code'[b][1].in[N + 2] = IF b = Far THEN prog.in ELSE prog.out
    BY <1>10 DEF ExitPhis
  <2>1. b \in {Body, Nxt, Far} /\ b \in edges[mbb]
    BY <1>9, <1>15
  <2>2. /\ code[b] # << >> /\ code[b][1].dst = prog.phi
        /\ code[b][1].in[mbb] = IF b = Far THEN prog.in ELSE prog.out
    BY DEF Chain, ExitPhis
  <2>3. /\ transferred[b] # << >> /\ transferred[b][1].dst = code[b][1].dst
        /\ transferred[b][1].in[N + 2] = code[b][1].in[mbb]
    BY <1>7, <1>19, <1>20, <2>1, <2>2, TransferredKeeps
  <2> QED
    BY <1>19, <2>1, <2>2, <2>3
<1>23. Follower(order', mbb') = {prog.layout[3]} /\ edges'[mbb'] = {Nxt, prog.target}
  BY <1>7, <1>8, <1>9, <1>10
<1>24. /\ n \in 0 .. Len(dag) - 1 /\ Len(code') = 4 + 2 * n /\ mbb' = copy1Of(n)
  <2>1. n \in 0 .. Len(dag) - 1
    <3>1. Len(dag) \in Nat
      BY <1>2
    <3> QED
      BY <1>3, <3>1
  <2>2. Len(code') = 4 + 2 * n
    BY <1>7, <1>10 DEF copy1Of
  <2> QED
    BY <1>10, <2>1, <2>2
<1>25. \A m \in 1 .. n : CutAt(m)'
  <2>1. \A m \in 1 .. n : m = n \/ m \in 1 .. k
    BY <1>1
  <2> QED
    BY <1>16, <1>17, <2>1
<1>26. Chain(n)'
  BY <1>18, <1>21, <1>22, <1>23, <1>24, <1>25 DEF Chain
<1> QED
  BY <1>1, <1>26

-----------------------------------------------------------------------------
(***************************************************************************)
(* Execution follows the source: in the block of the n-th node, the        *)
(* registers are those after the selects before it, and the jump over      *)
(* copy0MBB is taken when the source's condition holds.                    *)
(***************************************************************************)
JumpFor(n, j) ==
  /\ j.op \in JumpOps /\ j.op = JumpOf[dag[n].cc]
  /\ j.to = IF n < Len(dag) THEN copy1Of(n) ELSE prog.target

Behind(n, c, L) ==
  IF n < Len(dag) \/ prog.layout[3] = Nxt THEN Len(c) = L + 1
  ELSE Len(c) = L + 2 /\ c[L + 2] = ToNext

Laid(n, c, L) ==
  /\ L \in {1, 2} /\ c[1].op = "PHI"
  /\ L = 1 => \A e : Reads(c[2], n, e)
  /\ L = 2 => /\ c[2] \in Loads /\ c[2].dst \in TempRegs
              /\ \A e : e[c[2].dst] = c[2].imm % WordMod => Reads(c[3], n, e)
  /\ JumpFor(n, c[L + 1]) /\ Behind(n, c, L)

\* A piece behind a PHI, with the jump in its last place, is laid out so.
LEMMA LaidOutPiece ==
  ASSUME NEW n, Temps[n] \in TempRegs, NEW P, NEW x, Fits(P, n, x), NEW c, c[1].op = "PHI",
         NEW j, JumpFor(n, j), j.lhs = x.lhs, j.rhs = x.rhs,
         NEW L, L = Len(P), L = 2 => c[2] = P[1], c[L + 1] = j, Behind(n, c, L)
  PROVE  Laid(n, c, L)
<1>1. L \in {1, 2}
  BY DEF Fits
<1>2. \A e : Reads(x, n, e) => Reads(j, n, e)
  BY DEF Reads, Compared, IsConst
<1>3. L = 1 => \A e : Reads(c[2], n, e)
  <2>1. L = 1 => c[2] = j /\ \A e : Reads(x, n, e)
    BY DEF Fits
  <2> QED
    BY <1>2, <2>1
<1>4. L = 2 => /\ c[2] \in Loads /\ c[2].dst \in TempRegs
               /\ \A e : e[c[2].dst] = c[2].imm % WordMod => Reads(c[3], n, e)
  <2>1. L = 2 => /\ c[3] = j /\ c[2] = P[1] /\ P[1] \in Loads /\ P[1].dst = Temps[n]
                 /\ \A e : e[Temps[n]] = P[1].imm % WordMod => Reads(x, n, e)
    BY DEF Fits
  <2> QED
    BY <1>2, <2>1
<1> QED
  BY <1>1, <1>3, <1>4 DEF Laid

\* Every block of a node is.
LEMMA BlockLaid ==
  ASSUME CFGInv, Lowered, Chain(Len(dag) - 1), NEW n \in 1 .. Len(dag)
  PROVE  Laid(n, code[copy1Of(n - 1)], Len(Piece(n)))
<1>1. start \in [Regs -> Values] /\ prog \in Programs /\ Len(dag) = Len(prog.selects) + 1 /\ Len(dag) \in Nat
  BY LoweredSource DEF CFGInv, RunOK, Lowered, Nodewise
<1>2. PICK x : Fits(Piece(n), n, x) /\ Ending(x, n)
  BY <1>1, PieceShape
<1>3. PICK P, c, L : P = Piece(n) /\ c = code[copy1Of(n - 1)] /\ L = Len(P)
  OBVIOUS
<1>4. Fits(P, n, x) /\ L \in {1, 2} /\ P[L] = x
  BY <1>2, <1>3 DEF Fits
<1>5. Temps[n] \in TempRegs
  BY <1>1, SourceNames
<1>6. dag[n].cc \in DOMAIN JumpOf /\ JumpOf[dag[n].cc] \in JumpOps
  <2>1. LoweredFaithfully /\ n \in 1 .. lowered
    BY NodewiseFaithful DEF Lowered
  <2>2. dag[n].cc \in DOMAIN JumpOf
    BY <2>1 DEF LoweredFaithfully, ComparesAs
  <2> QED
    BY <2>2, Tables DEF JumpOf, JumpOps
<1>7. CASE n < Len(dag)
  <2>1. CutAt(n)
    BY <1>1, <1>7 DEF Chain
  <2>2. /\ Len(c) = 1 + L
        /\ \A i \in 1 .. L : c[1 + i] = IF i < L THEN P[i] ELSE Jump(P[L], copy1Of(n))
    BY <1>3, <2>1 DEF CutAt
  <2>3. x.cc = dag[n].cc
    BY <1>2, <1>7 DEF Ending
  <2>4. PICK j : j = Jump(x, copy1Of(n))
    OBVIOUS
  <2>5. j.op = JumpOf[dag[n].cc] /\ j.lhs = x.lhs /\ j.rhs = x.rhs /\ j.to = copy1Of(n)
    BY <2>3, <2>4 DEF Jump
  <2>6. c[L + 1] = j /\ Len(c) = L + 1 /\ (L = 2 => c[2] = P[1])
    <3>1. CASE L = 1
      BY <1>4, <2>2, <2>4, <3>1
    <3>2. CASE L = 2
      BY <1>4, <2>2, <2>4, <3>2
    <3> QED
      BY <1>4, <3>1, <3>2
  <2>7. c[1].op = "PHI"
    <3>1. CASE n = 1
      <4>1. code[Body][1] \in Phis
        BY DEF CFGInv, BlocksOK
      <4>2. copy1Of(n - 1) = Body
        BY <3>1 DEF copy1Of
      <4> QED
        BY <1>3, <4>1, <4>2 DEF Phis
    <3>2. CASE n # 1
      <4>1. n - 1 \in 1 .. Len(dag) - 1
        BY <1>1, <3>2
      <4>2. code[copy1Of(n - 1)][1] = DiamondPhi(n - 1)
        BY <4>1 DEF Chain, CutAt
      <4> QED
        BY <1>3, <4>2 DEF DiamondPhi, Phi
    <3> QED
      BY <3>1, <3>2
  <2>8. JumpFor(n, j) /\ Behind(n, c, L)
    BY <1>6, <1>7, <2>5, <2>6 DEF JumpFor, Behind
  <2> QED
    BY <1>3, <1>4, <1>5, <2>5, <2>6, <2>7, <2>8, LaidOutPiece
<1>8. CASE n = Len(dag)
  <2>1. PICK k : k = Len(dag) - 1 /\ k + 1 = n /\ n - 1 = k /\ Chain(k)
    BY <1>1, <1>8
  <2>2. mbb = copy1Of(n - 1)
    BY <2>1 DEF Chain
  <2>3. PICK e \in Nat, T \in Nat : e = PartEnd[k] /\ T = Len(Text) /\ Len(c) = 1 + T - e
    BY <1>3, <2>1, <2>2, NextPiece
  <2>4. c[1].op = "PHI" /\ \A i \in 1 .. L : c[1 + i] = P[i]
    BY <1>3, <2>1, <2>2, NextPiece
  <2>5. x \in Jumps /\ x.op = JumpOf[dag[n].cc] /\ x.to = prog.target
    BY <1>2, <1>8 DEF Ending
  <2>6. c[L + 1] = x /\ (L = 2 => c[2] = P[1])
    <3>1. CASE L = 1
      BY <1>4, <2>4, <3>1
    <3>2. CASE L = 2
      BY <1>4, <2>4, <3>2
    <3> QED
      BY <1>4, <3>1, <3>2
  <2>7. L \in Nat
    <3>1. \A l \in {1, 2} : l \in Nat
      OBVIOUS
    <3> QED
      BY <1>4, <3>1
  <2>8. IF prog.layout[3] = Nxt THEN T = e + L ELSE T = e + L + 1 /\ Text[e + L + 1] = ToNext
    <3>1. TextShape
      BY <1>1, TextShaped
    <3>2. TextEnd = e + L
      BY <1>3, <1>8, <2>1, <2>3 DEF TextEnd
    <3> QED
      BY <2>3, <3>1, <3>2 DEF TextShape
  <2>9. \A i \in 1 .. T - e : c[1 + i] = Text[e + i]
    BY <1>3, <2>1, <2>2, <2>3 DEF Chain, RestFrom
  <2>10. IF prog.layout[3] = Nxt THEN Len(c) = L + 1 ELSE Len(c) = L + 2 /\ c[L + 2] = ToNext
    <3>1. CASE prog.layout[3] = Nxt
      <4>1. T = e + L
        BY <2>8, <3>1
      <4>2. Len(c) = L + 1
        <5>1. \A l \in Nat : T = e + l => 1 + T - e = l + 1
          OBVIOUS
        <5> QED
          BY <2>3, <2>7, <4>1, <5>1, Zenon
      <4> QED
        BY <3>1, <4>2
    <3>2. CASE prog.layout[3] # Nxt
      <4>1. T = e + L + 1 /\ Text[e + L + 1] = ToNext
        BY <2>8, <3>2
      <4>2. Len(c) = L + 2 /\ L + 1 \in 1 .. T - e /\ 1 + (L + 1) = L + 2 /\ e + (L + 1) = e + L + 1
        <5>1. \A l \in Nat : T = e + l + 1 =>
                1 + T - e = l + 2 /\ l + 1 \in 1 .. T - e /\ 1 + (l + 1) = l + 2 /\ e + (l + 1) = e + l + 1
          OBVIOUS
        <5> QED
          BY <2>3, <2>7, <4>1, <5>1
      <4>3. c[1 + (L + 1)] = Text[e + (L + 1)]
        BY <2>9, <4>2
      <4> QED
        BY <3>2, <4>1, <4>2, <4>3
    <3> QED
      BY <3>1, <3>2
  <2>11. ~(n < Len(dag))
    BY <1>1, <1>8
  <2> QED
    <3>1. JumpFor(n, x)
      BY <1>6, <2>5, <2>11 DEF JumpFor
    <3>2. Behind(n, c, L)
      BY <2>10, <2>11 DEF Behind
    <3>3. Laid(n, c, L)
      BY <1>3, <1>4, <1>5, <2>4, <2>6, <3>1, <3>2, LaidOutPiece
    <3> QED
      BY <1>3, <3>3
<1>9. n < Len(dag) \/ n = Len(dag)
  BY <1>1
<1> QED
  BY <1>7, <1>8, <1>9

\* Where execution is: at the entry; in the block of the false value, or at
\* the PHI behind it, of a select; or in the block of a node, behind its PHI.
InMid(n) ==
  /\ pc = [blk |-> copy0Of(n), idx |-> 1, prev |-> copy1Of(n - 1)]
  /\ Agree(env, n - 1) /\ ~Met(n)

AtPhi(n) ==
  /\ pc = [blk |-> copy1Of(n), idx |-> 1, prev |-> IF Met(n) THEN copy1Of(n - 1) ELSE copy0Of(n)]
  /\ Agree(env, n - 1)

Within(n) ==
  /\ pc.blk = copy1Of(n - 1) /\ Agree(env, n - 1) /\ pc.idx \in 2 .. Len(Piece(n)) + 2
  /\ pc.idx = Len(Piece(n)) + 1 => Reads(Insn, n, env)
  /\ pc.idx = Len(Piece(n)) + 2 => ~Met(n)

Following ==
  \/ pc = Entry /\ env = start
  \/ \E n \in 1 .. Len(dag) - 1 : InMid(n) \/ AtPhi(n)
  \/ \E n \in 1 .. Len(dag) : Within(n)

Expansion == CFGInv /\ Lowered /\ Chain(Len(dag) - 1)

\* A step of the execution that goes on following the source, or leaves the
\* block with its results.
Onward ==
  /\ stage' \in {"run", "halt"} /\ (stage' = "run" => Following')
  /\ ResultsAgree'

LEMMA SameSource ==
  ASSUME UNCHANGED <<prog, start, dag>>
  PROVE  RegsAfter' = RegsAfter /\ \A n : Met(n)' = Met(n)
<1> DEFINE F(q, s) == CHOOSE f : f = [n \in 0 .. Len(q.selects) |->
                        IF n = 0 THEN [s EXCEPT ![q.phi] = s[q.in]] ELSE EvalSelect(f[n - 1], q.selects[n])]
<1>1. RegsAfter = F(prog, start) /\ RegsAfter' = F(prog', start')
  BY DEF RegsAfter, EvalSelect, Value, IsConst
<1> HIDE DEF F
<1>2. RegsAfter' = RegsAfter
  BY <1>1
<1>3. \A n : Source(n)' = Source(n)
  BY DEF Source
<1> QED
  BY <1>2, <1>3 DEF Met, Value, IsConst

LEMMA WithinNext ==
  ASSUME UNCHANGED <<prog, start, compiled>>, NEW n, pc'.blk = copy1Of(n - 1), Agree(env', n - 1),
         pc'.idx \in 2 .. Len(Piece(n)) + 2,
         pc'.idx = Len(Piece(n)) + 1 => Reads(code[copy1Of(n - 1)][pc'.idx], n, env'),
         pc'.idx = Len(Piece(n)) + 2 => ~Met(n)
  PROVE  Within(n)'
<1>1. UNCHANGED <<prog, start, dag, code>>
  BY DEF compiled
<1>2. RegsAfter' = RegsAfter /\ Met(n)' = Met(n) /\ Piece(n)' = Piece(n)
  BY <1>1, SameSource, SamePieces
<1>3. Agree(env, n - 1)'
  BY <1>2 DEF Agree
<1>4. Insn' = code[copy1Of(n - 1)][pc'.idx]
  BY <1>1 DEF Insn
<1>5. pc'.idx = Len(Piece(n)) + 1 => Reads(Insn, n, env)'
  BY <1>1, <1>4 DEF Reads, Compared, Value, IsConst
<1>6. /\ (pc.idx \in 2 .. Len(Piece(n)) + 2)' /\ (pc.blk = copy1Of(n - 1))'
      /\ (pc.idx = Len(Piece(n)) + 1 => Reads(Insn, n, env))'
      /\ (pc.idx = Len(Piece(n)) + 2 => ~Met(n))'
  BY <1>2, <1>5 DEF copy1Of, Body
<1> QED
  BY <1>3, <1>6 DEF Within

\* A step that stays in the run.
LEMMA StaysOn ==
  ASSUME UNCHANGED <<prog, start, compiled>>, stage' = "run",
         NEW n \in 1 .. Len(dag),
         (n < Len(dag) /\ (InMid(n)' \/ AtPhi(n)')) \/ Within(n)'
  PROVE  Onward
<1>1. dag' = dag
  BY DEF compiled
<1>2. Following'
  <2>1. CASE Within(n)'
    BY <1>1, <2>1 DEF Following
  <2>2. CASE n < Len(dag) /\ (InMid(n)' \/ AtPhi(n)')
    <3>1. n \in 1 .. Len(dag) - 1
      BY <2>2
    <3> QED
      BY <1>1, <2>2, <3>1 DEF Following
  <2> QED
    BY <2>1, <2>2
<1>3. ResultsAgree'
  BY DEF ResultsAgree
<1> QED
  BY <1>2, <1>3 DEF Onward

\* The names of the new blocks.
LEMMA NewBlocks ==
  ASSUME NEW n \in Nat, n >= 1
  PROVE  /\ copy1Of(n) = 4 + 2 * n /\ copy0Of(n) = 3 + 2 * n
         /\ copy1Of(n) \notin 1 .. 4 /\ copy0Of(n) \notin 1 .. 4
         /\ copy0Of(n) # copy1Of(n - 1)
BY DEF copy1Of, copy0Of, Body

\* Behind the PHI.
LEMMA BehindPhi ==
  ASSUME Expansion, UNCHANGED <<prog, start, compiled>>, NEW n \in 1 .. Len(dag), stage' = "run",
         pc'.blk = copy1Of(n - 1), pc'.idx = 2, Agree(env', n - 1)
  PROVE  Onward
<1>1. Laid(n, code[copy1Of(n - 1)], Len(Piece(n)))
  BY BlockLaid DEF Expansion
<1>2. PICK L : L = Len(Piece(n))
  OBVIOUS
<1>3. L \in {1, 2} /\ (L = 1 => \A e : Reads(code[copy1Of(n - 1)][2], n, e))
  BY <1>1, <1>2 DEF Laid
<1>4. \A l \in {1, 2} : 2 \in 2 .. l + 2 /\ (2 = l + 1 => l = 1) /\ 2 # l + 2
  OBVIOUS
<1>5. Within(n)'
  BY <1>2, <1>3, <1>4, WithinNext
<1> QED
  BY <1>5, StaysOn

\* The first instruction of a block is the PHI,
LEMMA AtFirst ==
  ASSUME Expansion, NEW n \in 1 .. Len(dag), pc.blk = copy1Of(n - 1), pc.idx = 1
  PROVE  InBlock /\ Insn.op = "PHI"
<1>1. Laid(n, code[copy1Of(n - 1)], Len(Piece(n)))
  BY BlockLaid DEF Expansion
<1>2. PICK c, L : c = code[copy1Of(n - 1)] /\ L = Len(Piece(n))
  OBVIOUS
<1>3. L \in {1, 2} /\ c[1].op = "PHI" /\ (Len(c) = L + 1 \/ Len(c) = L + 2)
  BY <1>1, <1>2 DEF Laid, Behind
<1>4. \A l \in {1, 2} : 1 <= l + 1 /\ 1 <= l + 2
  OBVIOUS
<1> QED
  BY <1>2, <1>3, <1>4 DEF InBlock, Insn

\* of the source's block
LEMMA EntryStep ==
  ASSUME Expansion, stage = "run", pc = Entry, env = start, RunPhi
  PROVE  Onward
<1>1. 1 \in 1 .. Len(dag) /\ prog \in Programs
  BY SourceNodes DEF Expansion, Lowered, Nodewise
<1>2. start \in [Regs -> Values] /\ prog.phi \in Regs
  BY <1>1, SourceNames DEF Expansion, CFGInv, RunOK, OwnRegs
<1>3. pc.blk = Body /\ pc.idx = 1 /\ pc.prev = Pre
  BY DEF Entry
<1>4. code[Body][1].dst = prog.phi /\ code[Body][1].in[Pre] = prog.in
  BY DEF Expansion, Chain, EntryPhi
<1>5. env' = [start EXCEPT ![prog.phi] = start[prog.in]]
  BY <1>3, <1>4 DEF RunPhi, AfterPhi, Insn
<1>6. env' = RegsAfter[0]
  BY <1>1, <1>5, FirstRegs
<1>7. Agree(env', 1 - 1)
  BY <1>6 DEF Agree
<1>8. pc' = [pc EXCEPT !.idx = 2] /\ stage' = "run" /\ UNCHANGED <<prog, start, compiled>>
  BY <1>3 DEF RunPhi, Advance
<1>9. pc'.blk = copy1Of(1 - 1) /\ pc'.idx = 2
  BY <1>3, <1>8 DEF copy1Of, Entry
<1> QED
  BY <1>1, <1>7, <1>8, <1>9, BehindPhi

\* and of a diamond.
LEMMA PhiStep ==
  ASSUME Expansion, stage = "run", NEW n \in 1 .. Len(dag) - 1, AtPhi(n), RunPhi
  PROVE  Onward
<1>1. /\ n \in Nat /\ n >= 1 /\ n \in 1 .. Len(dag) /\ n + 1 \in 1 .. Len(dag) /\ (n + 1) - 1 = n
      /\ prog \in Programs /\ Len(dag) - 1 = Len(prog.selects)
  <2>1. Len(dag) = Len(prog.selects) + 1 /\ Len(prog.selects) \in Nat /\ prog \in Programs
    BY SourceNodes DEF Expansion, Lowered, Nodewise
  <2> QED
    BY <2>1
<1>2. start \in [Regs -> Values] /\ env \in [Regs -> Values]
  BY DEF Expansion, CFGInv, RunOK
<1>3. RegsAfter[n - 1] \in [Regs -> Values]
  BY <1>1, <1>2, RegsAfterType
<1>4. PICK s : s = Source(n) /\ dag[n].dst = s.dst /\ dag[n].t = s.t /\ dag[n].f = s.f
  BY <1>1, LoweredOperands DEF Expansion
<1>5. /\ s.dst \in OwnRegs /\ s.t \in OwnRegs /\ s.f \in OwnRegs
      /\ RegsAfter[n] = [RegsAfter[n - 1] EXCEPT ![s.dst] =
                           IF Met(n) THEN RegsAfter[n - 1][s.t] ELSE RegsAfter[n - 1][s.f]]
  BY <1>2, <1>4, NextRegs DEF Expansion
<1>6. /\ pc.blk = copy1Of(n) /\ pc.idx = 1 /\ pc.prev = IF Met(n) THEN copy1Of(n - 1) ELSE copy0Of(n)
      /\ \A r \in OwnRegs : env[r] = RegsAfter[n - 1][r]
  BY DEF AtPhi, Agree
<1>7. Insn = DiamondPhi(n)
  BY <1>6 DEF Expansion, Chain, CutAt, Insn
<1>8. Insn.dst = s.dst /\ Insn.in[pc.prev] = IF Met(n) THEN s.t ELSE s.f
  <2>1. copy0Of(n) # copy1Of(n - 1)
    BY <1>1, NewBlocks
  <2> QED
    BY <1>4, <1>6, <1>7, <2>1 DEF DiamondPhi, Phi
<1>9. env' = [env EXCEPT ![s.dst] = IF Met(n) THEN RegsAfter[n - 1][s.t] ELSE RegsAfter[n - 1][s.f]]
  BY <1>5, <1>6, <1>8 DEF RunPhi, AfterPhi
<1>10. Agree(env', n)
  <2>1. s.dst \in Regs
    BY <1>5 DEF OwnRegs
  <2>2. PICK f \in [Regs -> Values], d \in Regs : f = RegsAfter[n - 1] /\ d = s.dst
    BY <1>3, <2>1
  <2>3. PICK x : /\ x = IF Met(n) THEN f[s.t] ELSE f[s.f]
                 /\ env' = [env EXCEPT ![d] = x] /\ RegsAfter[n] = [f EXCEPT ![d] = x]
                 /\ env \in [Regs -> Values] /\ \A q \in OwnRegs : env[q] = f[q]
    BY <1>2, <1>5, <1>6, <1>9, <2>2
  <2>4. ASSUME NEW r \in OwnRegs PROVE env'[r] = RegsAfter[n][r]
    <3>1. r \in Regs /\ env[r] = f[r]
      BY <2>3 DEF OwnRegs
    <3>2. env'[r] = IF r = d THEN x ELSE env[r]
      BY <2>3, <3>1
    <3>3. RegsAfter[n][r] = IF r = d THEN x ELSE f[r]
      BY <2>2, <2>3, <3>1
    <3> QED
      BY <3>1, <3>2, <3>3
  <2> QED
    BY <2>4 DEF Agree
<1>11. stage' = "run" /\ UNCHANGED <<prog, start, compiled>> /\ pc'.blk = copy1Of(n) /\ pc'.idx = 2
  BY <1>6 DEF RunPhi, Advance, AtPhi
<1> QED
  BY <1>1, <1>10, <1>11, BehindPhi

\* The block of a false value falls through to the PHI.
LEMMA MidStep ==
  ASSUME Expansion, NEW n \in 1 .. Len(dag) - 1, InMid(n)
  PROVE  /\ ~InBlock
         /\ FallThrough => Onward
<1>1. /\ n \in Nat /\ n >= 1 /\ n \in 1 .. Len(dag) /\ n < Len(dag)
  <2>1. Len(dag) \in Nat
    BY SourceNodes DEF Expansion, Lowered, Nodewise
  <2> QED
    BY <2>1
<1>2. /\ code[copy0Of(n)] = << >> /\ Follower(order, copy0Of(n)) = {copy1Of(n)}
  BY DEF Expansion, Chain, CutAt
<1>3. pc.blk = copy0Of(n) /\ pc.idx = 1 /\ Agree(env, n - 1) /\ ~Met(n)
  BY DEF InMid
<1>4. ~InBlock
  BY <1>2, <1>3 DEF InBlock
<1>5. ASSUME FallThrough PROVE Onward
  <2>1. Goto(copy1Of(n)) /\ UNCHANGED <<prog, start, compiled>> /\ stage = "run"
    BY <1>2, <1>3, <1>5 DEF FallThrough, Running
  <2>2. copy1Of(n) \notin 1 .. 4
    BY <1>1, NewBlocks
  <2>3. /\ pc' = [blk |-> copy1Of(n), idx |-> 1, prev |-> copy0Of(n)]
        /\ stage' = "run" /\ env' = env
    BY <1>3, <2>1, <2>2 DEF Goto
  <2>4. RegsAfter' = RegsAfter /\ Met(n)' = Met(n)
    BY <2>1, SameSource DEF compiled
  <2>5. AtPhi(n)'
    BY <1>3, <2>3, <2>4 DEF AtPhi, Agree, copy1Of, copy0Of, Body
  <2> QED
    BY <1>1, <2>1, <2>3, <2>5, StaysOn
<1> QED
  BY <1>4, <1>5

\* The jump to copy1MBB.
LEMMA TakenStep ==
  ASSUME Expansion, NEW n \in 1 .. Len(dag), n < Len(dag), Within(n), Met(n),
         stage = "run", UNCHANGED <<prog, start, compiled>>, Goto(copy1Of(n))
  PROVE  Onward
<1>1. n \in Nat /\ n >= 1
  OBVIOUS
<1>2. copy1Of(n) \notin 1 .. 4
  BY <1>1, NewBlocks
<1>3. pc.blk = copy1Of(n - 1) /\ Agree(env, n - 1)
  BY DEF Within
<1>4. /\ pc' = [blk |-> copy1Of(n), idx |-> 1, prev |-> copy1Of(n - 1)]
      /\ stage' = "run" /\ env' = env
  BY <1>2, <1>3 DEF Goto
<1>5. RegsAfter' = RegsAfter /\ Met(n)' = Met(n)
  BY SameSource DEF compiled
<1>6. AtPhi(n)'
  BY <1>3, <1>4, <1>5 DEF AtPhi, Agree, copy1Of, copy0Of, Body
<1> QED
  BY <1>4, <1>6, StaysOn

\* The fall through to copy0MBB.
LEMMA NotTakenStep ==
  ASSUME Expansion, NEW n \in 1 .. Len(dag), n < Len(dag), Within(n), ~Met(n),
         stage = "run", UNCHANGED <<prog, start, compiled>>, Goto(copy0Of(n))
  PROVE  Onward
<1>1. n \in Nat /\ n >= 1
  OBVIOUS
<1>2. copy0Of(n) \notin 1 .. 4
  BY <1>1, NewBlocks
<1>3. pc.blk = copy1Of(n - 1) /\ Agree(env, n - 1)
  BY DEF Within
<1>4. /\ pc' = [blk |-> copy0Of(n), idx |-> 1, prev |-> copy1Of(n - 1)]
      /\ stage' = "run" /\ env' = env
  BY <1>2, <1>3 DEF Goto
<1>5. RegsAfter' = RegsAfter /\ Met(n)' = Met(n)
  BY SameSource DEF compiled
<1>6. InMid(n)'
  BY <1>3, <1>4, <1>5 DEF InMid, Agree, copy1Of, copy0Of, Body
<1> QED
  BY <1>4, <1>6, StaysOn

\* The exit of the block.
LEMMA ExitStep ==
  ASSUME Expansion, NEW n \in 1 .. Len(dag), n = Len(dag), Within(n),
         stage = "run", UNCHANGED <<prog, start, compiled>>,
         NEW b, b = IF Met(n) THEN prog.target ELSE Nxt, Goto(b)
  PROVE  Onward
<1>1. /\ prog \in Programs /\ Source(n) = prog.br
      /\ n - 1 = Len(prog.selects) /\ n - 1 \in 0 .. Len(prog.selects)
  <2>1. Len(dag) = Len(prog.selects) + 1 /\ Len(prog.selects) \in Nat /\ prog \in Programs
    BY SourceNodes DEF Expansion, Lowered, Nodewise
  <2>2. Source(n) = prog.br
    BY LoweredSource DEF Expansion
  <2> QED
    BY <2>1, <2>2
<1>2. start \in [Regs -> Values] /\ env \in [Regs -> Values]
  BY DEF Expansion, CFGInv, RunOK
<1>3. PICK e \in [Regs -> Values] : e = RegsAfter[n - 1] /\ e = SourceEnv
  BY <1>1, <1>2, RegsAfterType DEF SourceEnv
<1>4. prog.in \in OwnRegs /\ prog.out \in OwnRegs /\ prog.phi \in OwnRegs /\ prog.target \in {Body, Far}
  BY <1>1, SourceNames
<1>5. SourceTarget = b
  BY <1>1, <1>3 DEF SourceTarget, Met
<1>6. PICK x \in OwnRegs : x = IF b = Far THEN prog.in ELSE prog.out
  BY <1>4
<1>7. SourcePhi = [e EXCEPT ![prog.phi] = e[x]]
  BY <1>3, <1>5, <1>6 DEF SourcePhi
<1>8. b \in 1 .. 4 /\ b \in {Nxt, prog.target}
  BY <1>4 DEF Body, Nxt, Far
<1>9. pc.blk = mbb /\ \A r \in OwnRegs : env[r] = e[r]
  BY <1>3 DEF Within, Expansion, Chain, Agree
<1>10. code[b] # << >> /\ code[b][1].dst = prog.phi /\ code[b][1].in[mbb] = x
  BY <1>6, <1>8 DEF Expansion, Chain, ExitPhis
<1>11. /\ stage' = "halt" /\ pc'.blk = b
       /\ env' = [env EXCEPT ![prog.phi] = env[x]]
  BY <1>8, <1>9, <1>10 DEF Goto, AfterPhi
<1>12. SourceTarget' = SourceTarget /\ SourcePhi' = SourcePhi
  <2>1. SourceEnv' = SourceEnv
    BY SameSource DEF SourceEnv, compiled
  <2>2. SourceTarget' = SourceTarget
    BY <2>1 DEF SourceTarget, Value, IsConst
  <2> QED
    BY <2>1, <2>2 DEF SourcePhi
<1>13. ASSUME NEW r \in Regs \ TempRegs PROVE env'[r] = SourcePhi[r]
  <2>1. r \in OwnRegs /\ r \in Regs /\ x \in Regs /\ prog.phi \in Regs
    BY <1>4, <1>13 DEF OwnRegs
  <2>2. env'[r] = IF r = prog.phi THEN env[x] ELSE env[r]
    BY <1>2, <1>11, <2>1
  <2>3. SourcePhi[r] = IF r = prog.phi THEN e[x] ELSE e[r]
    BY <1>7, <2>1
  <2> QED
    BY <1>9, <2>1, <2>2, <2>3
<1>14. ResultsAgree'
  BY <1>5, <1>11, <1>12, <1>13 DEF ResultsAgree
<1> QED
  BY <1>11, <1>14 DEF Onward

\* The load in front of a comparison.
LEMMA LoadStep ==
  ASSUME Expansion, NEW n \in 1 .. Len(dag), Within(n), Len(Piece(n)) = 2, pc.idx = 2,
         stage = "run", RunLoad
  PROVE  Onward
<1>1. PICK c : c = code[copy1Of(n - 1)] /\ Laid(n, c, 2)
  BY BlockLaid DEF Expansion
<1>2. /\ c[2] \in Loads /\ c[2].dst \in TempRegs
      /\ \A e : e[c[2].dst] = c[2].imm % WordMod => Reads(c[3], n, e)
  BY <1>1 DEF Laid
<1>3. Insn = c[2] /\ pc.blk = copy1Of(n - 1) /\ Agree(env, n - 1)
  BY <1>1 DEF Insn, Within
<1>4. PICK r, v : r = c[2].dst /\ v = c[2].imm % WordMod
  OBVIOUS
<1>5. r \in Regs /\ r \in TempRegs /\ env \in [Regs -> Values]
  BY <1>2, <1>4 DEF Loads, Expansion, CFGInv, RunOK
<1>6. env' = [env EXCEPT ![r] = v]
  BY <1>3, <1>4 DEF RunLoad
<1>7. env'[r] = v
  BY <1>5, <1>6
<1>8. Agree(env', n - 1)
  BY <1>3, <1>5, <1>6 DEF Agree, OwnRegs
<1>9. /\ pc'.idx = 3 /\ pc'.blk = copy1Of(n - 1) /\ stage' = "run" /\ UNCHANGED <<prog, start, compiled>>
  <2>1. pc' = [pc EXCEPT !.idx = 2 + 1] /\ stage' = "run" /\ UNCHANGED <<prog, start, compiled>>
    BY DEF RunLoad, Advance
  <2>2. pc \in [blk : 1 .. Len(code), idx : Nat, prev : 1 .. Len(code)]
    BY DEF Expansion, CFGInv, RunOK
  <2> QED
    BY <1>3, <2>1, <2>2
<1>10. Reads(c[3], n, env')
  BY <1>2, <1>4, <1>7
<1>11. Within(n)'
  <2>1. pc'.idx \in 2 .. Len(Piece(n)) + 2 /\ pc'.idx # Len(Piece(n)) + 2
    BY <1>9
  <2>2. Reads(code[copy1Of(n - 1)][pc'.idx], n, env')
    BY <1>1, <1>9, <1>10
  <2> QED
    BY <1>8, <1>9, <2>1, <2>2, WithinNext
<1> QED
  BY <1>9, <1>11, StaysOn

\* The comparison.
LEMMA CompareStep ==
  ASSUME Expansion, NEW n \in 1 .. Len(dag), Within(n), pc.idx = Len(Piece(n)) + 1,
         stage = "run", RunBranch
  PROVE  Onward
<1>1. PICK c, L : c = code[copy1Of(n - 1)] /\ L = Len(Piece(n)) /\ Laid(n, c, L)
  BY BlockLaid DEF Expansion
<1>2. L \in {1, 2} /\ JumpFor(n, c[L + 1])
  BY <1>1 DEF Laid
<1>3. Insn = c[L + 1] /\ pc.blk = copy1Of(n - 1) /\ Agree(env, n - 1) /\ Reads(Insn, n, env)
  BY <1>1 DEF Insn, Within
<1>4. start \in [Regs -> Values] /\ env \in [Regs -> Values]
  BY DEF Expansion, CFGInv, RunOK
<1>5. Taken(Insn.op, Compared(Insn.lhs, env), Compared(Insn.rhs, env)) = Met(n)
  <2>1. Taken(JumpOf[dag[n].cc], Value(dag[n].lhs, env), Value(dag[n].rhs, env)) = Met(n)
    BY <1>3, <1>4, TakenWhenMet DEF Expansion
  <2>2. Insn.op = JumpOf[dag[n].cc]
    BY <1>2, <1>3 DEF JumpFor
  <2>3. /\ Compared(Insn.lhs, env) = Value(dag[n].lhs, env)
        /\ Compared(Insn.rhs, env) = Value(dag[n].rhs, env)
    BY <1>3 DEF Reads
  <2> QED
    BY <2>1, <2>2, <2>3
<1>6. Insn.to = IF n < Len(dag) THEN copy1Of(n) ELSE prog.target
  BY <1>2, <1>3 DEF JumpFor
<1>7. UNCHANGED <<prog, start, compiled>>
  BY DEF RunBranch
<1>8. n < Len(dag) \/ n = Len(dag)
  BY LoweredSource DEF Expansion
<1>9. CASE Met(n)
  <2>1. Goto(Insn.to)
    BY <1>5, <1>9 DEF RunBranch
  <2>2. CASE n < Len(dag)
    BY <1>6, <1>7, <1>9, <2>1, <2>2, TakenStep
  <2>3. CASE n = Len(dag)
    <3>1. ~(n < Len(dag))
      BY <2>3, LoweredSource DEF Expansion
    <3>2. PICK b : b = prog.target /\ b = IF Met(n) THEN prog.target ELSE Nxt
      BY <1>9
    <3>3. Goto(b)
      BY <1>6, <2>1, <3>1, <3>2
    <3> QED
      BY <1>7, <2>3, <3>2, <3>3, ExitStep
  <2> QED
    BY <1>8, <2>2, <2>3
<1>10. CASE ~Met(n)
  <2>1. Advance /\ env' = env /\ stage' = "run"
    BY <1>5, <1>10 DEF RunBranch
  <2>2. pc \in [blk : 1 .. Len(code), idx : Nat, prev : 1 .. Len(code)]
    BY DEF Expansion, CFGInv, RunOK
  <2>3. \A l \in {1, 2} : l + 1 + 1 = l + 2 /\ l + 2 \in 2 .. l + 2 /\ l + 2 # l + 1
    OBVIOUS
  <2>4. pc'.blk = copy1Of(n - 1) /\ pc'.idx = L + 2
    BY <1>1, <1>2, <1>3, <2>1, <2>2, <2>3 DEF Advance
  <2>5. /\ pc'.idx \in 2 .. Len(Piece(n)) + 2 /\ pc'.idx # Len(Piece(n)) + 1
    BY <1>1, <1>2, <2>3, <2>4
  <2>6. Agree(env', n - 1)
    BY <1>3, <2>1 DEF Agree
  <2>7. Within(n)'
    BY <1>7, <1>10, <2>4, <2>5, <2>6, WithinNext
  <2> QED
    BY <1>7, <2>1, <2>7, StaysOn
<1> QED
  BY <1>9, <1>10

\* What is behind it.
LEMMA EndStep ==
  ASSUME Expansion, NEW n \in 1 .. Len(dag), Within(n), pc.idx = Len(Piece(n)) + 2, stage = "run"
  PROVE  /\ InBlock => Insn.op = "JMP" /\ (RunJump => Onward)
         /\ ~InBlock => (FallThrough => Onward)
<1>1. PICK c, L : c = code[copy1Of(n - 1)] /\ L = Len(Piece(n)) /\ Laid(n, c, L)
  BY BlockLaid DEF Expansion
<1>2. L \in {1, 2} /\ Behind(n, c, L)
  BY <1>1 DEF Laid
<1>3. Insn = c[L + 2] /\ pc.blk = copy1Of(n - 1) /\ ~Met(n)
  BY <1>1 DEF Insn, Within
<1>4. InBlock <=> L + 2 <= Len(c)
  BY <1>1, <1>3 DEF InBlock
<1>5. \A l \in {1, 2} : ~(l + 2 <= l + 1) /\ l + 2 <= l + 2
  OBVIOUS
<1>6. n < Len(dag) \/ (n = Len(dag) /\ ~(n < Len(dag)))
  BY LoweredSource DEF Expansion
<1>7. ASSUME n = Len(dag), Goto(Nxt), UNCHANGED <<prog, start, compiled>> PROVE Onward
  <2>1. PICK b : b = Nxt /\ b = IF Met(n) THEN prog.target ELSE Nxt
    BY <1>3
  <2>2. Goto(b)
    BY <1>7, <2>1
  <2> QED
    BY <1>7, <2>1, <2>2, ExitStep
<1>8. ASSUME InBlock PROVE Insn.op = "JMP" /\ (RunJump => Onward)
  <2>1. n = Len(dag) /\ c[L + 2] = ToNext
    BY <1>2, <1>4, <1>5, <1>6, <1>8 DEF Behind
  <2>2. Insn.op = "JMP" /\ Insn.to = Nxt
    BY <1>3, <2>1 DEF ToNext
  <2>3. ASSUME RunJump PROVE Goto(Nxt) /\ UNCHANGED <<prog, start, compiled>>
    BY <2>2, <2>3 DEF RunJump
  <2> QED
    BY <1>7, <2>1, <2>2, <2>3
<1>9. ASSUME ~InBlock, FallThrough PROVE Onward
  <2>1. PICK b \in Follower(order, pc.blk) : Goto(b)
    BY <1>9 DEF FallThrough
  <2>2. UNCHANGED <<prog, start, compiled>>
    BY <1>9 DEF FallThrough
  <2>3. CASE n < Len(dag)
    <3>1. n \in 1 .. Len(dag) - 1
      BY <2>3, LoweredSource DEF Expansion
    <3>2. Follower(order, copy1Of(n - 1)) = {copy0Of(n)}
      BY <3>1 DEF Expansion, Chain, CutAt
    <3>3. Goto(copy0Of(n))
      BY <1>3, <2>1, <3>2
    <3> QED
      BY <1>3, <2>2, <2>3, <3>3, NotTakenStep
  <2>4. CASE n = Len(dag) /\ ~(n < Len(dag))
    <3>1. prog.layout[3] = Nxt
      BY <1>2, <1>4, <1>5, <1>9, <2>4 DEF Behind
    <3>2. Follower(order, copy1Of(n - 1)) = {Nxt}
      BY <2>4, <3>1 DEF Expansion, Chain
    <3>3. Goto(Nxt)
      BY <1>3, <2>1, <3>2
    <3> QED
      BY <1>7, <2>2, <2>4, <3>3
  <2> QED
    BY <1>6, <2>3, <2>4
<1> QED
  BY <1>8, <1>9

\* What a step of the execution is.
LEMMA StepKinds ==
  ASSUME Run
  PROVE  /\ stage = "run" /\ UNCHANGED <<prog, start, compiled>>
         /\ ~InBlock => FallThrough
         /\ InBlock /\ Insn.op = "PHI" => RunPhi
         /\ InBlock /\ Insn.op = "LD_imm64" => RunLoad
         /\ InBlock /\ IsCompare(Insn) => RunBranch
         /\ InBlock /\ Insn.op = "JMP" => RunJump
<1>1. stage = "run" /\ UNCHANGED <<prog, start, compiled>>
  BY DEF Run, RunPhi, RunLoad, RunBranch, RunJump, FallThrough, Running
<1>2. /\ RunPhi => InBlock /\ Insn.op = "PHI"
      /\ RunLoad => InBlock /\ Insn.op = "LD_imm64"
      /\ RunBranch => InBlock /\ IsCompare(Insn)
      /\ RunJump => InBlock /\ Insn.op = "JMP"
      /\ FallThrough => ~InBlock
  BY DEF RunPhi, RunLoad, RunBranch, RunJump, FallThrough
<1>3. IsCompare(Insn) => Insn.op \notin {"PHI", "LD_imm64", "JMP"}
  BY DEF IsCompare
<1> QED
  BY <1>1, <1>2, <1>3 DEF Run

LEMMA WithinStep ==
  ASSUME Expansion, NEW n \in 1 .. Len(dag), Within(n), Run
  PROVE  Onward
<1>1. PICK c, L : c = code[copy1Of(n - 1)] /\ L = Len(Piece(n)) /\ Laid(n, c, L)
  BY BlockLaid DEF Expansion
<1>2. /\ L \in {1, 2} /\ JumpFor(n, c[L + 1]) /\ (Len(c) = L + 1 \/ Len(c) = L + 2)
      /\ L = 2 => c[2] \in Loads
  BY <1>1 DEF Laid, Behind
<1>3. Insn = c[pc.idx] /\ pc.idx \in 2 .. L + 2 /\ (InBlock <=> pc.idx <= Len(c))
  BY <1>1 DEF Insn, Within, InBlock
<1>4. /\ (L = 2 /\ pc.idx = 2) \/ pc.idx = L + 1 \/ pc.idx = L + 2
      /\ L = 2 /\ pc.idx = 2 => pc.idx <= L + 1 /\ pc.idx <= L + 2
      /\ pc.idx = L + 1 => pc.idx <= L + 1 /\ pc.idx <= L + 2
  <2>1. \A l \in {1, 2} : \A i \in 2 .. l + 2 :
          /\ (l = 2 /\ i = 2) \/ i = l + 1 \/ i = l + 2
          /\ l = 2 /\ i = 2 => i <= l + 1 /\ i <= l + 2
          /\ i = l + 1 => i <= l + 1 /\ i <= l + 2
    OBVIOUS
  <2> QED
    BY <1>2, <1>3, <2>1
<1>5. CASE L = 2 /\ pc.idx = 2
  <2>1. InBlock /\ Insn.op = "LD_imm64"
    BY <1>2, <1>3, <1>4, <1>5 DEF Loads
  <2>2. RunLoad /\ stage = "run"
    BY <2>1, StepKinds
  <2> QED
    BY <1>1, <1>5, <2>2, LoadStep
<1>6. CASE pc.idx = L + 1
  <2>1. InBlock
    BY <1>2, <1>3, <1>4, <1>6
  <2>2. IsCompare(Insn)
    BY <1>2, <1>3, <1>6 DEF JumpFor, JumpOps, IsCompare
  <2>3. RunBranch /\ stage = "run"
    BY <2>1, <2>2, StepKinds
  <2> QED
    BY <1>1, <1>6, <2>3, CompareStep
<1>7. CASE pc.idx = L + 2
  <2>1. pc.idx = Len(Piece(n)) + 2 /\ stage = "run"
    BY <1>1, <1>7, StepKinds
  <2>2. CASE InBlock
    BY <2>1, <2>2, EndStep, StepKinds
  <2>3. CASE ~InBlock
    BY <2>1, <2>3, EndStep, StepKinds
  <2> QED
    BY <2>2, <2>3
<1> QED
  BY <1>4, <1>5, <1>6, <1>7

LEMMA RunFollows ==
  ASSUME Expansion, Following, Run
  PROVE  Onward
<1>1. CASE pc = Entry /\ env = start
  <2>1. 1 \in 1 .. Len(dag)
    BY SourceNodes DEF Expansion, Lowered, Nodewise
  <2>2. pc.blk = copy1Of(1 - 1) /\ pc.idx = 1
    BY <1>1 DEF Entry, copy1Of
  <2>3. RunPhi /\ stage = "run"
    BY <2>1, <2>2, AtFirst, StepKinds
  <2> QED
    BY <1>1, <2>3, EntryStep
<1>2. ASSUME NEW n \in 1 .. Len(dag) - 1, InMid(n) PROVE Onward
  BY <1>2, MidStep, StepKinds
<1>3. ASSUME NEW n \in 1 .. Len(dag) - 1, AtPhi(n) PROVE Onward
  <2>1. n + 1 \in 1 .. Len(dag) /\ (n + 1) - 1 = n
    <3>1. Len(dag) \in Nat
      BY SourceNodes DEF Expansion, Lowered, Nodewise
    <3> QED
      BY <3>1
  <2>2. pc.blk = copy1Of((n + 1) - 1) /\ pc.idx = 1
    BY <1>3, <2>1 DEF AtPhi
  <2>3. RunPhi /\ stage = "run"
    BY <2>1, <2>2, AtFirst, StepKinds
  <2> QED
    BY <1>3, <2>3, PhiStep
<1>4. ASSUME NEW n \in 1 .. Len(dag), Within(n) PROVE Onward
  BY <1>4, WithinStep
<1> QED
  BY <1>1, <1>2, <1>3, <1>4 DEF Following

LEMMA SameChain ==
  ASSUME UNCHANGED <<prog, start, compiled>>, NEW k, Chain(k)
  PROVE  Chain(k)'
<1>1. UNCHANGED <<prog, dag, code, order, edges, mbb>>
  BY DEF compiled
<1>2. Text' = Text /\ PartEnd' = PartEnd /\ \A n : Piece(n)' = Piece(n) /\ DiamondPhi(n)' = DiamondPhi(n)
  BY <1>1, SamePieces
<1>3. ASSUME NEW n, CutAt(n) PROVE CutAt(n)'
  BY <1>1, <1>2, <1>3 DEF CutAt, Jump, copy1Of, copy0Of, Body
<1>4. RestFrom(k)'
  BY <1>1, <1>2 DEF Chain, RestFrom
<1>5. EntryPhi' /\ ExitPhis'
  BY <1>1 DEF Chain, EntryPhi, ExitPhis
<1>6. \A n \in 1 .. k : CutAt(n)'
  BY <1>3 DEF Chain
<1> QED
  BY <1>1, <1>4, <1>5, <1>6 DEF Chain, copy1Of, Body

\* The inductive invariant of the simulation: while the pseudos of the block
\* are expanded the blocks are the source's pieces in order, and the execution
\* is where the source is.
Simulates ==
  /\ stage \in {"lower", "expand"} => env = start
  /\ stage = "expand" => Lowered /\ \E k : Chain(k)
  /\ stage = "run" => Lowered /\ Chain(Len(dag) - 1) /\ Following
  /\ ResultsAgree

LEMMA SimulatesInit == Init => Simulates
BY DEF Init, Simulates, ResultsAgree

LEMMA SimulatesStep ==
  ASSUME CFGInv, CFGInv', Simulates, [Next]_vars
  PROVE  Simulates'
<1>0. Nodewise'
  BY DEF CFGInv
<1>1. CASE LowerSELECT_CC \/ LowerBR_CC
  BY <1>1 DEF LowerSELECT_CC, LowerBR_CC, LowerNext, Simulates, ResultsAgree
<1>2. CASE SelectBlock
  <2>1. stage = "lower" /\ lowered = Len(dag) /\ UNCHANGED <<prog, start, dag, lowered, env>>
    BY <1>2 DEF SelectBlock
  <2>2. env' = start'
    BY <2>1 DEF Simulates
  <2>3. stage' = "expand" \/ stage' = "fatal"
    BY <1>2 DEF SelectBlock
  <2>4. ASSUME stage' = "expand" PROVE Lowered' /\ \E k : Chain(k)'
    <3>1. Chain(0)'
      BY <1>2, <2>4, ChainBegins
    <3> QED
      BY <1>0, <2>1, <3>1 DEF Lowered
  <2> QED
    BY <2>2, <2>3, <2>4 DEF Simulates, ResultsAgree
<1>3. CASE EmitInstrWithCustomInserter
  <2>1. stage = "expand" /\ Pseudos # {} /\ UNCHANGED <<prog, start, dag, lowered, pc, env>>
    BY <1>3 DEF EmitInstrWithCustomInserter
  <2>2. PICK k : Chain(k) /\ Lowered
    BY <2>1 DEF Simulates
  <2>3. env' = start' /\ Lowered'
    BY <1>0, <2>1, <2>2 DEF Simulates, Lowered
  <2>4. CASE InsertDiamond
    <3>1. Chain(k + 1)'
      BY <2>1, <2>2, <2>4, ChainGrows
    <3>2. stage' = "expand"
      BY <2>1, <2>4 DEF InsertDiamond
    <3> QED
      BY <2>3, <3>1, <3>2 DEF Simulates, ResultsAgree
  <2>5. CASE stage' = "fatal"
    BY <2>5 DEF Simulates, ResultsAgree
  <2> QED
    BY <1>3, <2>4, <2>5 DEF EmitInstrWithCustomInserter
<1>4. CASE ExpansionDone
  <2>1. stage = "expand" /\ Pseudos = {} /\ stage' = "run" /\ UNCHANGED <<prog, start, compiled, pc, env>>
    BY <1>4 DEF ExpansionDone
  <2>2. PICK k : Chain(k) /\ Lowered
    BY <2>1 DEF Simulates
  <2>3. ~(k + 1 < Len(dag))
    BY <2>1, <2>2, NextPseudo
  <2>4. k = Len(dag) - 1
    <3>1. k \in 0 .. Len(dag) - 1 /\ Len(dag) \in Nat
      BY <2>2, LoweredSource, SourceNodes DEF Chain, Lowered, Nodewise
    <3> QED
      BY <2>3, <3>1
  <2>5. Chain(k)' /\ dag' = dag
    BY <2>1, <2>2, SameChain DEF compiled
  <2>6. pc' = Entry /\ env' = start'
    BY <2>1 DEF CFGInv, RunOK, Simulates
  <2>7. Following'
    BY <2>6 DEF Following, Entry
  <2>8. Lowered'
    BY <1>0, <2>1, <2>2 DEF Lowered, compiled
  <2> QED
    BY <2>1, <2>4, <2>5, <2>7, <2>8 DEF Simulates, ResultsAgree
<1>5. CASE Run
  <2>1. stage = "run" /\ UNCHANGED <<prog, start, compiled>>
    BY <1>5, StepKinds
  <2>2. Expansion /\ Following
    BY <2>1 DEF Simulates, Expansion
  <2>3. Onward
    BY <1>5, <2>2, RunFollows
  <2>4. Chain(Len(dag) - 1)' /\ dag' = dag
    BY <2>1, <2>2, SameChain DEF Expansion, compiled
  <2>5. Lowered'
    BY <1>0, <2>1, <2>2 DEF Expansion, Lowered, compiled
  <2> QED
    BY <2>3, <2>4, <2>5 DEF Onward, Simulates
<1>6. CASE UNCHANGED vars
  <2>1. UNCHANGED <<prog, start, dag, lowered, code, order, edges, mbb, pc, env, stage>>
    BY <1>6 DEF vars
  <2>2. UNCHANGED <<prog, start, compiled>>
    BY <2>1 DEF compiled
  <2>3. /\ RegsAfter' = RegsAfter /\ \A n : Met(n)' = Met(n)
        /\ \A n : Piece(n)' = Piece(n)
    BY <2>1, SameSource, SamePieces
  <2>4. ResultsAgree'
    <3>1. SourceEnv' = SourceEnv
      BY <2>1, <2>3 DEF SourceEnv
    <3>2. SourceTarget' = SourceTarget
      BY <2>1, <3>1 DEF SourceTarget, Value, IsConst
    <3>3. SourcePhi' = SourcePhi
      BY <2>1, <3>1, <3>2 DEF SourcePhi
    <3> QED
      BY <2>1, <3>2, <3>3 DEF Simulates, ResultsAgree
  <2>5. ASSUME NEW n PROVE /\ InMid(n) => InMid(n)'
                           /\ AtPhi(n) => AtPhi(n)'
                           /\ Within(n) => Within(n)'
    <3>1. InMid(n) => InMid(n)'
      BY <2>1, <2>3 DEF InMid, Agree, copy1Of, copy0Of, Body
    <3>2. AtPhi(n) => AtPhi(n)'
      BY <2>1, <2>3 DEF AtPhi, Agree, copy1Of, copy0Of, Body
    <3>3. Agree(env, n - 1)' <=> Agree(env, n - 1)
      BY <2>1, <2>3 DEF Agree
    <3>4. Reads(Insn, n, env)' <=> Reads(Insn, n, env)
      BY <2>1 DEF Reads, Insn, Compared, Value, IsConst
    <3>5. Within(n) => Within(n)'
      BY <2>1, <2>3, <3>3, <3>4 DEF Within, copy1Of, Body
    <3> QED
      BY <3>1, <3>2, <3>5
  <2>6. Following => Following'
    BY <2>1, <2>5 DEF Following, Entry
  <2>7. Lowered => Lowered'
    BY <1>0, <2>1 DEF Lowered
  <2>8. \A k : Chain(k) => Chain(k)'
    BY <2>2, SameChain
  <2>9. stage = "run" => Chain(Len(dag) - 1)'
    <3>1. ASSUME Chain(Len(dag) - 1) PROVE Chain(Len(dag) - 1)' /\ dag' = dag
      BY <2>1, <2>2, <3>1, SameChain
    <3> QED
      BY <3>1 DEF Simulates
  <2> QED
    BY <2>1, <2>4, <2>6, <2>7, <2>8, <2>9 DEF Simulates
<1> QED
  BY <1>1, <1>2, <1>3, <1>4, <1>5, <1>6 DEF Next, Compile

\* The block leaves where the source does, with the source's registers:
\* whatever the conditions of its selects and of its branch, whatever operands
\* are constants, however many selects are expanded in a row, and whatever the
\* registers hold when it is entered.
THEOREM ExpansionKeepsResults == Spec => []ResultsAgree
<1>1. Init => Simulates
  BY SimulatesInit
<1>2. CFGInv /\ CFGInv' /\ Simulates /\ [Next]_vars => Simulates'
  BY SimulatesStep
<1>3. Simulates => ResultsAgree
  BY DEF Simulates
<1> QED
  BY <1>1, <1>2, <1>3, CFGInvariant, PTL DEF Spec

=============================================================================
