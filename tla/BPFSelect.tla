------------------------------ MODULE BPFSelect ------------------------------
(***************************************************************************)
(* Comparisons through the compiler: the selects and the conditional       *)
(* branch of one block are lowered (LowerSELECT_CC, LowerBR_CC), matched   *)
(* to machine instructions (the patterns of BPFInstrInfo.td), and every    *)
(* Select pseudo is expanded into a diamond of blocks by                   *)
(* EmitInstrWithCustomInserter.  The block that results is then executed,  *)
(* and compared with what the source says.                                 *)
(*                                                                         *)
(* The block sits in a function of four: Pre falls through to Body, Body   *)
(* branches to the program's target or goes on to Next.  The target may be *)
(* Body itself, whose PHI then also depends on the expansion.              *)
(***************************************************************************)
EXTENDS BPFCondCodes, Sequences, SequencesExt

CONSTANTS
  Regs,        (* virtual registers                                        *)
  LiveIns,     (* those with a value before the block                      *)
  NoReg,       (* absence of a register                                    *)
  Temps,       (* the register that holds the constant of the n-th node    *)
  Programs     (* the source blocks                                        *)

Pre  == 1
Body == 2
Nxt  == 3
Far  == 4

\* An operand of a comparison is a register or a constant.
Operand == {o \in [reg : Regs \cup {NoReg}, imm : Int] : o.reg # NoReg => o.imm = 0}

IsConst(o) == o.reg = NoReg

SelectNode == {n \in [cc : Conds, lhs : Operand, rhs : Operand, dst : Regs, t : Regs, f : Regs] :
                 ~(IsConst(n.lhs) /\ IsConst(n.rhs))}
BranchNode == {n \in [cc : Conds, lhs : Operand, rhs : Operand] :
                 ~(IsConst(n.lhs) /\ IsConst(n.rhs))}

\* selects: in order; br: the branch to "target"; layout: the order of the
\* blocks; in, out: what the PHIs of the block's entry and exits read.
Program == [selects : Seq(SelectNode), br : BranchNode, target : {Body, Far},
            layout : {<<Pre, Body, Nxt, Far>>, <<Pre, Body, Far, Nxt>>},
            in : Regs, out : Regs, phi : Regs]

\* The registers a source names; the ones selection makes are new.
TempRegs == {Temps[n] : n \in DOMAIN Temps}

NodeRegs(n) == {n.lhs.reg, n.rhs.reg}

NamedRegs(p) ==
  {p.in, p.out, p.phi} \cup NodeRegs(p.br)
    \cup UNION {NodeRegs(n) \cup {n.dst, n.t, n.f} : n \in {p.selects[m] : m \in DOMAIN p.selects}}

ASSUME ProgramsAssumption ==
  /\ NoReg \notin Regs /\ LiveIns \subseteq Regs
  /\ Temps \in Seq(Regs)
  /\ Programs \subseteq Program
  /\ \A p \in Programs : Len(p.selects) < Len(Temps) /\ NamedRegs(p) \cap TempRegs = {}

VARIABLES
  prog,        (* the source                                               *)
  start,       (* the registers before the block                           *)
  dag,         (* its nodes, lowered in order: the selects, then the branch *)
  lowered,     (* how many of them are                                     *)
  code,        (* the machine instructions of each block                   *)
  order,       (* the blocks as the function lays them out                 *)
  edges,       (* the machine CFG                                          *)
  mbb,         (* the block ExpandISelPseudos is at                        *)
  pc,          (* execution: the block, the instruction, the previous block *)
  env,         (* execution: the registers                                 *)
  stage        (* "lower", "expand", "run", then "halt"; or "fatal"        *)

vars == <<prog, start, dag, lowered, code, order, edges, mbb, pc, env, stage>>

compiled == <<dag, lowered, code, order, edges, mbb>>

Phi(dst, in) == [op |-> "PHI", dst |-> dst, in |-> in]
Jump(n, to)  == [op |-> JumpOf[n.cc], lhs |-> n.lhs, rhs |-> n.rhs, to |-> to]

\* The PHI of a block: what it reads on each way in.
PhiOf(b, p) ==
  LET in == [q \in {Pre, Body} |-> IF q = Pre THEN p.in ELSE p.out]
  IN  CASE b = Body -> <<Phi(p.phi, [q \in {Pre} \cup ({Body} \cap {p.target}) |-> in[q]])>>
        [] b = Nxt  -> <<Phi(p.phi, [q \in {Body} |-> p.out])>>
        [] b = Far /\ p.target = Far -> <<Phi(p.phi, [q \in {Body} |-> p.in])>>
        [] OTHER    -> << >>

Init ==
  /\ prog \in Programs
  /\ \E live \in [LiveIns -> Values] :
       start = [r \in Regs |-> IF r \in LiveIns THEN live[r] ELSE 0]
  /\ dag = Append(prog.selects, prog.br)
  /\ lowered = 0
  /\ code = [b \in 1 .. 4 |-> PhiOf(b, prog)]
  /\ order = prog.layout
  /\ edges = [b \in 1 .. 4 |-> CASE b = Pre -> {Body} [] b = Body -> {Nxt, prog.target}
                                 [] OTHER -> {}]
  /\ mbb = Body
  /\ pc = [blk |-> Body, idx |-> 1, prev |-> Pre]
  /\ env = start
  /\ stage = "lower"

-----------------------------------------------------------------------------
(***************************************************************************)
(* Lowering and instruction selection.                                     *)
(***************************************************************************)
LowerNext ==
  /\ stage = "lower"
  /\ dag' = [dag EXCEPT ![lowered + 1] = NegateCC(@)]
  /\ lowered' = lowered + 1
  /\ UNCHANGED <<prog, start, code, order, edges, mbb, pc, env, stage>>

LowerSELECT_CC == lowered + 1 < Len(dag) /\ LowerNext
LowerBR_CC     == lowered + 1 = Len(dag) /\ LowerNext

\* A constant operand the pattern wants in a register is loaded first.
InReg(o, n)   == IF IsConst(o) THEN [reg |-> Temps[n], imm |-> 0] ELSE o
LoadOf(o, n)  == IF IsConst(o) THEN <<[op |-> "LD_imm64", dst |-> Temps[n], imm |-> o.imm]>>
                 ELSE << >>

\* The Select pseudo: two registers, and the condition code as immediate.
SelectedSelect(n) ==
  LoadOf(dag[n].lhs, n) \o LoadOf(dag[n].rhs, n) \o
  <<[op |-> "Select", cc |-> dag[n].cc, lhs |-> InReg(dag[n].lhs, n), rhs |-> InReg(dag[n].rhs, n),
     dst |-> dag[n].dst, t |-> dag[n].t, f |-> dag[n].f]>>

\* Mutant: whether an immediate fits its field is not asked.
SelectedBranch_AnyImmediate(to) ==
  LET n  == Len(dag)
      br == dag[n]
  IN  IF IsConst(br.rhs)
      THEN <<Jump(br, to)>>
      ELSE LoadOf(br.lhs, n) \o LoadOf(br.rhs, n) \o
           <<Jump([br EXCEPT !.lhs = InReg(@, n), !.rhs = InReg(@, n)], to)>>

\* J.._ri if the right operand is an immediate that fits, J.._rr otherwise.
SelectedBranch(to) ==
  LET n  == Len(dag)
      br == dag[n]
  IN  IF IsConst(br.rhs) /\ immSExt32(br.rhs.imm)
      THEN <<Jump(br, to)>>
      ELSE LoadOf(br.lhs, n) \o LoadOf(br.rhs, n) \o
           <<Jump([br EXCEPT !.lhs = InReg(@, n), !.rhs = InReg(@, n)], to)>>

\* A block that does not go on to Next falls into a JMP.
FinalJump == IF prog.layout[3] = Nxt THEN << >> ELSE <<[op |-> "JMP", to |-> Nxt]>>

\* Selection and scheduling of the block.  A code without a jump matches no
\* pattern of a branch.
SelectBlock ==
  /\ stage = "lower" /\ lowered = Len(dag)
  /\ IF dag[Len(dag)].cc \in DOMAIN JumpOf
     THEN /\ stage' = "expand"
          /\ code' = [code EXCEPT ![Body] =
               @ \o FlattenSeq([n \in 1 .. Len(dag) - 1 |-> SelectedSelect(n)])
                 \o SelectedBranch(prog.target) \o FinalJump]
     ELSE stage' = "fatal" /\ UNCHANGED code
  /\ UNCHANGED <<prog, start, dag, lowered, order, edges, mbb, pc, env>>

-----------------------------------------------------------------------------
(***************************************************************************)
(* ExpandISelPseudos hands the first pseudo of the block to                *)
(* EmitInstrWithCustomInserter and goes on in the block it returns.        *)
(***************************************************************************)
Pseudos == {n \in DOMAIN code[mbb] : code[mbb][n].op = "Select"}
First   == CHOOSE n \in Pseudos : \A m \in Pseudos : n <= m
MI      == code[mbb][First]

copy0MBB == Len(code) + 1
copy1MBB == Len(code) + 2

\* transferSuccessorsAndUpdatePHIs: the PHIs of BB's successors, BB's own
\* among them if it loops, name copy1MBB where they named BB.
Renamed(in) == [q \in (DOMAIN in \ {mbb}) \cup {copy1MBB} |->
                  in[IF q = copy1MBB THEN mbb ELSE q]]

UpdatePHIs(s) ==
  [n \in DOMAIN s |-> IF s[n].op = "PHI" /\ mbb \in DOMAIN s[n].in
                      THEN [s[n] EXCEPT !.in = Renamed(@)] ELSE s[n]]

\* Mutant: the PHIs of the successors are not updated.
transferred_NoUpdate == code

\* The PHIs after transferSuccessorsAndUpdatePHIs.
transferred == [b \in DOMAIN code |-> IF b \in edges[mbb] THEN UpdatePHIs(code[b]) ELSE code[b]]

\* Mutant: the values of the PHI are taken from the wrong sides.
SelectPhi_Crossed ==
  Phi(MI.dst, [q \in {copy0MBB, mbb} |-> IF q = copy0MBB THEN MI.t ELSE MI.f])

\* The PHI of copy1MBB: the false value through copy0MBB, the true one from BB.
SelectPhi == Phi(MI.dst, [q \in {copy0MBB, mbb} |-> IF q = copy0MBB THEN MI.f ELSE MI.t])

\* The place of BB among the blocks: after it is where the iterator points.
I == CHOOSE n \in DOMAIN order : order[n] = mbb

inserted(blocks) == SubSeq(order, 1, I) \o blocks \o SubSeq(order, I + 1, Len(order))

\* Mutant: the block of the false value is created and not inserted.
insertAfter_OneBlock == inserted(<<copy1MBB>>)

\* F->insert, twice: both blocks directly after BB.
insertAfter == inserted(<<copy0MBB, copy1MBB>>)

\* The diamond: BB ends with the jump to copy1MBB, falls through to copy0MBB,
\* which is empty, and that to copy1MBB, which has the PHI and the rest of BB.
InsertDiamond ==
  /\ code' =
       [transferred EXCEPT ![mbb] = SubSeq(@, 1, First - 1) \o <<Jump(MI, copy1MBB)>>]
         \o << << >>,  <<SelectPhi>> \o SubSeq(code[mbb], First + 1, Len(code[mbb])) >>
  /\ order' = insertAfter
  /\ edges' = [edges EXCEPT ![mbb] = {copy0MBB, copy1MBB}] \o <<{copy1MBB}, edges[mbb]>>
  /\ mbb' = copy1MBB
  /\ UNCHANGED stage

\* A condition code outside the switch is reported as a fatal error.
EmitInstrWithCustomInserter ==
  /\ stage = "expand" /\ Pseudos # {}
  /\ IF MI.cc \in DOMAIN JumpOf
     THEN InsertDiamond
     ELSE stage' = "fatal" /\ UNCHANGED <<code, order, edges, mbb>>
  /\ UNCHANGED <<prog, start, dag, lowered, pc, env>>

ExpansionDone ==
  /\ stage = "expand" /\ Pseudos = {}
  /\ stage' = "run"
  /\ UNCHANGED <<prog, start, compiled, pc, env>>

-----------------------------------------------------------------------------
(***************************************************************************)
(* Execution of the machine code, from Body's first instruction until one  *)
(* of the four original blocks is entered again and its PHI evaluated.     *)
(***************************************************************************)
Value(o, e) == IF IsConst(o) THEN o.imm % WordMod ELSE e[o.reg]

AfterPhi(i, prev, e) == [e EXCEPT ![i.dst] = e[i.in[prev]]]

Insn == code[pc.blk][pc.idx]
Running == stage = "run"
InBlock == pc.idx <= Len(code[pc.blk])

Advance == pc' = [pc EXCEPT !.idx = @ + 1]

Goto(b) ==
  /\ pc' = [blk |-> b, idx |-> 1, prev |-> pc.blk]
  /\ IF b \in 1 .. 4
     THEN /\ stage' = "halt"
          /\ env' = IF code[b] = << >> THEN env ELSE AfterPhi(code[b][1], pc.blk, env)
     ELSE UNCHANGED <<stage, env>>

RunPhi ==
  /\ Running /\ InBlock /\ Insn.op = "PHI"
  /\ env' = AfterPhi(Insn, pc.prev, env)
  /\ Advance
  /\ UNCHANGED <<prog, start, compiled, stage>>

RunLoad ==
  /\ Running /\ InBlock /\ Insn.op = "LD_imm64"
  /\ env' = [env EXCEPT ![Insn.dst] = Insn.imm % WordMod]
  /\ Advance
  /\ UNCHANGED <<prog, start, compiled, stage>>

IsCompare(i) == i.op \notin {"PHI", "LD_imm64", "Select", "JMP"}

\* A jump has an immediate cut to its field, and extends the sign.
Field(n) == LET w == n % ImmMod IN IF 2 * w < ImmMod THEN w ELSE w - ImmMod

Compared(o, e) == IF IsConst(o) THEN Field(o.imm) % WordMod ELSE e[o.reg]

RunBranch ==
  /\ Running /\ InBlock /\ IsCompare(Insn)
  /\ IF Taken(Insn.op, Compared(Insn.lhs, env), Compared(Insn.rhs, env))
     THEN Goto(Insn.to)
     ELSE Advance /\ UNCHANGED <<env, stage>>
  /\ UNCHANGED <<prog, start, compiled>>

RunJump ==
  /\ Running /\ InBlock /\ Insn.op = "JMP" /\ Goto(Insn.to)
  /\ UNCHANGED <<prog, start, compiled>>

\* The block that follows b in the function; there is none after the last.
Follower(s, b) == {s[n + 1] : n \in {m \in 1 .. Len(s) - 1 : s[m] = b}}

FallThrough ==
  /\ Running /\ ~InBlock
  /\ \E b \in Follower(order, pc.blk) : Goto(b)
  /\ UNCHANGED <<prog, start, compiled>>

Compile == LowerSELECT_CC \/ LowerBR_CC \/ SelectBlock \/ EmitInstrWithCustomInserter
             \/ ExpansionDone

Run == RunPhi \/ RunLoad \/ RunBranch \/ RunJump \/ FallThrough

Next == Compile \/ Run

\* The compiler is one thread that ends, and so is the program it compiles.
Spec == Init /\ [][Next]_vars /\ WF_vars(Next)

-----------------------------------------------------------------------------
(***************************************************************************)
(* Properties.                                                             *)
(***************************************************************************)

\* Type invariant.
TypeOK ==
  /\ prog \in Programs
  /\ start \in [Regs -> Values] /\ env \in [Regs -> Values]
  /\ lowered \in 0 .. Len(dag)
  /\ \A n \in DOMAIN dag : dag[n].cc \in Conds
  /\ DOMAIN edges = DOMAIN code /\ \A b \in DOMAIN code : edges[b] \subseteq DOMAIN code
  /\ Len(order) = Len(code) /\ {order[n] : n \in DOMAIN order} = DOMAIN code
  /\ mbb \in DOMAIN code /\ pc.blk \in DOMAIN code /\ pc.prev \in DOMAIN code
  /\ pc.idx \in 1 .. Len(code[pc.blk]) + 1
  /\ stage \in {"lower", "expand", "run", "halt", "fatal"}

\* A lowered node compares the operands of its source, and there is a jump
\* that is taken for exactly the values for which the source holds.
Source(n) == Append(prog.selects, prog.br)[n]

ComparesAs(d, s) ==
  /\ {d.lhs, d.rhs} = {s.lhs, s.rhs}
  /\ d.cc \in DOMAIN JumpOf
  /\ \A v \in [{s.lhs, s.rhs} -> Values] :
       Taken(JumpOf[d.cc], v[d.lhs], v[d.rhs]) = Holds(s.cc, v[s.lhs], v[s.rhs])

LoweredFaithfully == \A n \in 1 .. lowered : ComparesAs(dag[n], Source(n))

\* What the source block computes: its selects in order, then its branch.
EvalSelect(e, n) ==
  [e EXCEPT ![n.dst] = IF Holds(n.cc, Value(n.lhs, e), Value(n.rhs, e)) THEN e[n.t] ELSE e[n.f]]

\* The registers at the block's entry, and after each select.
RegsAfter[n \in 0 .. Len(prog.selects)] ==
  IF n = 0 THEN [start EXCEPT ![prog.phi] = start[prog.in]]
  ELSE EvalSelect(RegsAfter[n - 1], prog.selects[n])

SourceEnv == RegsAfter[Len(prog.selects)]

SourceTarget ==
  IF Holds(prog.br.cc, Value(prog.br.lhs, SourceEnv), Value(prog.br.rhs, SourceEnv))
  THEN prog.target ELSE Nxt

SourcePhi == [SourceEnv EXCEPT ![prog.phi] =
                SourceEnv[IF SourceTarget = Far THEN prog.in ELSE prog.out]]

\* The machine code leaves the block the way the source does, with the same
\* values: for every condition code, signed and unsigned, constants that fit
\* and that do not, and any number of selects expanded in a row.
ResultsAgree ==
  stage = "halt" =>
    /\ pc.blk = SourceTarget
    /\ \A r \in Regs \ TempRegs : env[r] = SourcePhi[r]

\* Between two expansions, the CFG is what the code does: jumps, and a fall
\* through to the next block in the function; and every PHI has an entry for
\* each predecessor and no other.
IsBarrier(s) == s # << >> /\ s[Len(s)].op = "JMP"

CodeExits(b) ==
  {code[b][n].to : n \in {m \in DOMAIN code[b] : IsCompare(code[b][m]) \/ code[b][m].op = "JMP"}}
    \cup (IF IsBarrier(code[b]) THEN {} ELSE Follower(order, b))

Predecessors(b) == {q \in DOMAIN code : b \in edges[q]}

CFGConsistent ==
  stage \in {"expand", "run"} =>
    /\ \A b \in DOMAIN code \ {Nxt, Far} : CodeExits(b) = edges[b]
    /\ \A b \in DOMAIN code : \A n \in DOMAIN code[b] :
         code[b][n].op = "PHI" => DOMAIN code[b][n].in = Predecessors(b)

\* Every block compiles, and the code that results gets to an exit: no
\* condition code reaches the default of a switch, and no expansion closes a
\* loop.
Completes == <>(stage = "halt")
=============================================================================
