------------------------------ MODULE BPFBranch ------------------------------
(***************************************************************************)
(* BPFInstrInfo::AnalyzeBranch, RemoveBranch and InsertBranch, one step    *)
(* per iteration of their loops, between the passes of LLVM that call      *)
(* them: the branch folder, which lets AnalyzeBranch rewrite the block,    *)
(* and block placement, which moves blocks and then has updateTerminator   *)
(* repair the branches.  The passes are external and are modelled from the *)
(* contract of the three hooks.                                            *)
(*                                                                         *)
(* A block is the sequence of its instructions, of which only the part     *)
(* that matters to control flow is kept.                                   *)
(***************************************************************************)
EXTENDS Naturals, Sequences, FiniteSets

CONSTANTS
  Blocks,      (* the basic blocks of a function                           *)
  NoBlock,     (* a null MachineBasicBlock pointer                         *)
  Entry,       (* the entry block, always first                            *)
  Bodies       (* the instruction sequences a block may start with         *)

ASSUME BlocksAssumption == NoBlock \notin Blocks /\ Entry \in Blocks /\ IsFiniteSet(Blocks)

\* A conditional or unconditional jump has a target, other instructions none.
Instr == {i \in [k : {"op", "dbg", "jcc", "jmp", "ret"}, t : Blocks \cup {NoBlock}] :
            i.t # NoBlock <=> i.k \in {"jcc", "jmp"}}

\* A machine basic block has its terminators at the end: no other instruction
\* but a debug value comes after one.
Terminators == {"jcc", "jmp", "ret"}

WellFormed == {s \in Seq(Instr) :
                 \A m, n \in DOMAIN s : m < n /\ s[m].k \in Terminators => s[n].k # "op"}

ASSUME BodiesAssumption == Bodies \subseteq WellFormed

VARIABLES
  code,        (* the instructions of each block                           *)
  layout,      (* the block that follows each one in the function, or NoBlock *)
  edges,       (* the successor lists of the machine CFG                   *)
  stale,       (* blocks moved by placement, not yet given to updateTerminator *)
  call         (* the hook being executed and its local variables          *)

vars == <<code, layout, edges, stale, call>>

Jumps == {"jcc", "jmp"}

\* The instructions after which control does not go on.
Barriers(s) == {n \in DOMAIN s : s[n].k \in {"jmp", "ret"}}

\* Where execution of s goes when the next block in the function is "next":
\* the targets of the jumps up to the first barrier, and the next block if
\* there is no barrier.
Exits(s, next) ==
  {s[n].t : n \in {m \in DOMAIN s : s[m].k \in Jumps /\ \A b \in Barriers(s) : m <= b}}
    \cup (IF Barriers(s) = {} THEN {next} ELSE {})

\* Whether following "layout" from the entry meets every block once.
IsLayout(l) ==
  \E order \in [1 .. Cardinality(Blocks) -> Blocks] :
    /\ order[1] = Entry
    /\ \A b \in Blocks : \E n \in DOMAIN order : order[n] = b
    /\ l = [b \in Blocks |->
              LET n == CHOOSE m \in DOMAIN order : order[m] = b
              IN  IF n + 1 \in DOMAIN order THEN order[n + 1] ELSE NoBlock]

Layouts == {l \in [Blocks -> Blocks \cup {NoBlock}] : IsLayout(l)}

\* op: what is running, or how it ended; I: the iterator, where Len + 1 is
\* MBB.end(); TBB: the result; modify: AllowModify; failed: the return value.
Idle == [op |-> "idle", blk |-> NoBlock, I |-> 1, TBB |-> NoBlock,
         modify |-> FALSE, failed |-> FALSE]

Init ==
  /\ code \in [Blocks -> Bodies]
  /\ layout \in Layouts
  /\ edges = [b \in Blocks |-> Exits(code[b], layout[b])]
  /\ \A b \in Blocks : edges[b] \subseteq Blocks
  /\ stale = {}
  /\ call = Idle

-----------------------------------------------------------------------------
(***************************************************************************)
(* AnalyzeBranch.  Each iteration looks at the instruction before I.       *)
(***************************************************************************)
MBB  == code[call.blk]
Prev == MBB[call.I - 1]

Analyzing == call.op = "analyze"

Return(failed) ==
  /\ call' = [call EXCEPT !.op = "analyzed", !.failed = failed]
  /\ UNCHANGED <<code, layout, edges, stale>>

AnalyzeBranch(b, modify) ==
  /\ call' = [op |-> "analyze", blk |-> b, I |-> Len(code[b]) + 1, TBB |-> NoBlock,
              modify |-> modify, failed |-> FALSE]
  /\ UNCHANGED <<code, layout, edges, stale>>

\* while (I != MBB.begin()) is over.
ReachBegin == Analyzing /\ call.I = 1 /\ Return(FALSE)

\* A debug value is skipped.
SkipDebugValue ==
  /\ Analyzing /\ call.I > 1 /\ Prev.k = "dbg"
  /\ call' = [call EXCEPT !.I = @ - 1]
  /\ UNCHANGED <<code, layout, edges, stale>>

\* A non-terminator ends the analysis.
StopAtBody == Analyzing /\ call.I > 1 /\ Prev.k = "op" /\ Return(FALSE)

\* A terminator that is no branch, or a conditional branch, is not handled.
GiveUp == Analyzing /\ call.I > 1 /\ Prev.k \in {"ret", "jcc"} /\ Return(TRUE)

\* JMP, and the block must not be modified: remember the target.
ReadJump ==
  /\ Analyzing /\ call.I > 1 /\ Prev.k = "jmp" /\ ~call.modify
  /\ call' = [call EXCEPT !.TBB = Prev.t, !.I = @ - 1]
  /\ UNCHANGED <<code, layout, edges, stale>>

\* Mutant: the scan resumes at the erased JMP's place without erasing it.
FoldJump_NotErased ==
  /\ Analyzing /\ call.I > 1 /\ Prev.k = "jmp" /\ call.modify
  /\ Prev.t = layout[call.blk]
  /\ code' = [code EXCEPT ![call.blk] = SubSeq(MBB, 1, call.I - 1)]
  /\ call' = [call EXCEPT !.TBB = NoBlock, !.I = call.I]
  /\ UNCHANGED <<layout, edges, stale>>

\* Mutant: the JMP is taken for a fall-through wherever it goes.
FoldJump_AnyTarget ==
  /\ Analyzing /\ call.I > 1 /\ Prev.k = "jmp" /\ call.modify
  /\ code' = [code EXCEPT ![call.blk] = SubSeq(MBB, 1, call.I - 2)]
  /\ call' = [call EXCEPT !.TBB = NoBlock, !.I = call.I - 1]
  /\ UNCHANGED <<layout, edges, stale>>

\* JMP to the layout successor: erase what follows it and the JMP itself,
\* and start again from the end of the block.
FoldJump ==
  /\ Analyzing /\ call.I > 1 /\ Prev.k = "jmp" /\ call.modify
  /\ Prev.t = layout[call.blk]
  /\ code' = [code EXCEPT ![call.blk] = SubSeq(MBB, 1, call.I - 2)]
  /\ call' = [call EXCEPT !.TBB = NoBlock, !.I = call.I - 1]
  /\ UNCHANGED <<layout, edges, stale>>

\* Mutant: the instructions after a kept JMP are left in the block.
KeepJump_DeadCodeStays ==
  /\ Analyzing /\ call.I > 1 /\ Prev.k = "jmp" /\ call.modify
  /\ Prev.t # layout[call.blk]
  /\ call' = [call EXCEPT !.TBB = Prev.t, !.I = @ - 1]
  /\ UNCHANGED <<code, layout, edges, stale>>

\* Mutant: the last target seen from below is kept.
KeepJump_FirstSeen ==
  /\ Analyzing /\ call.I > 1 /\ Prev.k = "jmp" /\ call.modify
  /\ Prev.t # layout[call.blk]
  /\ code' = [code EXCEPT ![call.blk] = SubSeq(MBB, 1, call.I - 1)]
  /\ call' = [call EXCEPT !.TBB = IF @ = NoBlock THEN Prev.t ELSE @, !.I = @ - 1]
  /\ UNCHANGED <<layout, edges, stale>>

\* JMP elsewhere: erase what follows it and remember the target.
KeepJump ==
  /\ Analyzing /\ call.I > 1 /\ Prev.k = "jmp" /\ call.modify
  /\ Prev.t # layout[call.blk]
  /\ code' = [code EXCEPT ![call.blk] = SubSeq(MBB, 1, call.I - 1)]
  /\ call' = [call EXCEPT !.TBB = Prev.t, !.I = @ - 1]
  /\ UNCHANGED <<layout, edges, stale>>

AnalyzeStep ==
  \/ ReachBegin \/ SkipDebugValue \/ StopAtBody \/ GiveUp
  \/ ReadJump \/ FoldJump \/ KeepJump

-----------------------------------------------------------------------------
(***************************************************************************)
(* RemoveBranch and InsertBranch.                                          *)
(***************************************************************************)
Removing == call.op = "remove"

\* Begin RemoveBranch on the block just analyzed.
RemoveBranch ==
  /\ call' = [call EXCEPT !.op = "remove", !.I = Len(MBB) + 1]
  /\ UNCHANGED <<code, layout, edges, stale>>

SkipDebugValueBeforeErase ==
  /\ Removing /\ call.I > 1 /\ Prev.k = "dbg"
  /\ call' = [call EXCEPT !.I = @ - 1]
  /\ UNCHANGED <<code, layout, edges, stale>>

\* Mutant: I is not set to MBB.end() again.
EraseJump_IteratorKept ==
  /\ Removing /\ call.I > 1 /\ Prev.k = "jmp"
  /\ code' = [code EXCEPT ![call.blk] =
                SubSeq(MBB, 1, call.I - 2) \o SubSeq(MBB, call.I, Len(MBB))]
  /\ UNCHANGED <<layout, edges, stale, call>>

\* A JMP is erased, debug values after it stay, and I restarts at the end.
EraseJump ==
  /\ Removing /\ call.I > 1 /\ Prev.k = "jmp"
  /\ code' = [code EXCEPT ![call.blk] =
                SubSeq(MBB, 1, call.I - 2) \o SubSeq(MBB, call.I, Len(MBB))]
  /\ call' = [call EXCEPT !.I = Len(MBB)]
  /\ UNCHANGED <<layout, edges, stale>>

\* The first instruction from below that is neither, or the beginning of the
\* block, ends the loop.
StopRemoving ==
  /\ Removing
  /\ call.I > 1 => Prev.k \notin {"dbg", "jmp"}
  /\ call' = [call EXCEPT !.op = "removed"]
  /\ UNCHANGED <<code, layout, edges, stale>>

RemoveStep == SkipDebugValueBeforeErase \/ EraseJump \/ StopRemoving

\* BuildMI appends at the end of the block; Cond is empty, FBB is null and
\* TBB is not, as InsertBranch asserts.
InsertBranch(t) ==
  /\ t # NoBlock
  /\ code' = [code EXCEPT ![call.blk] = Append(@, [k |-> "jmp", t |-> t])]

-----------------------------------------------------------------------------
(***************************************************************************)
(* The passes that call the hooks.                                         *)
(***************************************************************************)

\* The branch folder analyzes any block and lets the hook modify it.
FoldBlock(b) == call.op = "idle" /\ stale = {} /\ AnalyzeBranch(b, TRUE)

\* It has no more to do with the block, ...
FoldingDone ==
  /\ call.op = "analyzed" /\ call.modify
  /\ call' = Idle
  /\ UNCHANGED <<code, layout, edges, stale>>

\* ... or replaces its branch, if the analysis found one.
FoldingReplaces ==
  /\ call.op = "analyzed" /\ call.modify /\ ~call.failed /\ call.TBB # NoBlock
  /\ RemoveBranch

FoldingReinserts ==
  /\ call.op = "removed" /\ call.modify
  /\ InsertBranch(call.TBB)
  /\ call' = Idle
  /\ UNCHANGED <<layout, edges, stale>>

\* AnalyzeBranch would return true: a conditional branch or a return is the
\* first thing from below that is neither a debug value nor a JMP.
Unanalyzable(s) ==
  \E n \in DOMAIN s : /\ s[n].k \in {"jcc", "ret"}
                      /\ \A m \in DOMAIN s : m > n => s[m].k \in {"dbg", "jmp"}

\* MachineBasicBlock::canFallThrough of a block that cannot be analyzed.
MayFallThrough(b) ==
  /\ layout[b] \in edges[b]
  /\ code[b] = << >> \/ code[b][Len(code[b])].k \notin {"jmp", "ret"}

\* Block placement keeps a block that cannot be analyzed and may fall through
\* together with its successor; the others are updated one by one.
Relayout(l) ==
  /\ call.op = "idle" /\ stale = {}
  /\ \A b \in Blocks : Unanalyzable(code[b]) /\ MayFallThrough(b) => l[b] = layout[b]
  /\ layout' = l
  /\ stale' = {b \in Blocks : ~Unanalyzable(code[b])}
  /\ UNCHANGED <<code, edges, call>>

\* MachineBasicBlock::updateTerminator.
UpdateTerminator(b) == call.op = "idle" /\ b \in stale /\ AnalyzeBranch(b, FALSE)

Updating == call.op = "analyzed" /\ ~call.modify

UpdateDone ==
  /\ call' = Idle
  /\ stale' = stale \ {call.blk}
  /\ UNCHANGED <<layout, edges>>

\* The branch goes to the next block now: remove it.
UpdateRemoves ==
  /\ Updating /\ call.TBB # NoBlock /\ call.TBB = layout[call.blk]
  /\ RemoveBranch

UpdateRemoved == call.op = "removed" /\ ~call.modify /\ UpdateDone /\ UNCHANGED code

\* The block falls through, but not to its successor any more: branch to it.
UpdateInserts ==
  /\ Updating /\ call.TBB = NoBlock
  /\ \E t \in edges[call.blk] : t # layout[call.blk] /\ InsertBranch(t)
  /\ UpdateDone

\* The branch, or the fall-through, is right as it is.
UpdateKeeps ==
  /\ Updating
  /\ \/ call.TBB # NoBlock /\ call.TBB # layout[call.blk]
     \/ call.TBB = NoBlock /\ edges[call.blk] \subseteq {layout[call.blk]}
  /\ UpdateDone /\ UNCHANGED code

Next ==
  \/ AnalyzeStep
  \/ RemoveStep
  \/ \E b \in Blocks : FoldBlock(b)
  \/ FoldingDone \/ FoldingReplaces \/ FoldingReinserts
  \/ \E l \in Layouts : Relayout(l)
  \/ \E b \in Blocks : UpdateTerminator(b)
  \/ UpdateRemoves \/ UpdateRemoved \/ UpdateInserts \/ UpdateKeeps

\* A hook that is called runs to its end: the compiler is one thread.
Spec == Init /\ [][Next]_vars /\ WF_vars(AnalyzeStep \/ RemoveStep)

-----------------------------------------------------------------------------
(***************************************************************************)
(* Properties.                                                             *)
(***************************************************************************)
TypeOK ==
  /\ code \in [Blocks -> Seq(Instr)]
  /\ layout \in [Blocks -> Blocks \cup {NoBlock}]
  /\ edges \in [Blocks -> SUBSET Blocks]
  /\ stale \subseteq Blocks
  /\ call \in [op : {"idle", "analyze", "analyzed", "remove", "removed"},
               blk : Blocks \cup {NoBlock}, I : Nat, TBB : Blocks \cup {NoBlock},
               modify : BOOLEAN, failed : BOOLEAN]
  /\ call.op # "idle" => call.blk \in Blocks /\ call.I \in 1 .. Len(MBB) + 1

\* A block between RemoveBranch and what its caller does next.
UnderRepair(b) == call.op \in {"remove", "removed"} /\ call.blk = b

\* Whatever the hooks erase, insert or move, the code of every block goes
\* exactly where the CFG says, at every step of the loops: also when
\* AnalyzeBranch has changed a block and then says it cannot analyze it.
EdgesPreserved ==
  \A b \in Blocks \ stale : ~UnderRepair(b) => Exits(code[b], layout[b]) = edges[b]

\* What AnalyzeBranch reports is what the block does: TBB is its only exit,
\* and no TBB is a fall-through.
AnalysisTruthful ==
  call.op = "analyzed" /\ ~call.failed =>
    Exits(MBB, layout[call.blk]) =
      {IF call.TBB = NoBlock THEN layout[call.blk] ELSE call.TBB}

\* After a modifying analysis, successful or not, no JMP below the last other
\* terminator goes to the next block, and nothing follows one that is kept.
FoldedBlocksTidy ==
  call.op = "analyzed" /\ call.modify =>
    \A n \in DOMAIN MBB :
      MBB[n].k = "jmp" /\ (\A m \in DOMAIN MBB : m > n => MBB[m].k # "jcc" /\ MBB[m].k # "ret") =>
        n = Len(MBB) /\ MBB[n].t # layout[call.blk]

\* Every call returns, although both loops start again from the end of the
\* block when they erase an instruction.
CallsReturn == (call.op \in {"analyze", "remove"}) ~> (call.op \in {"analyzed", "removed"})
=============================================================================
