------------------------------- MODULE BPFCall --------------------------------
(***************************************************************************)
(* Calls.  A module is compiled function by function: the arguments with   *)
(* LowerFormalArguments, each call with LowerCall and LowerCallResult, the *)
(* return with LowerReturn, and the frame with the hook that precedes the  *)
(* scan for callee-saved registers.  Then its entry function is run.       *)
(*                                                                         *)
(* Values are opaque, and all of the legal type, i64: smaller ones have    *)
(* been extended, larger ones split into parts, before these functions see *)
(* them, so a location never asks for a promotion.                         *)
(***************************************************************************)
EXTENDS Naturals, Sequences, SequencesExt, FiniteSets

CONSTANTS
  Values,      (* of constants and of what kernel functions return         *)
  Junk,        (* what nobody has written                                  *)
  VRegs,       (* virtual registers of a function                          *)
  HomeRegs,    (* callee-saved registers the allocator uses                *)
  Keepers,     (* functions, by number, to which it gives some             *)
  Modules      (* the sources: sequences of functions, the first is run    *)

ArgRegs   == <<"R1", "R2", "R3", "R4", "R5">>
RetRegs   == <<"R0">>
Clobbered == {"R0", "R1", "R2", "R3", "R4", "R5"}
CSR       == {"R6", "R7", "R8", "R9", "R10"}
Slot      == "slot"

ASSUME ValueAssumption == Junk \notin Values
ASSUME HomeAssumption  == HomeRegs \subseteq CSR \ {"R10"}

\* Statements: a constant, a call and a return.  A callee is a function of the
\* module, by number, or a kernel function, by its global name or address, or
\* something a call cannot name.
Callees == [k : {"function"}, n : Nat] \cup [k : {"global", "imm", "extern", "register"}, n : {0}]

Statement ==
  [k : {"const"}, dst : VRegs, val : Values]
    \cup [k : {"call"}, callee : Callees, cc : {"C", "Fast", "other"}, byval : BOOLEAN,
          args : Seq(VRegs), dst : Seq(VRegs)]
    \cup [k : {"ret"}, vals : Seq(VRegs)]

Function ==
  [cc : {"C", "Fast", "other"}, vararg : BOOLEAN, sret : BOOLEAN,
   params : Seq(VRegs), body : Seq(Statement)]

\* What the IR guarantees of a module: a body ends in a return, parameters are
\* different variables, and a call of a function of the module has its signature.
WellFormed(m) ==
  \A g \in DOMAIN m :
    LET body == m[g].body
    IN  /\ body # << >> /\ body[Len(body)].k = "ret"
        /\ IsInjective(m[g].params)
        /\ \A n \in DOMAIN body :
             body[n].k = "call" /\ body[n].callee.k = "function" =>
               LET callee == body[n].callee.n
               IN  /\ callee \in DOMAIN m
                   /\ Len(body[n].args) = Len(m[callee].params)
                   /\ \A r \in DOMAIN m[callee].body : m[callee].body[r].k = "ret" =>
                        Len(m[callee].body[r].vals) = Len(body[n].dst)

ASSUME ModuleAssumption == \A m \in Modules : m \in Seq(Function) /\ m # << >> /\ WellFormed(m)

VARIABLES
  module,      (* the source                                               *)
  f,           (* the function being compiled                              *)
  at,          (* its next statement; 0: its arguments                     *)
  code,        (* code[f]: instructions of the functions compiled so far   *)
  home,        (* home[f]: where each virtual register lives               *)
  stage,       (* "lower", "frame", "run", "halt", "rejected", "unreachable" *)
  regs,        (* execution: the registers                                 *)
  stack,       (* execution: the activations                               *)
  trace        (* execution: what the kernel has seen in the registers     *)

vars == <<module, f, at, code, home, stage, regs, stack, trace>>

Init ==
  /\ module \in Modules
  /\ f = 1 /\ at = 0
  /\ code = [g \in DOMAIN module |-> << >>]
  /\ home = [g \in DOMAIN module |-> [v \in VRegs |-> Slot]]
  /\ stage = "lower"
  /\ regs = [r \in Clobbered \cup CSR |-> Junk] /\ stack = << >> /\ trace = << >>

-----------------------------------------------------------------------------
(***************************************************************************)
(* The calling convention: where n arguments, or results, go.              *)
(***************************************************************************)
CC_BPF64(n)    == [i \in 1 .. n |-> IF i <= Len(ArgRegs) THEN ArgRegs[i] ELSE "mem"]
RetCC_BPF64(n) == [i \in 1 .. n |-> IF i <= Len(RetRegs) THEN RetRegs[i] ELSE "none"]

(***************************************************************************)
(* Instructions.  "uses" are the registers known to be live into a call or *)
(* a return, "n" is the statement it does, or 0.                           *)
(***************************************************************************)
Insn(op, reg, v, val, uses, n) ==
  [op |-> op, reg |-> reg, v |-> v, val |-> val, uses |-> uses, n |-> n]

CopyTo(reg, v)   == Insn("CopyTo", reg, v, Junk, {}, 0)
CopyFrom(reg, v) == Insn("CopyFrom", reg, v, Junk, {}, 0)
LoadImm(v, val, n) == Insn("LD_imm64", "none", v, val, {}, n)
JAL(uses, n)     == Insn("JAL", "none", "none", Junk, uses, n)
RET(uses, n)     == Insn("RET", "none", "none", Junk, uses, n)
ADJCALLSTACK(op) == Insn(op, "none", "none", Junk, {}, 0)

CopiesTo(locs, vs)   == [i \in DOMAIN vs |-> CopyTo(locs[i], vs[i])]
CopiesFrom(locs, vs) == [i \in DOMAIN vs |-> CopyFrom(locs[i], vs[i])]

Emit(s)    == code' = [code EXCEPT ![f] = @ \o s]
Reject     == stage' = "rejected" /\ UNCHANGED <<at, code>>
Unreached  == stage' = "unreachable" /\ UNCHANGED <<at, code>>
NextOne    == at' = at + 1 /\ UNCHANGED stage

-----------------------------------------------------------------------------
(***************************************************************************)
(* Lowering.                                                               *)
(***************************************************************************)

\* Mutant: a location on the stack is not rejected.
LowerFormalArguments_StackToo(fn) ==
  IF fn.cc = "other" THEN Unreached
  ELSE IF fn.vararg \/ fn.sret THEN Reject
  ELSE Emit(CopiesFrom(CC_BPF64(Len(fn.params)), fn.params)) /\ NextOne

LowerFormalArguments(fn) ==
  LET locs == CC_BPF64(Len(fn.params))
  IN  IF fn.cc = "other" THEN Unreached
      ELSE IF "mem" \in {locs[i] : i \in DOMAIN locs} \/ fn.vararg \/ fn.sret THEN Reject
      ELSE Emit(CopiesFrom(locs, fn.params)) /\ NextOne

LowerConst(s) ==
  /\ Emit(<<LoadImm(s.dst, s.val, at)>>) /\ NextOne

LowerCallResult(s) == CopiesFrom(RetCC_BPF64(Len(s.dst)), s.dst)

\* Mutant: off by one.
CallRejected_SixFit(s) == s.cc = "other" \/ Len(s.args) > 6 \/ s.byval

\* The fatal errors of LowerCall.
CallRejected(s) == s.cc = "other" \/ Len(s.args) >= 6 \/ s.byval

\* Mutant: the argument registers are not operands of the call.
CallOperands_None(locs) == {}

\* "Add argument registers to the end of the list so that they are known live
\* into the call."
CallOperands(locs) == {locs[i] : i \in DOMAIN locs}

\* There is a pattern for a global address and for an immediate only.
Selectable(callee) == callee.k \in {"function", "global", "imm"}

LowerCall(s) ==
  LET locs == CC_BPF64(Len(s.args))
  IN  IF CallRejected(s) THEN Reject
      ELSE IF "mem" \in CallOperands(locs) \/ Len(s.dst) > Len(RetRegs) THEN Unreached
      ELSE IF ~Selectable(s.callee) THEN Reject
      ELSE /\ Emit(<<ADJCALLSTACK("DOWN")>> \o CopiesTo(locs, s.args)
                     \o <<JAL(CallOperands(locs), at), ADJCALLSTACK("UP")>>
                     \o LowerCallResult(s))
           /\ NextOne

LowerReturn(s) ==
  LET locs == RetCC_BPF64(Len(s.vals))
  IN  IF Len(s.vals) > Len(RetRegs) THEN Unreached
      ELSE IF module[f].sret THEN Reject
      ELSE /\ Emit(CopiesTo(locs, s.vals) \o <<RET({locs[i] : i \in DOMAIN locs}, at)>>)
           /\ NextOne

LowerNext ==
  /\ stage = "lower"
  /\ IF at = 0 THEN LowerFormalArguments(module[f])
     ELSE IF at > Len(module[f].body)
     THEN stage' = "frame" /\ UNCHANGED <<at, code>>
     ELSE LET s == module[f].body[at]
          IN  \/ s.k = "const" /\ LowerConst(s)
              \/ s.k = "call" /\ LowerCall(s)
              \/ s.k = "ret" /\ LowerReturn(s)
  /\ UNCHANGED <<module, f, home, regs, stack, trace>>

-----------------------------------------------------------------------------
(***************************************************************************)
(* The rest of code generation: copies to registers that nothing uses are  *)
(* deleted, the call frame pseudos are erased, and every virtual register  *)
(* gets a slot of the frame or a register that calls do not clobber.  (One *)
(* that no call crosses may get another; the allocator keeps it apart from *)
(* the copies.)                                                            *)
(***************************************************************************)
NextUser(c, n) == CHOOSE m \in n .. Len(c) : /\ c[m].op \in {"JAL", "RET"}
                                             /\ \A k \in n .. m - 1 : c[k].op \notin {"JAL", "RET"}

Dead(c, n) == c[n].op = "CopyTo" /\ c[n].reg \notin c[NextUser(c, n)].uses

Without(c, gone) == FlattenSeq([n \in DOMAIN c |-> IF n \in gone THEN << >> ELSE <<c[n]>>])

eliminateCallFramePseudoInstr(c) == Without(c, {n \in DOMAIN c : c[n].op \in {"DOWN", "UP"}})

LiveCode(c) == Without(c, {n \in DOMAIN c : Dead(c, n)})

AllocateHomes(h) ==
  /\ stage = "frame"
  /\ \A v, w \in VRegs : h[v] = h[w] /\ h[v] # Slot => v = w
  /\ (f \notin Keepers) => \A v \in VRegs : h[v] = Slot
  /\ home' = [home EXCEPT ![f] = h]
  /\ code' = [code EXCEPT ![f] = eliminateCallFramePseudoInstr(LiveCode(@))]
  /\ IF f < Len(module) THEN f' = f + 1 /\ at' = 0 /\ stage' = "lower"
                        ELSE UNCHANGED <<f, at>> /\ stage' = "run"
  /\ UNCHANGED <<module, regs, stack, trace>>

\* R6 to R9 are marked unused before the scan for registers to save.
processFunctionBeforeCalleeSavedScan(used) == used \ {"R6", "R7", "R8", "R9"}

SavedRegs(g) == CSR \cap processFunctionBeforeCalleeSavedScan({home[g][v] : v \in VRegs})

-----------------------------------------------------------------------------
(***************************************************************************)
(* Execution.  An activation has its slots and the saved registers and,    *)
(* for comparison, the registers it was entered with.                      *)
(***************************************************************************)
Activation(g) ==
  [g |-> g, pc |-> 1, slots |-> [v \in VRegs |-> Junk],
   saved |-> [r \in SavedRegs(g) |-> regs[r]], entry |-> regs]

Top   == Len(stack)
Cur   == stack[Top]
Here  == code[Cur.g][Cur.pc]
Stmt  == module[Cur.g].body[Here.n]

Running(op) == stage = "run" /\ stack # << >> /\ Here.op = op

\* A variable of an activation.
ReadIn(act, v) == IF home[act.g][v] = Slot THEN act.slots[v] ELSE regs[home[act.g][v]]

\* The registers and the slots after v was written.
Write(v, val) ==
  /\ regs' = IF home[Cur.g][v] = Slot THEN regs ELSE [regs EXCEPT ![home[Cur.g][v]] = val]
  /\ stack' = [stack EXCEPT ![Top].pc = @ + 1,
                            ![Top].slots[v] = IF home[Cur.g][v] = Slot THEN val ELSE @]

compiled == <<module, f, at, code, home>>

Enter ==
  /\ stage = "run" /\ stack = << >>
  /\ stack' = <<Activation(1)>>
  /\ UNCHANGED <<compiled, stage, regs, trace>>

ExecLoadImm ==
  /\ Running("LD_imm64") /\ Write(Here.v, Here.val) /\ UNCHANGED <<compiled, stage, trace>>

ExecCopyFrom ==
  /\ Running("CopyFrom") /\ Write(Here.v, regs[Here.reg]) /\ UNCHANGED <<compiled, stage, trace>>

ExecCopyTo ==
  /\ Running("CopyTo")
  /\ regs' = [regs EXCEPT ![Here.reg] = ReadIn(Cur, Here.v)]
  /\ stack' = [stack EXCEPT ![Top].pc = @ + 1]
  /\ UNCHANGED <<compiled, stage, trace>>

CallFunction ==
  /\ Running("JAL") /\ Stmt.callee.k = "function"
  /\ stack' = Append([stack EXCEPT ![Top].pc = @ + 1], Activation(Stmt.callee.n))
  /\ UNCHANGED <<compiled, stage, regs, trace>>

\* The registers as someone sees them who expects n values in the first of rs.
Seen(callee, rs, n) == Append(trace, [callee |-> callee, vals |-> [i \in 1 .. n |-> regs[rs[i]]]])

\* A kernel function returns anything and keeps the callee-saved registers.
CallKernel(w) ==
  /\ Running("JAL") /\ Stmt.callee.k # "function"
  /\ regs' = [r \in DOMAIN regs |-> IF r = "R0" THEN w ELSE IF r \in Clobbered THEN Junk ELSE regs[r]]
  /\ stack' = [stack EXCEPT ![Top].pc = @ + 1]
  /\ trace' = Seen(Stmt.callee, ArgRegs, Len(Stmt.args))
  /\ UNCHANGED <<compiled, stage>>

\* The registers after the saved ones are restored.
Restored == [r \in DOMAIN regs |-> IF r \in DOMAIN Cur.saved THEN Cur.saved[r] ELSE regs[r]]

Return ==
  /\ Running("RET")
  /\ regs' = [r \in DOMAIN regs |-> IF r \in Clobbered \ {"R0"} THEN Junk ELSE Restored[r]]
  /\ stack' = SubSeq(stack, 1, Top - 1)
  /\ IF Top = 1 THEN stage' = "halt" /\ trace' = Seen("exit", RetRegs, Len(Stmt.vals))
                ELSE UNCHANGED <<stage, trace>>
  /\ UNCHANGED compiled

Next ==
  \/ LowerNext
  \/ \E h \in [VRegs -> HomeRegs \cup {Slot}] : AllocateHomes(h)
  \/ Enter \/ ExecLoadImm \/ ExecCopyFrom \/ ExecCopyTo
  \/ CallFunction \/ (\E w \in Values : CallKernel(w)) \/ Return

Spec == Init /\ [][Next]_vars

-----------------------------------------------------------------------------
(***************************************************************************)
(* Properties.                                                             *)
(***************************************************************************)

\* Type invariant.
TypeOK ==
  /\ module \in Modules /\ f \in DOMAIN module /\ at \in 0 .. Len(module[f].body) + 1
  /\ \A g \in DOMAIN module : \A n \in DOMAIN code[g] :
       code[g][n].reg \in Clobbered \cup {"none"} /\ code[g][n].v \in VRegs \cup {"none"}
  /\ home \in [DOMAIN module -> [VRegs -> HomeRegs \cup {Slot}]]
  /\ regs \in [Clobbered \cup CSR -> Values \cup {Junk}]
  /\ \A d \in DOMAIN stack :
       /\ stack[d].g \in DOMAIN module /\ stack[d].pc \in DOMAIN code[stack[d].g]
       /\ stack[d].slots \in [VRegs -> Values \cup {Junk}]
  /\ stage \in {"lower", "frame", "run", "halt", "rejected", "unreachable"}

(***************************************************************************)
(* The source an execution corresponds to.  A copy from a register that is *)
(* next to execute has, for the source, been made; an activation that      *)
(* waits for a call is at the statement of the call.                       *)
(***************************************************************************)
Pending(act) ==
  LET c == code[act.g]
  IN  {n \in act.pc .. Len(c) : \A m \in act.pc .. n : c[m].op = "CopyFrom"}

SourceEnv(act, top) ==
  [v \in VRegs |->
     LET copies == {n \in Pending(act) : top /\ code[act.g][n].v = v}
     IN  IF copies = {} THEN ReadIn(act, v)
         ELSE regs[code[act.g][CHOOSE n \in copies : TRUE].reg]]

SourceAt(act, top) ==
  LET c == code[act.g]
  IN  IF ~top THEN c[act.pc - 1].n
      ELSE c[CHOOSE n \in act.pc .. Len(c) :
               c[n].n > 0 /\ \A m \in act.pc .. n - 1 : c[m].n = 0].n

SourceStack ==
  [d \in DOMAIN stack |-> [g |-> stack[d].g, at |-> SourceAt(stack[d], d = Top),
                           env |-> SourceEnv(stack[d], d = Top)]]

SourceStatus ==
  IF stage \in {"rejected", "halt"} THEN stage ELSE IF stack # << >> THEN "run" ELSE "compile"

Source == INSTANCE BPFCallSource
            WITH status <- SourceStatus, stack <- SourceStack, MaxArgs <- Len(ArgRegs)

\* No function whose variables the allocator keeps in registers is called by a
\* function of the module.  CalleeSavedKept fails without it.
CallsFunction(s, g) == s.k = "call" /\ s.callee.k = "function" /\ s.callee.n = g

KeepersNotCalled ==
  \A m \in Modules : \A g \in DOMAIN m : \A n \in DOMAIN m[g].body : \A callee \in DOMAIN m :
    CallsFunction(m[g].body[n], callee) => callee \notin Keepers

\* Compiled code does what its source does: what LowerCall writes is what
\* LowerFormalArguments reads, what LowerReturn writes is what LowerCallResult
\* reads, kernel functions get their arguments and the caller of the program
\* its result, and no value that lives across a call is lost.
SourceRefined == Source!Spec

\* What the calling convention has no place for and no error either: the
\* convention of a definition, and results of more than one register.
NoPlaceFor(fn) ==
  \/ fn.cc = "other"
  \/ \E n \in DOMAIN fn.body :
       \/ fn.body[n].k = "call" /\ Len(fn.body[n].dst) > Len(RetRegs)
       \/ fn.body[n].k = "ret" /\ Len(fn.body[n].vals) > Len(RetRegs)

\* A module is rejected only if it has something unsupported, and runs only if
\* it has nothing: caller and callee have the same limits, and no call is
\* compiled with arguments dropped.  What is said to be unreachable is reached
\* with the results and conventions above and with nothing else; never by
\* an argument without a register, which LowerCall has refused before.
RejectsExactly ==
  /\ stage = "rejected" => \E g \in DOMAIN module : ~Source!Supported(module[g])
  /\ stage \in {"run", "halt"} => \A g \in DOMAIN module : Source!Supported(module[g])
  /\ stage = "unreachable" => \E g \in DOMAIN module : NoPlaceFor(module[g])

\* R6 to R10 are the same after a call of compiled code as before: "callee
\* saved".
CalleeSavedKept == Running("RET") /\ Top > 1 => \A r \in CSR : Restored[r] = Cur.entry[r]
===============================================================================
