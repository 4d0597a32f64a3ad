---------------------------- MODULE BPFCallProofs -----------------------------
(***************************************************************************)
(* For every module, of any number of functions of any length: what is     *)
(* rejected; the code that is made and where an execution is in it, hence  *)
(* the types; and that an execution does what the source says.             *)
(***************************************************************************)
EXTENDS BPFCall, SequenceLemmas, TLAPS

\* A module has a function to start with, and a statement of a function is of
\* one of three kinds.
LEMMA Shapes ==
  ASSUME NEW m \in Modules
  PROVE  /\ Len(m) \in Nat \ {0} /\ DOMAIN m = 1 .. Len(m)
         /\ \A g \in DOMAIN m :
              /\ m[g].cc \in {"C", "Fast", "other"} /\ m[g].params \in Seq(VRegs)
              /\ Len(m[g].body) \in Nat /\ DOMAIN m[g].body = 1 .. Len(m[g].body)
              /\ \A n \in DOMAIN m[g].body : m[g].body[n] \in Statement
<1>1. m \in Seq(Function) /\ m # << >>
  BY ModuleAssumption
<1>2. ASSUME NEW g \in DOMAIN m
      PROVE  /\ m[g].cc \in {"C", "Fast", "other"} /\ m[g].params \in Seq(VRegs)
             /\ m[g].body \in Seq(Statement)
  <2>1. m[g] \in Function
    BY <1>1
  <2> QED
    BY <2>1 DEF Function
<1>3. \A b \in Seq(Statement) : /\ Len(b) \in Nat /\ DOMAIN b = 1 .. Len(b)
                                /\ \A n \in DOMAIN b : b[n] \in Statement
  OBVIOUS
<1>4. Len(m) \in Nat \ {0} /\ DOMAIN m = 1 .. Len(m)
  BY <1>1
<1> QED
  BY <1>2, <1>3, <1>4

\* What a statement is made of.
LEMMA StatementShape ==
  ASSUME NEW s \in Statement
  PROVE  /\ s.k \in {"const", "call", "ret"}
         /\ s.k = "call" => /\ s.callee \in Callees /\ s.cc \in {"C", "Fast", "other"}
                            /\ s.byval \in BOOLEAN /\ Len(s.args) \in Nat /\ Len(s.dst) \in Nat
                            /\ DOMAIN s.args = 1 .. Len(s.args)
         /\ s.k = "ret" => Len(s.vals) \in Nat
<1>1. CASE s \in [k : {"const"}, dst : VRegs, val : Values]
  BY <1>1
<1>2. CASE s \in [k : {"call"}, callee : Callees, cc : {"C", "Fast", "other"}, byval : BOOLEAN,
                  args : Seq(VRegs), dst : Seq(VRegs)]
  BY <1>2
<1>3. CASE s \in [k : {"ret"}, vals : Seq(VRegs)]
  BY <1>3
<1> QED
  BY <1>1, <1>2, <1>3 DEF Statement

\* The first five arguments have registers, the others have none.
LEMMA FiveRegisters ==
  ASSUME NEW n \in Nat
  PROVE  /\ DOMAIN CC_BPF64(n) = 1 .. n
         /\ "mem" \in {CC_BPF64(n)[i] : i \in DOMAIN CC_BPF64(n)} <=> n > 5
<1>1. Len(ArgRegs) = 5 /\ \A i \in 1 .. 5 : ArgRegs[i] # "mem"
  BY DEF ArgRegs
<1>2. /\ DOMAIN CC_BPF64(n) = 1 .. n
      /\ \A i \in 1 .. n : CC_BPF64(n)[i] = IF i <= 5 THEN ArgRegs[i] ELSE "mem"
  BY <1>1 DEF CC_BPF64
<1>3. ASSUME n > 5
      PROVE  "mem" \in {CC_BPF64(n)[i] : i \in DOMAIN CC_BPF64(n)}
  <2>1. 6 \in 1 .. n /\ CC_BPF64(n)[6] = "mem"
    BY <1>2, <1>3
  <2> QED
    BY <1>2, <2>1
<1>4. ASSUME ~(n > 5), NEW i \in 1 .. n
      PROVE  CC_BPF64(n)[i] # "mem"
  BY <1>1, <1>2, <1>4
<1> QED
  BY <1>2, <1>3, <1>4

\* LowerCall's own limits are those of the source: a call that it does not
\* reject and for which there is a pattern is supported, and the converse.
LEMMA CallLimits ==
  ASSUME NEW s \in Statement, s.k = "call"
  PROVE  Source!SupportedCall(s) <=> ~CallRejected(s) /\ Selectable(s.callee)
<1>1. Len(ArgRegs) = 5
  BY DEF ArgRegs
<1>2. s.callee.k \in {"function", "global", "imm", "extern", "register"}
  BY StatementShape DEF Callees
<1> QED
  BY <1>1, <1>2, StatementShape DEF Source!SupportedCall, CallRejected, Selectable

-----------------------------------------------------------------------------
\* The inductive invariant.  What has been lowered is supported: of a function
\* whose arguments are lowered, the head and every statement before "at", and
\* every function before f as a whole.
HeadSupported(fn) == Len(fn.params) <= 5 /\ ~fn.vararg /\ ~fn.sret

CallsBefore(fn, n) ==
  \A m \in DOMAIN fn.body : m < n /\ fn.body[m].k = "call" => Source!SupportedCall(fn.body[m])

Lowered ==
  /\ module \in Modules /\ f \in DOMAIN module
  /\ at \in 0 .. Len(module[f].body) + 1
  /\ stage \in {"lower", "frame", "run", "halt", "rejected", "unreachable"}
  /\ \A g \in DOMAIN module : g < f => Source!Supported(module[g])
  /\ stage = "lower" /\ at > 0 => HeadSupported(module[f]) /\ CallsBefore(module[f], at)
  /\ stage = "frame" => Source!Supported(module[f])
  /\ RejectsExactly

\* A function is supported when its head is and its calls are.
LEMMA SupportedParts ==
  ASSUME NEW fn
  PROVE  Source!Supported(fn)
           <=> HeadSupported(fn)
                 /\ \A n \in DOMAIN fn.body : fn.body[n].k = "call" => Source!SupportedCall(fn.body[n])
<1>1. Len(ArgRegs) = 5
  BY DEF ArgRegs
<1> QED
  BY <1>1 DEF Source!Supported, HeadSupported

\* Nothing is lowered at first.
LEMMA LoweredInit == Init => Lowered
<1> SUFFICES ASSUME Init PROVE Lowered
  OBVIOUS
<1>1. module \in Modules /\ f = 1 /\ at = 0 /\ stage = "lower"
  BY DEF Init
<1> QED
  BY <1>1, Shapes DEF Lowered, RejectsExactly

\* The arguments: too many, a variable number or a struct to return are refused.
LEMMA FormalArgumentsStep ==
  ASSUME Lowered, LowerNext, at = 0
  PROVE  Lowered'
<1> DEFINE fn == module[f]
           locs == CC_BPF64(Len(fn.params))
<1>1. /\ stage = "lower" /\ UNCHANGED <<module, f>> /\ LowerFormalArguments(fn)
  BY DEF LowerNext
<1>2. /\ Len(fn.params) \in Nat /\ Len(fn.body) \in Nat
      /\ f \in DOMAIN module /\ module \in Modules /\ DOMAIN module = 1 .. Len(module)
      /\ Len(module) \in Nat
  BY Shapes DEF Lowered
<1>3. \A g \in DOMAIN module : g < f => Source!Supported(module[g])
  BY DEF Lowered
<1>4. CASE fn.cc = "other" /\ Unreached
  BY <1>1, <1>2, <1>3, <1>4 DEF Lowered, RejectsExactly, Unreached, NoPlaceFor
<1>5. CASE ("mem" \in {locs[i] : i \in DOMAIN locs} \/ fn.vararg \/ fn.sret) /\ Reject
  <2>1. ~HeadSupported(fn)
    BY <1>2, <1>5, FiveRegisters DEF HeadSupported
  <2>2. ~Source!Supported(fn)
    BY <2>1, SupportedParts
  <2> QED
    BY <1>1, <1>2, <1>3, <1>5, <2>2 DEF Lowered, RejectsExactly, Reject
<1>6. CASE ~("mem" \in {locs[i] : i \in DOMAIN locs} \/ fn.vararg \/ fn.sret) /\ NextOne
  <2>1. HeadSupported(fn)
    <3>1. ~("mem" \in {locs[i] : i \in DOMAIN locs}) /\ ~fn.vararg /\ ~fn.sret
      BY <1>6
    <3>2. "mem" \in {locs[i] : i \in DOMAIN locs} <=> Len(fn.params) > 5
      BY <1>2, FiveRegisters
    <3>3. Len(fn.params) <= 5
      BY <1>2, <3>1, <3>2
    <3> QED
      BY <3>1, <3>3 DEF HeadSupported
  <2>2. CallsBefore(fn, 1)
    BY <1>2, Shapes DEF CallsBefore
  <2>3. at' = 1 /\ stage' = "lower"
    BY <1>1, <1>6 DEF NextOne
  <2> QED
    BY <1>1, <1>2, <1>3, <2>1, <2>2, <2>3 DEF Lowered, RejectsExactly
<1> QED
  BY <1>1, <1>4, <1>5, <1>6 DEF LowerFormalArguments

\* The end of the body: all of its calls have been lowered.
LEMMA EndOfBodyStep ==
  ASSUME Lowered, LowerNext, at > Len(module[f].body), at # 0
  PROVE  Lowered'
<1>1. /\ stage = "lower" /\ stage' = "frame" /\ UNCHANGED <<module, f, at>>
  BY DEF LowerNext
<1>2. \A n \in DOMAIN module[f].body : n < at
  BY Shapes DEF Lowered
<1>3. Source!Supported(module[f])
  BY <1>1, <1>2, SupportedParts DEF Lowered, CallsBefore
<1> QED
  BY <1>1, <1>3 DEF Lowered, RejectsExactly

\* A statement: a call that is refused is not supported, and one that is
\* lowered is.
LEMMA StatementStep ==
  ASSUME Lowered, LowerNext, at # 0, ~(at > Len(module[f].body))
  PROVE  Lowered'
<1> DEFINE fn == module[f]
           s  == fn.body[at]
<1>1. /\ stage = "lower" /\ UNCHANGED <<module, f>>
      /\ \/ s.k = "const" /\ LowerConst(s)
         \/ s.k = "call" /\ LowerCall(s)
         \/ s.k = "ret" /\ LowerReturn(s)
  BY DEF LowerNext
<1>2. /\ module \in Modules /\ f \in DOMAIN module /\ at \in DOMAIN fn.body /\ s \in Statement
      /\ at \in 1 .. Len(fn.body) /\ Len(fn.body) \in Nat /\ DOMAIN fn.body = 1 .. Len(fn.body)
  BY Shapes DEF Lowered
<1>3. /\ \A g \in DOMAIN module : g < f => Source!Supported(module[g])
      /\ HeadSupported(fn) /\ CallsBefore(fn, at)
  BY <1>1, <1>2 DEF Lowered
<1>4. CASE NextOne /\ (s.k = "call" => Source!SupportedCall(s))
  <2>1. at' = at + 1 /\ stage' = "lower"
    BY <1>1, <1>4 DEF NextOne
  <2>2. CallsBefore(fn, at + 1)
    BY <1>2, <1>3, <1>4 DEF CallsBefore
  <2> QED
    BY <1>1, <1>2, <1>3, <2>1, <2>2 DEF Lowered, RejectsExactly
<1>5. CASE Reject /\ ~Source!Supported(fn)
  BY <1>1, <1>2, <1>3, <1>5 DEF Lowered, RejectsExactly, Reject
<1>6. CASE Unreached /\ NoPlaceFor(fn)
  BY <1>1, <1>2, <1>3, <1>6 DEF Lowered, RejectsExactly, Unreached
<1>7. CASE s.k = "const" /\ LowerConst(s)
  BY <1>4, <1>7 DEF LowerConst
<1>8. CASE s.k = "call" /\ LowerCall(s)
  <2>1. ASSUME Reject, CallRejected(s) \/ ~Selectable(s.callee)
        PROVE  ~Source!Supported(fn)
    BY <1>2, <1>8, <2>1, CallLimits, SupportedParts
  <2>2. ASSUME ~CallRejected(s)
        PROVE  ~("mem" \in CallOperands(CC_BPF64(Len(s.args))))
    BY <1>2, <1>8, <2>2, StatementShape, FiveRegisters DEF CallRejected, CallOperands
  <2>3. ASSUME Len(s.dst) > Len(RetRegs)
        PROVE  NoPlaceFor(fn)
    BY <1>2, <1>8, <2>3 DEF NoPlaceFor
  <2>4. ASSUME ~CallRejected(s), Selectable(s.callee)
        PROVE  Source!SupportedCall(s)
    BY <1>2, <1>8, <2>4, CallLimits
  <2> QED
    BY <1>4, <1>5, <1>6, <1>8, <2>1, <2>2, <2>3, <2>4 DEF LowerCall
<1>9. CASE s.k = "ret" /\ LowerReturn(s)
  <2>1. CASE Len(s.vals) > Len(RetRegs) /\ Unreached
    BY <1>2, <1>6, <1>9, <2>1 DEF NoPlaceFor
  <2>2. CASE fn.sret /\ Reject
    BY <1>3, <2>2 DEF HeadSupported
  <2>3. CASE NextOne
    BY <1>4, <1>9, <2>3
  <2> QED
    BY <1>9, <2>1, <2>2, <2>3 DEF LowerReturn
<1> QED
  BY <1>1, <1>7, <1>8, <1>9

\* After the last function all of them are supported.
LEMMA HomesStep ==
  ASSUME Lowered, NEW h, AllocateHomes(h)
  PROVE  Lowered'
<1>1. stage = "frame" /\ UNCHANGED module
  BY DEF AllocateHomes
<1>2. /\ module \in Modules /\ DOMAIN module = 1 .. Len(module) /\ Len(module) \in Nat /\ f \in DOMAIN module
      /\ \A g \in DOMAIN module : Len(module[g].body) \in Nat
  BY Shapes DEF Lowered
<1>3. \A g \in DOMAIN module : g <= f => Source!Supported(module[g])
  BY <1>1, <1>2 DEF Lowered
<1>4. CASE f < Len(module) /\ f' = f + 1 /\ at' = 0 /\ stage' = "lower"
  BY <1>1, <1>2, <1>3, <1>4 DEF Lowered, RejectsExactly
<1>5. CASE ~(f < Len(module)) /\ UNCHANGED <<f, at>> /\ stage' = "run"
  BY <1>1, <1>2, <1>3, <1>5 DEF Lowered, RejectsExactly
<1> QED
  BY <1>4, <1>5 DEF AllocateHomes

\* Execution is over with compilation.
LEMMA ExecutionStep ==
  ASSUME Lowered, UNCHANGED <<module, f, at>>,
         stage' = stage \/ (stage = "run" /\ stage' = "halt")
  PROVE  Lowered'
BY DEF Lowered, RejectsExactly

\* Every step keeps what is known of the functions lowered so far.
LEMMA LoweredStep == Lowered /\ [Next]_vars => Lowered'
<1> SUFFICES ASSUME Lowered, [Next]_vars PROVE Lowered'
  OBVIOUS
<1>1. CASE LowerNext
  BY <1>1, FormalArgumentsStep, EndOfBodyStep, StatementStep
<1>2. CASE \E h \in [VRegs -> HomeRegs \cup {Slot}] : AllocateHomes(h)
  BY <1>2, HomesStep
<1>3. CASE Enter \/ ExecLoadImm \/ ExecCopyFrom \/ ExecCopyTo \/ CallFunction
             \/ \E w \in Values : CallKernel(w)
  <2>1. UNCHANGED <<module, f, at, stage>>
    <3>1. \A w \in Values : CallKernel(w) => UNCHANGED <<module, f, at, stage>>
      BY DEF CallKernel, compiled
    <3> QED
      BY <1>3, <3>1, Zenon
      DEF Enter, ExecLoadImm, ExecCopyFrom, ExecCopyTo, CallFunction, compiled
  <2> QED
    BY <2>1, ExecutionStep
<1>4. CASE Return
  <2>1. UNCHANGED <<module, f, at>>
    BY <1>4, Zenon DEF Return, compiled
  <2>2. stage' = stage \/ (stage = "run" /\ stage' = "halt")
    BY <1>4, Zenon DEF Return, Running
  <2> QED
    BY <2>1, <2>2, ExecutionStep
<1>5. CASE UNCHANGED vars
  BY <1>5, ExecutionStep DEF vars
<1> QED
  BY <1>1, <1>2, <1>3, <1>4, <1>5 DEF Next

\* A module is rejected only if some function of it uses what the target has
\* not, and one that is run uses nothing of the kind; the code that says it is
\* unreachable is reached by exactly the conventions and results that have no
\* place, never by an argument without a register.  The limits that
\* LowerFormalArguments, LowerCall and the patterns of calls check, each in
\* their own words, are the same.
THEOREM RejectionExact == Spec => []RejectsExactly
<1>1. Lowered => RejectsExactly
  BY DEF Lowered
<1> QED
  BY <1>1, LoweredInit, LoweredStep, PTL DEF Spec

-----------------------------------------------------------------------------
(***************************************************************************)
(* Compiled code.                                                          *)
(***************************************************************************)
Ops == {"CopyTo", "CopyFrom", "LD_imm64", "JAL", "RET", "DOWN", "UP"}

CallInsns ==
  [op : Ops, reg : Clobbered \cup {"none"}, v : VRegs \cup {"none"}, val : Values \cup {Junk},
   uses : SUBSET Clobbered, n : Nat]

Pseudo(i) == i.op \in {"DOWN", "UP"}

\* Erasing pseudos piece by piece.
LEMMA ErasedConcat ==
  ASSUME NEW x \in Seq(CallInsns), NEW y \in Seq(CallInsns)
  PROVE  eliminateCallFramePseudoInstr(x \o y)
           = eliminateCallFramePseudoInstr(x) \o eliminateCallFramePseudoInstr(y)
<1> DEFINE E(i) == IF Pseudo(i) THEN << >> ELSE <<i>>
<1>1. ASSUME NEW c \in Seq(CallInsns)
      PROVE  eliminateCallFramePseudoInstr(c) = FlattenSeq([n \in DOMAIN c |-> E(c[n])])
  <2>1. [n \in DOMAIN c |-> IF n \in {k \in DOMAIN c : c[k].op \in {"DOWN", "UP"}} THEN << >> ELSE <<c[n]>>]
          = [n \in DOMAIN c |-> E(c[n])]
    BY DEF Pseudo
  <2> QED
    BY <2>1, Zenon DEF eliminateCallFramePseudoInstr, Without
<1>2. \A i \in CallInsns : E(i) \in Seq(CallInsns)
  <2> SUFFICES ASSUME NEW i \in CallInsns PROVE E(i) \in Seq(CallInsns)
    OBVIOUS
  <2>1. <<i>> \in Seq(CallInsns) /\ << >> \in Seq(CallInsns)
    OBVIOUS
  <2> QED
    BY <2>1
<1> HIDE DEF E
<1>3. PICK p \in Nat, q \in Nat : p = Len(x) /\ q = Len(y)
  BY LenProperties
<1>4. PICK xy \in Seq(CallInsns) :
        /\ xy = x \o y /\ Len(xy) = p + q
        /\ \A i \in 1 .. p + q : xy[i] = IF i <= p THEN x[i] ELSE y[i - p]
  <2>1. /\ x \o y \in Seq(CallInsns) /\ Len(x \o y) = Len(x) + Len(y)
        /\ \A i \in 1 .. Len(x) + Len(y) :
             (x \o y)[i] = IF i <= Len(x) THEN x[i] ELSE y[i - Len(x)]
    BY ConcatProperties
  <2> QED
    BY <1>3, <2>1, Zenon
<1>5. PICK ex : /\ ex \in Seq(Seq(CallInsns)) /\ Len(ex) = p /\ \A n \in 1 .. p : ex[n] = E(x[n])
                /\ eliminateCallFramePseudoInstr(x) = FlattenSeq(ex)
  <2>1. DOMAIN x = 1 .. p /\ \A n \in 1 .. p : x[n] \in CallInsns
    BY <1>3, LenProperties, ElementOfSeq
  <2>2. PICK ex : ex = [n \in 1 .. p |-> E(x[n])]
    OBVIOUS
  <2>3. ex \in [1 .. p -> Seq(CallInsns)]
    BY <1>2, <2>1, <2>2
  <2>4. ex \in Seq(Seq(CallInsns)) /\ Len(ex) = p
    BY <2>3
  <2> QED
    BY <1>1, <2>1, <2>2, <2>4
<1>6. PICK ey : /\ ey \in Seq(Seq(CallInsns)) /\ Len(ey) = q /\ \A n \in 1 .. q : ey[n] = E(y[n])
                /\ eliminateCallFramePseudoInstr(y) = FlattenSeq(ey)
  <2>1. DOMAIN y = 1 .. q /\ \A n \in 1 .. q : y[n] \in CallInsns
    BY <1>3, LenProperties, ElementOfSeq
  <2>2. PICK ey : ey = [n \in 1 .. q |-> E(y[n])]
    OBVIOUS
  <2>3. ey \in [1 .. q -> Seq(CallInsns)]
    BY <1>2, <2>1, <2>2
  <2>4. ey \in Seq(Seq(CallInsns)) /\ Len(ey) = q
    BY <2>3
  <2> QED
    BY <1>1, <2>1, <2>2, <2>4
<1>7. PICK exy : /\ exy \in Seq(Seq(CallInsns)) /\ Len(exy) = p + q
                 /\ \A n \in 1 .. p + q : exy[n] = E(xy[n])
                 /\ eliminateCallFramePseudoInstr(xy) = FlattenSeq(exy)
  <2>1. DOMAIN xy = 1 .. p + q /\ \A n \in 1 .. p + q : xy[n] \in CallInsns
    BY <1>4, LenProperties, ElementOfSeq
  <2>2. PICK exy : exy = [n \in 1 .. p + q |-> E(xy[n])]
    OBVIOUS
  <2>3. exy \in [1 .. p + q -> Seq(CallInsns)]
    BY <1>2, <2>1, <2>2
  <2>4. exy \in Seq(Seq(CallInsns)) /\ Len(exy) = p + q
    BY <2>3
  <2> QED
    BY <1>1, <2>1, <2>2, <2>4
<1>8. PICK e : e \in Seq(Seq(CallInsns)) /\ e = ex \o ey /\ Len(e) = p + q
               /\ \A i \in 1 .. p + q : e[i] = IF i <= p THEN ex[i] ELSE ey[i - p]
  <2>1. /\ ex \o ey \in Seq(Seq(CallInsns)) /\ Len(ex \o ey) = Len(ex) + Len(ey)
        /\ \A i \in 1 .. Len(ex) + Len(ey) :
             (ex \o ey)[i] = IF i <= Len(ex) THEN ex[i] ELSE ey[i - Len(ex)]
    BY <1>5, <1>6, ConcatProperties
  <2> QED
    BY <1>5, <1>6, <2>1, Zenon
<1>9. exy = e
  <2>1. ASSUME NEW i \in 1 .. p + q PROVE exy[i] = e[i]
    <3>1. CASE i <= p
      <4>1. i \in 1 .. p
        BY <3>1
      <4> QED
        BY <1>4, <1>5, <1>7, <1>8, <3>1, <4>1
    <3>2. CASE ~(i <= p)
      <4>1. i - p \in 1 .. q
        BY <3>2
      <4> QED
        BY <1>4, <1>6, <1>7, <1>8, <3>2, <4>1
    <3> QED
      BY <3>1, <3>2
  <2> QED
    BY <1>7, <1>8, <2>1, SeqEqual
<1>10. FlattenSeq(ex \o ey) = FlattenSeq(ex) \o FlattenSeq(ey)
  BY <1>5, <1>6, FlattenSeqConcat
<1> QED
  BY <1>4, <1>5, <1>6, <1>7, <1>8, <1>9, <1>10, Zenon

\* Code without pseudos has none erased.
LEMMA ErasedNone ==
  ASSUME NEW c \in Seq(CallInsns), \A n \in DOMAIN c : ~Pseudo(c[n])
  PROVE  eliminateCallFramePseudoInstr(c) = c
<1>1. [n \in DOMAIN c |-> IF n \in {k \in DOMAIN c : c[k].op \in {"DOWN", "UP"}} THEN << >> ELSE <<c[n]>>]
        = [n \in DOMAIN c |-> <<c[n]>>]
  BY DEF Pseudo
<1>2. FlattenSeq([n \in DOMAIN c |-> <<c[n]>>]) = c
  BY FlattenSingles
<1> QED
  BY <1>1, <1>2, Zenon DEF eliminateCallFramePseudoInstr, Without

\* Nor have instructions without liveness problems.
LEMMA LiveAll ==
  ASSUME NEW c \in Seq(CallInsns), \A n \in DOMAIN c : ~Dead(c, n)
  PROVE  LiveCode(c) = c
<1>1. [n \in DOMAIN c |-> IF n \in {k \in DOMAIN c : Dead(c, k)} THEN << >> ELSE <<c[n]>>]
        = [n \in DOMAIN c |-> <<c[n]>>]
  OBVIOUS
<1>2. FlattenSeq([n \in DOMAIN c |-> <<c[n]>>]) = c
  BY FlattenSingles
<1> QED
  BY <1>1, <1>2, Zenon DEF LiveCode, Without

\* A call frame pseudo is erased.
LEMMA ErasedPseudo ==
  ASSUME NEW i \in CallInsns, Pseudo(i)
  PROVE  eliminateCallFramePseudoInstr(<<i>>) = << >>
<1>1. PICK c \in Seq(CallInsns) : c = <<i>> /\ Len(c) = 1 /\ c[1] = i
  BY Singleton, Zenon
<1>2. DOMAIN c = {1}
  <2>1. DOMAIN c = 1 .. 1
    BY <1>1, LenProperties, Zenon
  <2> QED
    BY <2>1
<1>3. eliminateCallFramePseudoInstr(c) = FlattenSeq(<< << >> >>)
  <2>1. [n \in DOMAIN c |-> IF n \in {k \in DOMAIN c : c[k].op \in {"DOWN", "UP"}} THEN << >> ELSE <<c[n]>>]
          = << << >> >>
    <3>1. 1 \in {k \in DOMAIN c : c[k].op \in {"DOWN", "UP"}}
      BY <1>1, <1>2 DEF Pseudo
    <3>2. [n \in DOMAIN c |-> IF n \in {k \in DOMAIN c : c[k].op \in {"DOWN", "UP"}} THEN << >> ELSE <<c[n]>>]
            = [n \in 1 .. 1 |-> << >>]
      BY <1>2, <3>1
    <3> QED
      BY <3>2
  <2> QED
    BY <2>1, Zenon DEF eliminateCallFramePseudoInstr, Without
<1>4. FlattenSeq(<< << >> >>) = << >>
  <2>1. << >> \in Seq(CallInsns)
    OBVIOUS
  <2> QED
    BY <2>1, FlattenSeqOne
<1> QED
  BY <1>1, <1>3, <1>4, Zenon

-----------------------------------------------------------------------------
\* What a statement takes and gives, and the registers for it.
Ins(s)    == IF s.k = "call" THEN s.args ELSE IF s.k = "ret" THEN s.vals ELSE << >>
Outs(s)   == IF s.k = "call" THEN s.dst ELSE << >>
ToRegs(s) == IF s.k = "call" THEN ArgRegs ELSE RetRegs

InRegisters(s) == Len(Ins(s)) <= Len(ToRegs(s)) /\ Len(Outs(s)) <= 1

To(s, i) == CopyTo(ToRegs(s)[i], Ins(s)[i])

Marker(s, n) ==
  CASE s.k = "const" -> LoadImm(s.dst, s.val, n)
    [] s.k = "call"  -> JAL({ToRegs(s)[i] : i \in 1 .. Len(Ins(s))}, n)
    [] s.k = "ret"   -> RET({ToRegs(s)[i] : i \in 1 .. Len(Ins(s))}, n)

\* Its instructions: copies, the instruction that does it, copies.
Piece(p, s, n) ==
  /\ Len(p) = Len(Ins(s)) + 1 + Len(Outs(s))
  /\ \A i \in 1 .. Len(Ins(s)) : p[i] = To(s, i)
  /\ p[Len(Ins(s)) + 1] = Marker(s, n)
  /\ \A i \in 1 .. Len(Outs(s)) : p[Len(Ins(s)) + 1 + i] = CopyFrom(RetRegs[i], Outs(s)[i])

\* What a statement takes and gives are sequences of variables.
LEMMA StatementParts ==
  ASSUME NEW s \in Statement
  PROVE  /\ s.k \in {"const", "call", "ret"}
         /\ s.k = "const" => s.dst \in VRegs /\ s.val \in Values
         /\ Ins(s) \in Seq(VRegs) /\ Outs(s) \in Seq(VRegs)
         /\ Len(Ins(s)) \in Nat /\ Len(Outs(s)) \in Nat
<1>0. << >> \in Seq(VRegs)
  OBVIOUS
<1>1. CASE s \in [k : {"const"}, dst : VRegs, val : Values]
  BY <1>0, <1>1 DEF Ins, Outs
<1>2. CASE s \in [k : {"call"}, callee : Callees, cc : {"C", "Fast", "other"}, byval : BOOLEAN,
                  args : Seq(VRegs), dst : Seq(VRegs)]
  <2>1. s.k = "call" /\ s.args \in Seq(VRegs) /\ s.dst \in Seq(VRegs)
    BY <1>2
  <2>2. Ins(s) = s.args /\ Outs(s) = s.dst
    BY <2>1 DEF Ins, Outs
  <2> QED
    BY <2>1, <2>2, LenProperties
<1>3. CASE s \in [k : {"ret"}, vals : Seq(VRegs)]
  <2>1. s.k = "ret" /\ s.vals \in Seq(VRegs)
    BY <1>3
  <2>2. Ins(s) = s.vals /\ Outs(s) = << >>
    BY <2>1 DEF Ins, Outs
  <2> QED
    BY <1>0, <2>1, <2>2, LenProperties
<1> QED
  BY <1>1, <1>2, <1>3 DEF Statement

\* There are five argument registers, all different, and one for a result;
\* calls clobber all of them.
LEMMA Registers ==
  /\ Len(ArgRegs) = 5 /\ Len(RetRegs) = 1
  /\ \A i \in 1 .. 5 : ArgRegs[i] \in Clobbered
  /\ \A i, j \in 1 .. 5 : ArgRegs[i] = ArgRegs[j] => i = j
  /\ RetRegs[1] = "R0" /\ RetRegs[1] \in Clobbered
<1>1. Len(ArgRegs) = 5 /\ Len(RetRegs) = 1 /\ RetRegs[1] = "R0"
  BY DEF ArgRegs, RetRegs
<1>2. \A i \in 1 .. 5 : i = 1 \/ i = 2 \/ i = 3 \/ i = 4 \/ i = 5
  OBVIOUS
<1>3. ArgRegs[1] = "R1" /\ ArgRegs[2] = "R2" /\ ArgRegs[3] = "R3" /\ ArgRegs[4] = "R4" /\ ArgRegs[5] = "R5"
  BY DEF ArgRegs
<1>4. {"R0", "R1", "R2", "R3", "R4", "R5"} = Clobbered
  BY DEF Clobbered
<1>5. ASSUME NEW i \in 1 .. 5 PROVE ArgRegs[i] \in Clobbered
  BY <1>2, <1>3, <1>4
<1>6. ASSUME NEW i \in 1 .. 5, NEW j \in 1 .. 5, ArgRegs[i] = ArgRegs[j] PROVE i = j
  <2>1. "R1" # "R2" /\ "R1" # "R3" /\ "R1" # "R4" /\ "R1" # "R5" /\ "R2" # "R3" /\ "R2" # "R4"
        /\ "R2" # "R5" /\ "R3" # "R4" /\ "R3" # "R5" /\ "R4" # "R5"
    OBVIOUS
  <2> QED
    BY <1>2, <1>3, <1>6, <2>1
<1> QED
  BY <1>1, <1>4, <1>5, <1>6

\* What a statement takes goes to registers that calls clobber.
LEMMA ToRegister ==
  ASSUME NEW s, NEW i \in 1 .. Len(ToRegs(s))
  PROVE  ToRegs(s)[i] \in Clobbered
<1>1. CASE s.k = "call"
  <2>1. ToRegs(s) = ArgRegs
    BY <1>1 DEF ToRegs
  <2> QED
    BY <2>1, Registers
<1>2. CASE s.k # "call"
  <2>1. ToRegs(s) = RetRegs
    BY <1>2 DEF ToRegs
  <2>2. i = 1
    BY <2>1, Registers
  <2> QED
    BY <2>1, <2>2, Registers
<1> QED
  BY <1>1, <1>2

\* Copies are instructions that stay.
LEMMA CopyInsns ==
  ASSUME NEW r \in Clobbered, NEW v \in VRegs
  PROVE  /\ CopyTo(r, v) \in CallInsns /\ CopyFrom(r, v) \in CallInsns
         /\ ~Pseudo(CopyTo(r, v)) /\ ~Pseudo(CopyFrom(r, v))
         /\ CopyTo(r, v).op = "CopyTo" /\ CopyTo(r, v).reg = r /\ CopyTo(r, v).v = v /\ CopyTo(r, v).n = 0
         /\ CopyFrom(r, v).op = "CopyFrom" /\ CopyFrom(r, v).reg = r /\ CopyFrom(r, v).v = v
         /\ CopyFrom(r, v).n = 0
BY DEF CopyTo, CopyFrom, Insn, CallInsns, Ops, Pseudo

\* So is the instruction that does a statement, of which it has the number.
LEMMA MarkerInsn ==
  ASSUME NEW s \in Statement, InRegisters(s), NEW n \in Nat
  PROVE  /\ Marker(s, n) \in CallInsns /\ ~Pseudo(Marker(s, n)) /\ Marker(s, n).n = n
         /\ Marker(s, n).op = IF s.k = "const" THEN "LD_imm64" ELSE IF s.k = "call" THEN "JAL" ELSE "RET"
         /\ s.k = "const" => Marker(s, n).v = s.dst /\ Marker(s, n).val = s.val
         /\ s.k # "const" => Marker(s, n).uses = {ToRegs(s)[i] : i \in 1 .. Len(Ins(s))}
<1>1. s.k \in {"const", "call", "ret"} /\ (s.k = "const" => s.dst \in VRegs /\ s.val \in Values)
      /\ Len(Ins(s)) \in Nat
  BY StatementParts
<1>2. PICK u : u = {ToRegs(s)[i] : i \in 1 .. Len(Ins(s))}
  OBVIOUS
<1>3. u \in SUBSET Clobbered
  <2>1. Len(ToRegs(s)) \in Nat /\ Len(Ins(s)) <= Len(ToRegs(s))
    BY Registers DEF InRegisters, ToRegs
  <2>2. \A i \in 1 .. Len(Ins(s)) : i \in 1 .. Len(ToRegs(s))
    BY <1>1, <2>1
  <2> QED
    BY <1>2, <2>2, ToRegister
<1>4. CASE s.k = "const"
  <2>1. Marker(s, n) = LoadImm(s.dst, s.val, n)
    BY <1>4 DEF Marker
  <2> QED
    BY <1>1, <1>4, <2>1 DEF LoadImm, Insn, CallInsns, Ops, Pseudo
<1>5. CASE s.k = "call"
  <2>1. Marker(s, n) = JAL(u, n)
    BY <1>2, <1>5 DEF Marker
  <2> QED
    BY <1>2, <1>3, <1>5, <2>1 DEF JAL, Insn, CallInsns, Ops, Pseudo
<1>6. CASE s.k = "ret"
  <2>1. Marker(s, n) = RET(u, n)
    BY <1>2, <1>6 DEF Marker
  <2> QED
    BY <1>2, <1>3, <1>6, <2>1 DEF RET, Insn, CallInsns, Ops, Pseudo
<1> QED
  BY <1>1, <1>4, <1>5, <1>6

-----------------------------------------------------------------------------
\* Every copy to a register is followed by an instruction that uses it.
UsedAt(c, p, q) ==
  /\ c[q].op \in {"JAL", "RET"} /\ c[p].reg \in c[q].uses
  /\ \A r \in p .. q - 1 : c[r].op \notin {"JAL", "RET"}

Tidy(c) == \A p \in 1 .. Len(c) : c[p].op = "CopyTo" => \E q \in p .. Len(c) : UsedAt(c, p, q)

\* Tidy code behind tidy code is tidy.
LEMMA TidyConcat ==
  ASSUME NEW x \in Seq(CallInsns), NEW y \in Seq(CallInsns), Tidy(x), Tidy(y)
  PROVE  Tidy(x \o y)
<1>1. PICK p \in Nat, q \in Nat : p = Len(x) /\ q = Len(y)
  BY LenProperties
<1>2. PICK xy : /\ xy = x \o y /\ Len(xy) = p + q
                /\ \A i \in 1 .. p + q : xy[i] = IF i <= p THEN x[i] ELSE y[i - p]
  <2>1. /\ Len(x \o y) = Len(x) + Len(y)
        /\ \A i \in 1 .. Len(x) + Len(y) :
             (x \o y)[i] = IF i <= Len(x) THEN x[i] ELSE y[i - Len(x)]
    BY ConcatProperties
  <2> QED
    BY <1>1, <2>1, Zenon
<1>3. ASSUME NEW n \in 1 .. p + q, xy[n].op = "CopyTo"
      PROVE  \E m \in n .. p + q : UsedAt(xy, n, m)
  <2>1. CASE n <= p
    <3>1. xy[n] = x[n] /\ n \in 1 .. p
      BY <1>2, <2>1
    <3>2. PICK m \in n .. p : UsedAt(x, n, m)
      BY <1>1, <1>3, <3>1 DEF Tidy
    <3>3. \A r \in n .. m : xy[r] = x[r]
      <4> SUFFICES ASSUME NEW r \in n .. m PROVE xy[r] = x[r]
        OBVIOUS
      <4>1. r \in 1 .. p + q /\ r <= p
        BY <3>2
      <4> QED
        BY <1>2, <4>1
    <3>4. m \in n .. m /\ n \in n .. m /\ m \in n .. p + q /\ \A r \in n .. m - 1 : r \in n .. m
      BY <3>2
    <3>5. UsedAt(xy, n, m)
      BY <3>2, <3>3, <3>4 DEF UsedAt
    <3> QED
      BY <3>4, <3>5
  <2>2. CASE ~(n <= p)
    <3>1. PICK k \in 1 .. q : k = n - p /\ n = p + k
      BY <2>2
    <3>2. xy[n] = y[k]
      BY <1>2, <2>2, <3>1
    <3>3. PICK m \in k .. q : UsedAt(y, k, m)
      BY <1>1, <1>3, <3>1, <3>2 DEF Tidy
    <3>4. \A r \in k .. m : xy[p + r] = y[r]
      <4> SUFFICES ASSUME NEW r \in k .. m PROVE xy[p + r] = y[r]
        OBVIOUS
      <4>1. p + r \in 1 .. p + q /\ ~(p + r <= p) /\ (p + r) - p = r
        BY <3>1, <3>3
      <4> QED
        BY <1>2, <4>1
    <3>5. /\ m \in k .. m /\ k \in k .. m /\ p + m \in n .. p + q
          /\ \A r \in n .. (p + m) - 1 : r - p \in k .. m - 1 /\ r - p \in k .. m /\ p + (r - p) = r
      BY <3>1, <3>3
    <3>6. UsedAt(xy, n, p + m)
      <4>1. xy[p + m] = y[m] /\ xy[n] = y[k]
        BY <3>2, <3>4, <3>5
      <4>2. ASSUME NEW r \in n .. (p + m) - 1 PROVE xy[r].op \notin {"JAL", "RET"}
        <5>1. xy[r] = y[r - p] /\ r - p \in k .. m - 1
          BY <3>4, <3>5
        <5> QED
          BY <3>3, <5>1 DEF UsedAt
      <4> QED
        BY <3>3, <4>1, <4>2 DEF UsedAt
    <3> QED
      BY <3>5, <3>6
  <2> QED
    BY <2>1, <2>2
<1> QED
  BY <1>2, <1>3 DEF Tidy

\* Code with no copies to registers.
LEMMA TidyNone ==
  ASSUME NEW c, \A n \in 1 .. Len(c) : c[n].op # "CopyTo"
  PROVE  Tidy(c)
BY DEF Tidy

\* Tidy code has nothing dead.
LEMMA TidyLives ==
  ASSUME NEW c \in Seq(CallInsns), Tidy(c)
  PROVE  LiveCode(c) = c
<1>0. PICK L \in Nat : L = Len(c) /\ DOMAIN c = 1 .. L
  BY LenProperties
<1>1. ASSUME NEW n \in DOMAIN c, Dead(c, n)
      PROVE  FALSE
  <2>1. c[n].op = "CopyTo" /\ n \in 1 .. L
    BY <1>0, <1>1 DEF Dead
  <2>2. PICK m \in n .. L : UsedAt(c, n, m)
    BY <1>0, <2>1 DEF Tidy
  <2> DEFINE N(k) == /\ c[k].op \in {"JAL", "RET"}
                     /\ \A r \in n .. k - 1 : c[r].op \notin {"JAL", "RET"}
  <2>3. \A k \in n .. L : N(k) => k = m
    <3> SUFFICES ASSUME NEW k \in n .. L, N(k) PROVE k = m
      OBVIOUS
    <3>1. ~(m < k)
      <4> SUFFICES ASSUME m < k PROVE FALSE
        OBVIOUS
      <4>1. m \in n .. k - 1
        BY <2>2
      <4> QED
        BY <2>2, <4>1 DEF UsedAt
    <3>2. ~(k < m)
      <4> SUFFICES ASSUME k < m PROVE FALSE
        OBVIOUS
      <4>1. k \in n .. m - 1
        BY <2>2
      <4> QED
        BY <2>2, <4>1 DEF UsedAt
    <3> QED
      BY <2>2, <3>1, <3>2
  <2>4. m \in n .. L /\ N(m)
    BY <2>2 DEF UsedAt
  <2> HIDE DEF N
  <2>5. m = CHOOSE k \in n .. L : N(k)
    BY <2>3, <2>4
  <2>6. NextUser(c, n) = m
    BY <1>0, <2>5, Zenon DEF NextUser, N
  <2> QED
    BY <1>1, <2>2, <2>6 DEF Dead, UsedAt
<1> QED
  BY <1>1, LiveAll

-----------------------------------------------------------------------------
\* Copies to and from the registers of a location list.
Backed(locs, R, vs) == \A i \in 1 .. Len(vs) : locs[i] = R[i] /\ R[i] \in Clobbered

AreCopiesTo(c, R, vs)   == Len(c) = Len(vs) /\ \A i \in 1 .. Len(vs) : c[i] = CopyTo(R[i], vs[i])
AreCopiesFrom(c, R, vs) == Len(c) = Len(vs) /\ \A i \in 1 .. Len(vs) : c[i] = CopyFrom(R[i], vs[i])

\* A list of copies has one for each variable, in the order of the registers.
LEMMA Copies ==
  ASSUME NEW vs \in Seq(VRegs), NEW R, NEW locs, Backed(locs, R, vs)
  PROVE  /\ CopiesTo(locs, vs) \in Seq(CallInsns) /\ AreCopiesTo(CopiesTo(locs, vs), R, vs)
         /\ CopiesFrom(locs, vs) \in Seq(CallInsns) /\ AreCopiesFrom(CopiesFrom(locs, vs), R, vs)
<1>0. \A i \in 1 .. Len(vs) : locs[i] = R[i] /\ R[i] \in Clobbered
  BY DEF Backed
<1>1. PICK l \in Nat : l = Len(vs) /\ DOMAIN vs = 1 .. l /\ \A i \in 1 .. l : vs[i] \in VRegs
  BY LenProperties, ElementOfSeq
<1>2. PICK c : c = [i \in 1 .. l |-> CopyTo(R[i], vs[i])]
  OBVIOUS
<1>3. PICK d : d = [i \in 1 .. l |-> CopyFrom(R[i], vs[i])]
  OBVIOUS
<1>4. c = CopiesTo(locs, vs) /\ d = CopiesFrom(locs, vs)
  BY <1>0, <1>1, <1>2, <1>3 DEF CopiesTo, CopiesFrom
<1>5. \A i \in 1 .. l : CopyTo(R[i], vs[i]) \in CallInsns /\ CopyFrom(R[i], vs[i]) \in CallInsns
  BY <1>0, <1>1, CopyInsns
<1>6. c \in [1 .. l -> CallInsns] /\ d \in [1 .. l -> CallInsns]
  BY <1>2, <1>3, <1>5
<1>7. /\ c \in Seq(CallInsns) /\ Len(c) = l /\ \A i \in 1 .. l : c[i] = CopyTo(R[i], vs[i])
      /\ d \in Seq(CallInsns) /\ Len(d) = l /\ \A i \in 1 .. l : d[i] = CopyFrom(R[i], vs[i])
  BY <1>2, <1>3, <1>6
<1>8. AreCopiesTo(c, R, vs) /\ AreCopiesFrom(d, R, vs)
  BY <1>1, <1>7, Zenon DEF AreCopiesTo, AreCopiesFrom
<1> QED
  BY <1>4, <1>7, <1>8, Zenon

\* Locations are registers as long as these last.
LEMMA Locations ==
  ASSUME NEW n \in Nat, NEW i \in 1 .. n
  PROVE  /\ n <= 5 => CC_BPF64(n)[i] = ArgRegs[i]
         /\ n <= 1 => RetCC_BPF64(n)[i] = RetRegs[i]
<1>1. CC_BPF64(n)[i] = (IF i <= 5 THEN ArgRegs[i] ELSE "mem")
  BY Registers DEF CC_BPF64
<1>2. RetCC_BPF64(n)[i] = (IF i <= 1 THEN RetRegs[i] ELSE "none")
  BY Registers DEF RetCC_BPF64
<1> QED
  BY <1>1, <1>2

\* The copies of a statement.
InLocations(s) == IF s.k = "call" THEN CC_BPF64(Len(Ins(s))) ELSE RetCC_BPF64(Len(Ins(s)))
OutLocations(s) == RetCC_BPF64(Len(Outs(s)))

\* The copies of a statement.
LEMMA StatementCopies ==
  ASSUME NEW s \in Statement, InRegisters(s)
  PROVE  /\ CopiesTo(InLocations(s), Ins(s)) \in Seq(CallInsns)
         /\ AreCopiesTo(CopiesTo(InLocations(s), Ins(s)), ToRegs(s), Ins(s))
         /\ CopiesFrom(OutLocations(s), Outs(s)) \in Seq(CallInsns)
         /\ AreCopiesFrom(CopiesFrom(OutLocations(s), Outs(s)), RetRegs, Outs(s))
<1>1. /\ Ins(s) \in Seq(VRegs) /\ Outs(s) \in Seq(VRegs) /\ Len(Ins(s)) \in Nat /\ Len(Outs(s)) \in Nat
  BY StatementParts
<1>2. PICK ni \in Nat : ni = Len(Ins(s))
  BY <1>1
<1>3. PICK no \in Nat : no = Len(Outs(s)) /\ no <= 1
  BY <1>1 DEF InRegisters
<1>4. \A i \in 1 .. no : RetCC_BPF64(no)[i] = RetRegs[i] /\ RetRegs[i] \in Clobbered
  <2> SUFFICES ASSUME NEW i \in 1 .. no PROVE RetCC_BPF64(no)[i] = RetRegs[i] /\ RetRegs[i] \in Clobbered
    OBVIOUS
  <2>1. i = 1
    BY <1>3
  <2> QED
    BY <1>3, <2>1, Locations, Registers
<1>5. Backed(OutLocations(s), RetRegs, Outs(s))
  BY <1>3, <1>4, Zenon DEF Backed, OutLocations
<1>6. Backed(InLocations(s), ToRegs(s), Ins(s))
  <2>1. PICK locs : locs = IF s.k = "call" THEN CC_BPF64(ni) ELSE RetCC_BPF64(ni)
    OBVIOUS
  <2>2. \A i \in 1 .. ni : locs[i] = ToRegs(s)[i] /\ ToRegs(s)[i] \in Clobbered
    <3> SUFFICES ASSUME NEW i \in 1 .. ni
                 PROVE  locs[i] = ToRegs(s)[i] /\ ToRegs(s)[i] \in Clobbered
      OBVIOUS
    <3>1. Len(ToRegs(s)) = IF s.k = "call" THEN 5 ELSE 1
      BY Registers DEF ToRegs
    <3>2. ni <= Len(ToRegs(s))
      BY <1>2 DEF InRegisters
    <3>3. i \in 1 .. Len(ToRegs(s))
      BY <3>1, <3>2
    <3>4. locs[i] = ToRegs(s)[i]
      <4>1. CASE s.k = "call"
        <5>1. ni <= 5
          BY <3>1, <3>2, <4>1
        <5>2. CC_BPF64(ni)[i] = ArgRegs[i]
          BY <5>1, Locations
        <5> QED
          BY <2>1, <4>1, <5>2 DEF ToRegs
      <4>2. CASE s.k # "call"
        <5>1. ni <= 1
          BY <3>1, <3>2, <4>2
        <5>2. RetCC_BPF64(ni)[i] = RetRegs[i]
          BY <5>1, Locations
        <5> QED
          BY <2>1, <4>2, <5>2 DEF ToRegs
      <4> QED
        BY <4>1, <4>2
    <3> QED
      BY <3>3, <3>4, ToRegister
  <2>3. locs = InLocations(s)
    BY <1>2, <2>1, Zenon DEF InLocations
  <2> QED
    BY <1>2, <2>2, <2>3, Zenon DEF Backed
<1> QED
  BY <1>1, <1>5, <1>6, Copies

-----------------------------------------------------------------------------
\* A sequence of three parts.
ThreeParts(t, x, y, z) ==
  /\ Len(t) = Len(x) + Len(y) + Len(z)
  /\ \A n \in 1 .. Len(x) + Len(y) + Len(z) :
       t[n] = IF n <= Len(x) THEN x[n]
              ELSE IF n <= Len(x) + Len(y) THEN y[n - Len(x)]
              ELSE z[n - (Len(x) + Len(y))]

\* Three sequences, one behind the other.
LEMMA InThreeParts ==
  ASSUME NEW S, NEW x \in Seq(S), NEW y \in Seq(S), NEW z \in Seq(S)
  PROVE  x \o y \o z \in Seq(S) /\ ThreeParts(x \o y \o z, x, y, z)
BY ConcatThree DEF ThreeParts

\* Copies, an instruction and copies are the piece of a statement, with nothing
\* to erase, and tidy.
LEMMA PieceOfParts ==
  ASSUME NEW s \in Statement, InRegisters(s), NEW n \in Nat,
         NEW c \in Seq(CallInsns), AreCopiesTo(c, ToRegs(s), Ins(s)),
         NEW d \in Seq(CallInsns), AreCopiesFrom(d, RetRegs, Outs(s))
  PROVE  /\ c \o <<Marker(s, n)>> \o d \in Seq(CallInsns)
         /\ Piece(c \o <<Marker(s, n)>> \o d, s, n)
<1>1. PICK m \in Seq(CallInsns) : m = <<Marker(s, n)>> /\ Len(m) = 1 /\ m[1] = Marker(s, n)
  <2>1. Marker(s, n) \in CallInsns
    BY MarkerInsn
  <2> QED
    BY <2>1, Singleton, Zenon
<1>2. PICK p : p = c \o m \o d
  OBVIOUS
<1>3. /\ p \in Seq(CallInsns) /\ Len(p) = Len(c) + Len(m) + Len(d)
      /\ \A j \in 1 .. Len(c) + Len(m) + Len(d) :
           p[j] = IF j <= Len(c) THEN c[j]
                  ELSE IF j <= Len(c) + Len(m) THEN m[j - Len(c)]
                  ELSE d[j - (Len(c) + Len(m))]
  <2>1. c \o m \o d \in Seq(CallInsns) /\ ThreeParts(c \o m \o d, c, m, d)
    BY InThreeParts
  <2> QED
    BY <1>2, <2>1, Zenon DEF ThreeParts
<1>4. PICK a \in Nat, b \in Nat : a = Len(Ins(s)) /\ b = Len(Outs(s))
  BY StatementParts
<1>a. /\ Len(c) = a /\ \A i \in 1 .. a : c[i] = To(s, i)
      /\ Len(d) = b /\ \A i \in 1 .. b : d[i] = CopyFrom(RetRegs[i], Outs(s)[i])
  BY <1>4, Zenon DEF AreCopiesTo, AreCopiesFrom, To
<1>5. /\ Len(p) = a + 1 + b
      /\ \A j \in 1 .. a + 1 + b :
           p[j] = IF j <= a THEN c[j] ELSE IF j <= a + 1 THEN m[j - a] ELSE d[j - (a + 1)]
  BY <1>1, <1>3, <1>a
<1>6. ASSUME NEW i \in 1 .. a PROVE p[i] = To(s, i)
  BY <1>5, <1>a
<1>7. p[a + 1] = Marker(s, n)
  <2>1. (a + 1) - a = 1 /\ a + 1 \in 1 .. a + 1 + b /\ ~(a + 1 <= a)
    OBVIOUS
  <2> QED
    BY <1>1, <1>5, <2>1
<1>8. ASSUME NEW i \in 1 .. b PROVE p[a + 1 + i] = CopyFrom(RetRegs[i], Outs(s)[i])
  <2>1. (a + 1 + i) - (a + 1) = i /\ a + 1 + i \in 1 .. a + 1 + b /\ ~(a + 1 + i <= a + 1) /\ ~(a + 1 + i <= a)
    OBVIOUS
  <2>2. p[a + 1 + i] = d[i]
    BY <1>5, <2>1
  <2> QED
    BY <1>a, <2>2
<1>9. Piece(p, s, n)
  BY <1>4, <1>5, <1>6, <1>7, <1>8 DEF Piece
<1> QED
  BY <1>1, <1>2, <1>3, <1>9

\* Kinds of instructions of a piece.
LEMMA PieceInsns ==
  ASSUME NEW s \in Statement, InRegisters(s), NEW n \in Nat
  PROVE  /\ \A i \in 1 .. Len(Ins(s)) :
              /\ To(s, i) \in CallInsns /\ ~Pseudo(To(s, i)) /\ To(s, i).op = "CopyTo"
              /\ To(s, i).reg = ToRegs(s)[i] /\ To(s, i).v = Ins(s)[i] /\ To(s, i).n = 0
         /\ \A i \in 1 .. Len(Outs(s)) :
              /\ i = 1 /\ Outs(s)[i] \in VRegs /\ RetRegs[i] \in Clobbered
              /\ ~Pseudo(CopyFrom(RetRegs[i], Outs(s)[i]))
              /\ CopyFrom(RetRegs[i], Outs(s)[i]).op = "CopyFrom"
<1>1. /\ Ins(s) \in Seq(VRegs) /\ Outs(s) \in Seq(VRegs) /\ Len(Ins(s)) \in Nat /\ Len(Outs(s)) \in Nat
  BY StatementParts
<1>2. ASSUME NEW i \in 1 .. Len(Ins(s))
      PROVE  /\ To(s, i) \in CallInsns /\ ~Pseudo(To(s, i)) /\ To(s, i).op = "CopyTo"
             /\ To(s, i).reg = ToRegs(s)[i] /\ To(s, i).v = Ins(s)[i] /\ To(s, i).n = 0
  <2>1. Ins(s)[i] \in VRegs
    BY <1>1, ElementOfSeq
  <2>2. i \in 1 .. Len(ToRegs(s))
    <3>1. Len(ToRegs(s)) \in Nat /\ Len(Ins(s)) <= Len(ToRegs(s))
      BY Registers DEF InRegisters, ToRegs
    <3> QED
      BY <1>1, <3>1
  <2>3. ToRegs(s)[i] \in Clobbered
    BY <2>2, ToRegister
  <2>4. PICK r \in Clobbered, v \in VRegs : r = ToRegs(s)[i] /\ v = Ins(s)[i]
    BY <2>1, <2>3
  <2>5. To(s, i) = CopyTo(r, v)
    BY <2>4 DEF To
  <2>6. /\ CopyTo(r, v) \in CallInsns /\ ~Pseudo(CopyTo(r, v)) /\ CopyTo(r, v).op = "CopyTo"
        /\ CopyTo(r, v).reg = r /\ CopyTo(r, v).v = v /\ CopyTo(r, v).n = 0
    BY CopyInsns
  <2> QED
    BY <2>4, <2>5, <2>6, Zenon
<1>3. ASSUME NEW i \in 1 .. Len(Outs(s))
      PROVE  /\ i = 1 /\ Outs(s)[i] \in VRegs /\ RetRegs[i] \in Clobbered
             /\ ~Pseudo(CopyFrom(RetRegs[i], Outs(s)[i]))
             /\ CopyFrom(RetRegs[i], Outs(s)[i]).op = "CopyFrom"
  <2>1. Outs(s)[i] \in VRegs
    BY <1>1, ElementOfSeq
  <2>2. i = 1
    <3>1. Len(Outs(s)) <= 1
      BY DEF InRegisters
    <3> QED
      BY <1>1, <3>1
  <2> QED
    BY <2>1, <2>2, Registers, CopyInsns
<1> QED
  BY <1>2, <1>3

Erased(c) == eliminateCallFramePseudoInstr(c)

\* What is emitted for a statement.
Raw(s, n) ==
  CASE s.k = "const" -> <<LoadImm(s.dst, s.val, n)>>
    [] s.k = "call"  ->
         <<ADJCALLSTACK("DOWN")>> \o CopiesTo(CC_BPF64(Len(s.args)), s.args)
           \o <<JAL(CallOperands(CC_BPF64(Len(s.args))), n), ADJCALLSTACK("UP")>>
           \o LowerCallResult(s)
    [] s.k = "ret"   ->
         CopiesTo(RetCC_BPF64(Len(s.vals)), s.vals)
           \o <<RET({RetCC_BPF64(Len(s.vals))[i] : i \in DOMAIN RetCC_BPF64(Len(s.vals))}, n)>>

\* What LowerConst, LowerCall and LowerReturn emit, with its marker.
LEMMA RawMarker ==
  ASSUME NEW s \in Statement, InRegisters(s), NEW n \in Nat
  PROVE  /\ s.k = "const" => Raw(s, n) = <<Marker(s, n)>>
         /\ s.k = "call" => Raw(s, n) = <<ADJCALLSTACK("DOWN")>> \o CopiesTo(InLocations(s), Ins(s))
                                          \o <<Marker(s, n), ADJCALLSTACK("UP")>>
                                          \o CopiesFrom(OutLocations(s), Outs(s))
         /\ s.k = "ret" => Raw(s, n) = CopiesTo(InLocations(s), Ins(s)) \o <<Marker(s, n)>>
<1>1. PICK l \in Nat : l = Len(Ins(s))
  BY StatementParts
<1>2. Len(ToRegs(s)) = IF s.k = "call" THEN 5 ELSE 1
  BY Registers DEF ToRegs
<1>3. l <= Len(ToRegs(s))
  BY <1>1 DEF InRegisters
<1>4. CASE s.k = "const"
  BY <1>4 DEF Raw, Marker
<1>5. CASE s.k = "call"
  <2>1. Ins(s) = s.args /\ Outs(s) = s.dst /\ ToRegs(s) = ArgRegs
    BY <1>5 DEF Ins, Outs, ToRegs
  <2>2. InLocations(s) = CC_BPF64(Len(s.args))
    BY <1>5, <2>1 DEF InLocations
  <2>3. LowerCallResult(s) = CopiesFrom(OutLocations(s), Outs(s))
    BY <2>1 DEF LowerCallResult, OutLocations
  <2>4. CallOperands(CC_BPF64(l)) = {ArgRegs[i] : i \in 1 .. l}
    <3>1. DOMAIN CC_BPF64(l) = 1 .. l
      BY DEF CC_BPF64
    <3>2. \A i \in 1 .. l : CC_BPF64(l)[i] = ArgRegs[i]
      BY <1>2, <1>3, <1>5, Locations
    <3> QED
      BY <3>1, <3>2 DEF CallOperands
  <2>5. Marker(s, n) = JAL(CallOperands(CC_BPF64(Len(s.args))), n)
    BY <1>1, <1>5, <2>1, <2>4 DEF Marker
  <2> QED
    BY <1>5, <2>1, <2>2, <2>3, <2>5 DEF Raw
<1>6. CASE s.k = "ret"
  <2>1. Ins(s) = s.vals /\ ToRegs(s) = RetRegs
    BY <1>6 DEF Ins, ToRegs
  <2>2. InLocations(s) = RetCC_BPF64(Len(s.vals))
    BY <1>6, <2>1 DEF InLocations
  <2>3. {RetCC_BPF64(l)[i] : i \in DOMAIN RetCC_BPF64(l)} = {RetRegs[i] : i \in 1 .. l}
    <3>1. DOMAIN RetCC_BPF64(l) = 1 .. l
      BY DEF RetCC_BPF64
    <3>2. \A i \in 1 .. l : RetCC_BPF64(l)[i] = RetRegs[i]
      BY <1>2, <1>3, <1>6, Locations
    <3> QED
      BY <3>1, <3>2
  <2>4. Marker(s, n) = RET({RetCC_BPF64(l)[i] : i \in DOMAIN RetCC_BPF64(l)}, n)
    BY <1>1, <1>6, <2>1, <2>3 DEF Marker
  <2> QED
    BY <1>1, <1>6, <2>1, <2>2, <2>4 DEF Raw
<1> QED
  BY <1>4, <1>5, <1>6

\* Parts grouped in another way.
Associate(x, y, z)      == (x \o y) \o z = x \o (y \o z)
Regroup(d, c, m, u, r)  == ((d \o c) \o (m \o u)) \o r = (d \o ((c \o m) \o u)) \o r

\* Concatenation, of three sequences and of the five that LowerCall emits.
LEMMA Associative ==
  ASSUME NEW S, NEW x \in Seq(S), NEW y \in Seq(S), NEW z \in Seq(S)
  PROVE  Associate(x, y, z)
BY ConcatAssociative DEF Associate

LEMMA Regrouped ==
  ASSUME NEW S, NEW d \in Seq(S), NEW c \in Seq(S), NEW m \in Seq(S), NEW u \in Seq(S), NEW r \in Seq(S)
  PROVE  Regroup(d, c, m, u, r)
<1>1. PICK dc \in Seq(S) : dc = d \o c
  BY ConcatProperties
<1>2. PICK cm \in Seq(S) : cm = c \o m
  BY ConcatProperties
<1>3. Associate(dc, m, u) /\ Associate(d, c, m) /\ Associate(d, cm, u)
  BY Associative
<1>4. (dc \o m) \o u = (d \o cm) \o u
  BY <1>1, <1>2, <1>3, Zenon DEF Associate
<1> QED
  BY <1>1, <1>2, <1>3, <1>4, Zenon DEF Associate, Regroup

ErasesTo(d, c, m, u, r) == Erased((d \o ((c \o m) \o u)) \o r) = (c \o m) \o r

\* Of what LowerCall emits the two pseudos are erased and nothing else.
LEMMA ErasedParts ==
  ASSUME NEW d \in Seq(CallInsns), NEW c \in Seq(CallInsns), NEW m \in Seq(CallInsns),
         NEW u \in Seq(CallInsns), NEW r \in Seq(CallInsns),
         Erased(d) = << >>, Erased(u) = << >>, Erased(c) = c, Erased(m) = m, Erased(r) = r
  PROVE  ErasesTo(d, c, m, u, r)
<1>1. PICK cm \in Seq(CallInsns) : cm = c \o m
  BY ConcatProperties
<1>2. PICK cmu \in Seq(CallInsns) : cmu = cm \o u
  BY ConcatProperties
<1>3. PICK x \in Seq(CallInsns) : x = d \o cmu
  BY ConcatProperties
<1>4. /\ Erased(c \o m) = Erased(c) \o Erased(m)
      /\ Erased(cm \o u) = Erased(cm) \o Erased(u)
      /\ Erased(d \o cmu) = Erased(d) \o Erased(cmu)
      /\ Erased(x \o r) = Erased(x) \o Erased(r)
  BY ErasedConcat DEF Erased
<1>5. cm \o << >> = cm /\ << >> \o cm = cm
  BY ConcatEmptySeq
<1>6. Erased(cm) = cm
  BY <1>1, <1>4, Zenon
<1>7. Erased(cmu) = cm
  BY <1>2, <1>4, <1>5, <1>6, Zenon
<1>8. Erased(x) = cm
  BY <1>3, <1>4, <1>5, <1>7, Zenon
<1> QED
  BY <1>1, <1>2, <1>3, <1>4, <1>8, Zenon DEF ErasesTo

\* The parts of a call: its pseudos go, the rest stays, and no copy is dead.
CallLowered(d, c, m, u, r) ==
  /\ <<d>> \o c \o <<m, u>> \o r \in Seq(CallInsns)
  /\ Erased(<<d>> \o c \o <<m, u>> \o r) = c \o <<m>> \o r
  /\ Tidy(<<d>> \o c \o <<m, u>> \o r)

\* What LowerCall emits is tidy and loses its pseudos.
LEMMA CallParts ==
  ASSUME NEW d \in CallInsns, NEW u \in CallInsns, Pseudo(d), Pseudo(u), NEW m \in CallInsns, ~Pseudo(m),
         NEW c \in Seq(CallInsns), NEW r \in Seq(CallInsns),
         \A i \in DOMAIN c : ~Pseudo(c[i]), \A i \in DOMAIN r : ~Pseudo(r[i]),
         m.op # "CopyTo", \A i \in 1 .. Len(r) : r[i].op # "CopyTo", Tidy(c \o <<m>>)
  PROVE  CallLowered(d, c, m, u, r)
<1>1. PICK D \in Seq(CallInsns) : D = <<d>> /\ Len(D) = 1 /\ D[1] = d
  BY Singleton, Zenon
<1>2. PICK M \in Seq(CallInsns) : M = <<m>> /\ Len(M) = 1 /\ M[1] = m
  BY Singleton, Zenon
<1>3. PICK U \in Seq(CallInsns) : U = <<u>> /\ Len(U) = 1 /\ U[1] = u
  BY Singleton, Zenon
<1>4. <<m, u>> = M \o U
  BY <1>2, <1>3, Pair, Zenon
<1>5. PICK cm \in Seq(CallInsns) : cm = c \o M
  BY ConcatProperties, Zenon
<1>6. PICK cmu \in Seq(CallInsns) : cmu = cm \o U
  BY ConcatProperties, Zenon
<1>7. PICK x \in Seq(CallInsns) : x = D \o cmu
  BY ConcatProperties, Zenon
<1>8. PICK all \in Seq(CallInsns) : all = x \o r
  BY ConcatProperties, Zenon
<1>9. all = <<d>> \o c \o <<m, u>> \o r
  <2>1. Regroup(D, c, M, U, r)
    BY Regrouped, Zenon
  <2> QED
    BY <1>1, <1>4, <1>5, <1>6, <1>7, <1>8, <2>1, Zenon DEF Regroup
<1>10. Erased(all) = c \o <<m>> \o r
  <2>1. Erased(D) = << >> /\ Erased(U) = << >>
    BY <1>1, <1>3, ErasedPseudo, Zenon DEF Erased
  <2>2. Erased(c) = c /\ Erased(r) = r
    BY ErasedNone, Zenon DEF Erased
  <2>3. Erased(M) = M
    <3>1. \A i \in DOMAIN M : ~Pseudo(M[i])
      <4>1. DOMAIN M = 1 .. 1
        BY <1>2, LenProperties, Zenon
      <4> QED
        BY <1>2, <4>1
    <3> QED
      BY <3>1, ErasedNone, Zenon DEF Erased
  <2>4. ErasesTo(D, c, M, U, r)
    BY <2>1, <2>2, <2>3, ErasedParts, Zenon
  <2> QED
    BY <1>2, <1>5, <1>6, <1>7, <1>8, <2>4, Zenon DEF ErasesTo
<1>11. Tidy(all)
  <2>1. ASSUME NEW i \in CallInsns, Pseudo(i), NEW s \in Seq(CallInsns), Len(s) = 1, s[1] = i
        PROVE  Tidy(s)
    <3>1. i.op # "CopyTo"
      BY <2>1 DEF Pseudo
    <3>2. \A k \in 1 .. 1 : k = 1
      OBVIOUS
    <3> QED
      BY <2>1, <3>1, <3>2, TidyNone
  <2>2. Tidy(D) /\ Tidy(U)
    BY <1>1, <1>3, <2>1, Zenon
  <2>3. Tidy(r)
    BY TidyNone, Zenon
  <2>4. Tidy(cmu)
    BY <1>2, <1>5, <1>6, <2>2, TidyConcat, Zenon
  <2>5. Tidy(x)
    BY <1>7, <2>2, <2>4, TidyConcat, Zenon
  <2> QED
    BY <1>8, <2>3, <2>5, TidyConcat, Zenon
<1> QED
  BY <1>9, <1>10, <1>11, Zenon DEF CallLowered

\* Copies to the registers that the instruction behind them uses.
LEMMA TidyCopies ==
  ASSUME NEW c \in Seq(CallInsns), NEW m \in CallInsns, m.op \in {"JAL", "RET"},
         \A i \in 1 .. Len(c) : c[i].op = "CopyTo" /\ c[i].reg \in m.uses
  PROVE  Tidy(c \o <<m>>)
<1>1. PICK l \in Nat : l = Len(c)
  BY LenProperties
<1>2. PICK t : /\ t = c \o <<m>> /\ Len(t) = l + 1 /\ t[l + 1] = m /\ \A j \in 1 .. l : t[j] = c[j]
  <2>1. /\ Len(c \o <<m>>) = Len(c) + 1
        /\ \A j \in 1 .. Len(c) : (c \o <<m>>)[j] = c[j]
        /\ (c \o <<m>>)[Len(c) + 1] = m
    BY OneMore
  <2> QED
    BY <1>1, <2>1, Zenon
<1>3. ASSUME NEW p \in 1 .. l + 1, t[p].op = "CopyTo"
      PROVE  UsedAt(t, p, l + 1) /\ l + 1 \in p .. l + 1
  <2>1. p # l + 1
    BY <1>2, <1>3
  <2>2. p \in 1 .. l
    BY <2>1
  <2>3. \A r \in p .. (l + 1) - 1 : r \in 1 .. l
    BY <2>2
  <2>4. ASSUME NEW r \in p .. (l + 1) - 1 PROVE t[r].op \notin {"JAL", "RET"}
    <3>1. t[r].op = "CopyTo"
      BY <1>1, <1>2, <2>3
    <3> QED
      BY <3>1
  <2>5. t[p].reg \in m.uses
    BY <1>1, <1>2, <2>2
  <2> QED
    BY <1>2, <2>2, <2>4, <2>5 DEF UsedAt
<1> QED
  BY <1>2, <1>3 DEF Tidy

\* The pseudos are instructions.
LEMMA PseudoInsns ==
  /\ ADJCALLSTACK("DOWN") \in CallInsns /\ Pseudo(ADJCALLSTACK("DOWN"))
  /\ ADJCALLSTACK("UP") \in CallInsns /\ Pseudo(ADJCALLSTACK("UP"))
BY DEF ADJCALLSTACK, Insn, CallInsns, Ops, Pseudo

\* What a statement is lowered to is tidy and, erased, its piece of the layout.
LEMMA Emitted ==
  ASSUME NEW s \in Statement, InRegisters(s), NEW n \in Nat
  PROVE  /\ Raw(s, n) \in Seq(CallInsns) /\ Tidy(Raw(s, n))
         /\ Erased(Raw(s, n)) \in Seq(CallInsns) /\ Piece(Erased(Raw(s, n)), s, n)
<1>1. PICK m \in CallInsns :
        /\ m = Marker(s, n) /\ ~Pseudo(m)
        /\ m.op = IF s.k = "const" THEN "LD_imm64" ELSE IF s.k = "call" THEN "JAL" ELSE "RET"
        /\ s.k # "const" => m.uses = {ToRegs(s)[i] : i \in 1 .. Len(Ins(s))}
  BY MarkerInsn, Zenon
<1>2. PICK c \in Seq(CallInsns) : c = CopiesTo(InLocations(s), Ins(s)) /\ AreCopiesTo(c, ToRegs(s), Ins(s))
  BY StatementCopies, Zenon
<1>3. PICK r \in Seq(CallInsns) : r = CopiesFrom(OutLocations(s), Outs(s)) /\ AreCopiesFrom(r, RetRegs, Outs(s))
  BY StatementCopies, Zenon
<1>4. c \o <<m>> \o r \in Seq(CallInsns) /\ Piece(c \o <<m>> \o r, s, n)
  BY <1>1, <1>2, <1>3, PieceOfParts, Zenon
<1>5. /\ s.k \in {"const", "call", "ret"} /\ Len(Ins(s)) \in Nat /\ Len(Outs(s)) \in Nat
  BY StatementParts
<1>6. /\ \A i \in DOMAIN c : ~Pseudo(c[i])
      /\ \A i \in 1 .. Len(c) : c[i].op = "CopyTo" /\ (s.k # "const" => c[i].reg \in m.uses)
  <2>1. ASSUME NEW i \in 1 .. Len(Ins(s))
        PROVE  /\ c[i] = To(s, i) /\ ~Pseudo(To(s, i)) /\ To(s, i).op = "CopyTo"
               /\ To(s, i).reg = ToRegs(s)[i]
    BY <1>2, PieceInsns, Zenon DEF AreCopiesTo, To
  <2>2. DOMAIN c = 1 .. Len(c) /\ Len(c) = Len(Ins(s))
    BY <1>2, LenProperties, Zenon DEF AreCopiesTo
  <2>3. ASSUME NEW i \in 1 .. Len(c)
        PROVE  ~Pseudo(c[i]) /\ c[i].op = "CopyTo" /\ (s.k # "const" => c[i].reg \in m.uses)
    BY <1>1, <2>1, <2>2
  <2> QED
    BY <2>2, <2>3, Zenon
<1>7. /\ \A i \in DOMAIN r : ~Pseudo(r[i])
      /\ \A i \in 1 .. Len(r) : r[i].op # "CopyTo"
  <2>1. ASSUME NEW i \in 1 .. Len(Outs(s))
        PROVE  /\ r[i] = CopyFrom(RetRegs[i], Outs(s)[i])
               /\ ~Pseudo(CopyFrom(RetRegs[i], Outs(s)[i]))
               /\ CopyFrom(RetRegs[i], Outs(s)[i]).op = "CopyFrom"
    BY <1>3, PieceInsns, Zenon DEF AreCopiesFrom
  <2>2. DOMAIN r = 1 .. Len(r) /\ Len(r) = Len(Outs(s))
    BY <1>3, LenProperties, Zenon DEF AreCopiesFrom
  <2>3. ASSUME NEW i \in 1 .. Len(r) PROVE ~Pseudo(r[i]) /\ r[i].op # "CopyTo"
    BY <2>1, <2>2
  <2> QED
    BY <2>2, <2>3, Zenon
<1>8. c \o <<m>> \in Seq(CallInsns)
  BY OneMore, Zenon
<1>9. ASSUME s.k # "call" PROVE r = << >>
  <2>1. Outs(s) = << >>
    BY <1>9 DEF Outs
  <2> QED
    BY <1>3, <2>1, EmptySeq DEF AreCopiesFrom
<1>10. ASSUME NEW x \in Seq(CallInsns), \A i \in 1 .. Len(x) : ~Pseudo(x[i])
       PROVE  Erased(x) = x
  BY <1>10, LenProperties, ErasedNone DEF Erased
<1>11. CASE s.k = "const"
  <2>1. c = << >>
    <3>1. Ins(s) = << >>
      BY <1>11 DEF Ins
    <3> QED
      BY <1>2, <3>1, EmptySeq DEF AreCopiesTo
  <2>2. PICK M \in Seq(CallInsns) : M = <<m>> /\ Len(M) = 1 /\ M[1] = m
    BY Singleton, Zenon
  <2>3. Raw(s, n) = M
    BY <1>1, <1>11, <2>2, RawMarker, Zenon
  <2>4. c \o <<m>> \o r = M
    <3>1. r = << >>
      BY <1>9, <1>11
    <3>2. << >> \o M = M /\ M \o << >> = M
      BY ConcatEmptySeq
    <3> QED
      BY <2>1, <2>2, <3>1, <3>2, Zenon
  <2>5. \A i \in 1 .. 1 : i = 1
    OBVIOUS
  <2>6. Erased(M) = M
    BY <1>1, <1>10, <2>2, <2>5
  <2>7. Tidy(M)
    BY <1>1, <1>11, <2>2, <2>5, TidyNone
  <2> QED
    BY <1>4, <2>3, <2>4, <2>6, <2>7, Zenon
<1>12. CASE s.k = "call"
  <2>1. PICK d \in CallInsns, u \in CallInsns :
          d = ADJCALLSTACK("DOWN") /\ u = ADJCALLSTACK("UP") /\ Pseudo(d) /\ Pseudo(u)
    <3>1. /\ ADJCALLSTACK("DOWN") \in CallInsns /\ Pseudo(ADJCALLSTACK("DOWN"))
          /\ ADJCALLSTACK("UP") \in CallInsns /\ Pseudo(ADJCALLSTACK("UP"))
      BY PseudoInsns
    <3> QED
      BY <3>1
  <2>2. Raw(s, n) = <<d>> \o c \o <<m, u>> \o r
    BY <1>1, <1>2, <1>3, <1>12, <2>1, RawMarker, Zenon
  <2>3. Tidy(c \o <<m>>)
    BY <1>1, <1>6, <1>12, TidyCopies
  <2>4. m.op # "CopyTo"
    BY <1>1, <1>12
  <2>5. CallLowered(d, c, m, u, r)
    BY <1>1, <1>6, <1>7, <2>1, <2>3, <2>4, CallParts, Zenon
  <2> QED
    BY <1>4, <2>2, <2>5, Zenon DEF CallLowered
<1>13. CASE s.k = "ret"
  <2>1. PICK x \in Seq(CallInsns) : x = c \o <<m>> /\ Len(x) = Len(c) + 1
                                    /\ (\A j \in 1 .. Len(c) : x[j] = c[j]) /\ x[Len(c) + 1] = m
    BY OneMore, Zenon
  <2>2. Raw(s, n) = x
    BY <1>1, <1>2, <1>13, <2>1, RawMarker, Zenon
  <2>3. c \o <<m>> \o r = x
    <3>1. r = << >>
      BY <1>9, <1>13
    <3> QED
      BY <2>1, <3>1, ConcatEmptySeq, Zenon
  <2>4. Tidy(x)
    <3>1. m.op \in {"JAL", "RET"}
      BY <1>1, <1>13
    <3>2. \A i \in 1 .. Len(c) : c[i].op = "CopyTo" /\ c[i].reg \in m.uses
      BY <1>6, <1>13
    <3> QED
      BY <2>1, <3>1, <3>2, TidyCopies, Zenon
  <2>5. Erased(x) = x
    <3>1. Len(c) \in Nat /\ DOMAIN c = 1 .. Len(c)
      BY LenProperties, Zenon
    <3>2. ASSUME NEW i \in 1 .. Len(x) PROVE ~Pseudo(x[i])
      <4>1. i \in 1 .. Len(c) \/ i = Len(c) + 1
        BY <2>1, <3>1
      <4> QED
        BY <1>1, <1>6, <2>1, <3>1, <4>1
    <3> QED
      BY <1>10, <3>2
  <2> QED
    BY <1>4, <2>2, <2>3, <2>4, <2>5, Zenon
<1> QED
  BY <1>5, <1>11, <1>12, <1>13

-----------------------------------------------------------------------------
(***************************************************************************)
(* The layout of erased code: before the instruction that does statement s *)
(* are the copies of what has just arrived, the parameters or the results  *)
(* of the statement before, and those of what the statement takes.         *)
(***************************************************************************)
FromVars(fn, s) == IF s = 1 THEN fn.params ELSE Outs(fn.body[s - 1])
FromRegs(s)     == IF s = 1 THEN ArgRegs ELSE RetRegs
From(fn, s, i)  == CopyFrom(FromRegs(s)[i], FromVars(fn, s)[i])

Section(c, fn, lo, hi, s) ==
  /\ hi = lo + Len(FromVars(fn, s)) + Len(Ins(fn.body[s])) + 1 /\ hi <= Len(c)
  /\ \A i \in 1 .. Len(FromVars(fn, s)) : c[lo + i] = From(fn, s, i)
  /\ \A i \in 1 .. Len(Ins(fn.body[s])) : c[lo + Len(FromVars(fn, s)) + i] = To(fn.body[s], i)
  /\ c[hi] = Marker(fn.body[s], s)

Rest(c, fn, lo, s) ==
  /\ Len(c) = lo + Len(FromVars(fn, s))
  /\ \A i \in 1 .. Len(FromVars(fn, s)) : c[lo + i] = From(fn, s, i)

\* The first k statements, and the places b of the instructions that do them.
Laid(c, fn, k, b) ==
  /\ b \in [0 .. k -> Nat] /\ b[0] = 0
  /\ \A s \in 1 .. k : Section(c, fn, b[s - 1], b[s], s)
  /\ Rest(c, fn, b[k], k + 1)

\* One sequence behind another.
Joined(t, c, p) ==
  /\ Len(t) = Len(c) + Len(p)
  /\ \A n \in 1 .. Len(c) : t[n] = c[n]
  /\ \A n \in 1 .. Len(p) : t[Len(c) + n] = p[n]

\* A sequence behind another.
LEMMA Join ==
  ASSUME NEW S, NEW c \in Seq(S), NEW p \in Seq(S)
  PROVE  c \o p \in Seq(S) /\ Joined(c \o p, c, p)
<1>1. PICK l \in Nat, m \in Nat : l = Len(c) /\ m = Len(p)
  BY LenProperties
<1>2. PICK t \in Seq(S) : /\ t = c \o p /\ Len(t) = Len(c) + Len(p)
                          /\ \A i \in 1 .. Len(c) + Len(p) : t[i] = IF i <= Len(c) THEN c[i] ELSE p[i - Len(c)]
  <2>1. /\ c \o p \in Seq(S) /\ Len(c \o p) = Len(c) + Len(p)
        /\ \A i \in 1 .. Len(c) + Len(p) : (c \o p)[i] = IF i <= Len(c) THEN c[i] ELSE p[i - Len(c)]
    BY ConcatProperties
  <2> QED
    BY <2>1, Zenon
<1>3. /\ Len(t) = l + m
      /\ \A i \in 1 .. l + m : t[i] = IF i <= l THEN c[i] ELSE p[i - l]
  BY <1>1, <1>2, Zenon
<1>4. \A n \in 1 .. l : t[n] = c[n]
  BY <1>3
<1>5. ASSUME NEW n \in 1 .. m PROVE t[l + n] = p[n]
  <2>1. l + n \in 1 .. l + m /\ ~(l + n <= l) /\ (l + n) - l = n
    OBVIOUS
  <2> QED
    BY <1>3, <2>1
<1> QED
  BY <1>1, <1>2, <1>3, <1>4, <1>5, Zenon DEF Joined

\* What arrives at a statement goes to variables.
LEMMA FromTypes ==
  ASSUME NEW fn \in Function, NEW s \in 1 .. Len(fn.body) + 1
  PROVE  FromVars(fn, s) \in Seq(VRegs) /\ Len(FromVars(fn, s)) \in Nat
<1>1. fn.params \in Seq(VRegs) /\ fn.body \in Seq(Statement)
  BY DEF Function
<1>2. CASE s = 1
  BY <1>1, <1>2, LenProperties DEF FromVars
<1>3. CASE s # 1
  <2>1. s - 1 \in 1 .. Len(fn.body)
    BY <1>1, <1>3, LenProperties
  <2>2. fn.body[s - 1] \in Statement
    BY <1>1, <2>1, ElementOfSeq
  <2> QED
    BY <1>3, <2>2, StatementParts DEF FromVars
<1> QED
  BY <1>2, <1>3

\* The statements of a function.
LEMMA BodyTypes ==
  ASSUME NEW fn \in Function, NEW s \in 1 .. Len(fn.body)
  PROVE  fn.body[s] \in Statement /\ Len(fn.body) \in Nat /\ Len(Ins(fn.body[s])) \in Nat
<1>1. fn.body \in Seq(Statement)
  BY DEF Function
<1> QED
  BY <1>1, ElementOfSeq, LenProperties, StatementParts

\* The arguments of a function.
LEMMA HeadLaid ==
  ASSUME NEW fn \in Function, Len(fn.params) <= 5
  PROVE  LET c == CopiesFrom(CC_BPF64(Len(fn.params)), fn.params)
         IN  /\ c \in Seq(CallInsns) /\ Tidy(c) /\ Erased(c) = c
             /\ \E b : Laid(c, fn, 0, b)
<1>1. PICK vs \in Seq(VRegs) : vs = fn.params
  BY DEF Function
<1>2. PICK l \in Nat : l = Len(vs) /\ l <= 5
  BY <1>1, LenProperties
<1>3. PICK locs : locs = CC_BPF64(l)
  OBVIOUS
<1>4. Backed(locs, ArgRegs, vs)
  <2>1. ASSUME NEW i \in 1 .. l PROVE locs[i] = ArgRegs[i] /\ ArgRegs[i] \in Clobbered
    BY <1>2, <1>3, Locations, Registers
  <2> QED
    BY <1>2, <2>1, Zenon DEF Backed
<1>5. PICK c \in Seq(CallInsns) : c = CopiesFrom(locs, vs) /\ AreCopiesFrom(c, ArgRegs, vs)
  BY <1>4, Copies, Zenon
<1>6. Len(c) = l /\ \A i \in 1 .. l : c[i] = CopyFrom(ArgRegs[i], vs[i])
  BY <1>2, <1>5, Zenon DEF AreCopiesFrom
<1>7. ASSUME NEW i \in 1 .. l PROVE ~Pseudo(c[i]) /\ c[i].op # "CopyTo"
  <2>1. vs[i] \in VRegs
    BY <1>2, ElementOfSeq
  <2>2. ArgRegs[i] \in Clobbered
    BY <1>2, Registers
  <2> QED
    BY <1>6, <2>1, <2>2, CopyInsns
<1>8. Tidy(c)
  BY <1>6, <1>7, TidyNone
<1>9. Erased(c) = c
  BY <1>6, <1>7, LenProperties, ErasedNone DEF Erased
<1>10. Laid(c, fn, 0, [x \in 0 .. 0 |-> 0])
  <2>1. PICK b : b = [x \in 0 .. 0 |-> 0]
    OBVIOUS
  <2>2. b \in [0 .. 0 -> Nat] /\ b[0] = 0
    BY <2>1
  <2>3. FromVars(fn, 0 + 1) = vs /\ FromRegs(0 + 1) = ArgRegs
    BY <1>1 DEF FromVars, FromRegs
  <2>4. Rest(c, fn, 0, 0 + 1)
    <3>1. \A i \in 1 .. l : c[0 + i] = From(fn, 0 + 1, i)
      BY <1>6, <2>3 DEF From
    <3> QED
      BY <1>2, <1>6, <2>3, <3>1 DEF Rest
  <2>5. \A s \in 1 .. 0 : FALSE
    OBVIOUS
  <2> QED
    BY <2>1, <2>2, <2>4, <2>5, Zenon DEF Laid
<1> QED
  BY <1>1, <1>2, <1>3, <1>5, <1>8, <1>9, <1>10, Zenon

\* One more statement.
LEMMA LaidMore ==
  ASSUME NEW fn \in Function, NEW k \in Nat, k + 1 \in 1 .. Len(fn.body),
         NEW c \in Seq(CallInsns), NEW p \in Seq(CallInsns), NEW b,
         Laid(c, fn, k, b), Piece(p, fn.body[k + 1], k + 1)
  PROVE  c \o p \in Seq(CallInsns) /\ \E b2 : Laid(c \o p, fn, k + 1, b2)
<1>1. PICK t \in Seq(CallInsns) : t = c \o p /\ Joined(t, c, p)
  BY Join, Zenon
<1>2. PICK st \in Statement : st = fn.body[k + 1]
  BY BodyTypes
<1>3. PICK ni \in Nat, no \in Nat : ni = Len(Ins(st)) /\ no = Len(Outs(st))
  BY StatementParts
<1>4. PICK nf \in Nat : nf = Len(FromVars(fn, k + 1))
  <2>1. k + 1 \in 1 .. Len(fn.body) + 1
    BY BodyTypes
  <2> QED
    BY <2>1, FromTypes
<1>5. b \in [0 .. k -> Nat] /\ b[0] = 0 /\ Rest(c, fn, b[k], k + 1)
  BY Zenon DEF Laid
<1>6. PICK lo \in Nat : lo = b[k]
  BY <1>5
<1>7. PICK L \in Nat : L = Len(c) /\ L = lo + nf
  BY <1>4, <1>5, <1>6, LenProperties DEF Rest
<1>8. /\ Len(p) = ni + 1 + no
      /\ \A i \in 1 .. ni : p[i] = To(st, i)
      /\ p[ni + 1] = Marker(st, k + 1)
      /\ \A i \in 1 .. no : p[ni + 1 + i] = CopyFrom(RetRegs[i], Outs(st)[i])
  BY <1>2, <1>3, Zenon DEF Piece
<1>9. /\ Len(t) = L + (ni + 1 + no)
      /\ \A n \in 1 .. L : t[n] = c[n]
      /\ \A n \in 1 .. ni + 1 + no : t[L + n] = p[n]
  BY <1>1, <1>7, <1>8, Zenon DEF Joined
<1>10. PICK hi \in Nat : hi = L + ni + 1
  OBVIOUS
<1>11. PICK b2 : b2 = [x \in 0 .. k + 1 |-> IF x <= k THEN b[x] ELSE hi]
  OBVIOUS
<1>12. /\ b2 \in [0 .. k + 1 -> Nat] /\ b2[0] = 0 /\ b2[k + 1] = hi
       /\ \A x \in 0 .. k : b2[x] = b[x]
  BY <1>5, <1>11
<1>13. ASSUME NEW s \in 1 .. k
       PROVE  Section(t, fn, b2[s - 1], b2[s], s)
  <2>1. Section(c, fn, b[s - 1], b[s], s)
    BY Zenon DEF Laid
  <2>2. b2[s - 1] = b[s - 1] /\ b2[s] = b[s]
    BY <1>12
  <2>3. s \in 1 .. Len(fn.body) /\ s \in 1 .. Len(fn.body) + 1
    BY BodyTypes
  <2>4. PICK a \in Nat, d \in Nat : a = Len(FromVars(fn, s)) /\ d = Len(Ins(fn.body[s]))
    BY <2>3, FromTypes, BodyTypes
  <2>5. PICK x \in Nat, y \in Nat : x = b[s - 1] /\ y = b[s]
    <3>1. s - 1 \in 0 .. k /\ s \in 0 .. k
      OBVIOUS
    <3> QED
      BY <1>5, <3>1
  <2>6. /\ y = x + a + d + 1 /\ y <= L
        /\ \A i \in 1 .. a : c[x + i] = From(fn, s, i)
        /\ \A i \in 1 .. d : c[x + a + i] = To(fn.body[s], i)
        /\ c[y] = Marker(fn.body[s], s)
    BY <1>7, <2>1, <2>4, <2>5, Zenon DEF Section
  <2>7. /\ \A i \in 1 .. a : x + i \in 1 .. L
        /\ \A i \in 1 .. d : x + a + i \in 1 .. L
        /\ y \in 1 .. L /\ y <= L + (ni + 1 + no)
    BY <2>6
  <2>8. /\ \A i \in 1 .. a : t[x + i] = From(fn, s, i)
        /\ \A i \in 1 .. d : t[x + a + i] = To(fn.body[s], i)
        /\ t[y] = Marker(fn.body[s], s)
    BY <1>9, <2>6, <2>7
  <2>9. y <= Len(t)
    BY <1>9, <2>7
  <2> QED
    BY <2>2, <2>4, <2>5, <2>6, <2>8, <2>9, Zenon DEF Section
<1>14. Section(t, fn, lo, hi, k + 1)
  <2>1. \A i \in 1 .. nf : t[lo + i] = From(fn, k + 1, i)
    <3> SUFFICES ASSUME NEW i \in 1 .. nf PROVE t[lo + i] = From(fn, k + 1, i)
      OBVIOUS
    <3>1. lo + i \in 1 .. L
      BY <1>7
    <3>2. c[lo + i] = From(fn, k + 1, i)
      BY <1>4, <1>5, <1>6 DEF Rest
    <3> QED
      BY <1>9, <3>1, <3>2
  <2>2. \A i \in 1 .. ni : t[lo + nf + i] = To(st, i)
    <3> SUFFICES ASSUME NEW i \in 1 .. ni PROVE t[lo + nf + i] = To(st, i)
      OBVIOUS
    <3>1. lo + nf + i = L + i /\ i \in 1 .. ni + 1 + no
      BY <1>7
    <3> QED
      BY <1>8, <1>9, <3>1
  <2>3. t[hi] = Marker(st, k + 1)
    <3>1. hi = L + (ni + 1) /\ ni + 1 \in 1 .. ni + 1 + no
      BY <1>10
    <3> QED
      BY <1>8, <1>9, <3>1
  <2>4. hi = lo + nf + ni + 1 /\ hi <= Len(t)
    BY <1>7, <1>9, <1>10
  <2> QED
    BY <1>2, <1>3, <1>4, <2>1, <2>2, <2>3, <2>4, Zenon DEF Section
<1>15. Rest(t, fn, hi, (k + 1) + 1)
  <2>1. (k + 1) + 1 # 1 /\ ((k + 1) + 1) - 1 = k + 1
    OBVIOUS
  <2>2. FromVars(fn, (k + 1) + 1) = Outs(st) /\ FromRegs((k + 1) + 1) = RetRegs
    BY <1>2, <2>1, Zenon DEF FromVars, FromRegs
  <2>3. \A i \in 1 .. no : t[hi + i] = CopyFrom(RetRegs[i], Outs(st)[i])
    <3> SUFFICES ASSUME NEW i \in 1 .. no PROVE t[hi + i] = CopyFrom(RetRegs[i], Outs(st)[i])
      OBVIOUS
    <3>0. PICK x \in Nat : x = i /\ 1 <= x /\ x <= no
      OBVIOUS
    <3>1. hi + i = L + (ni + 1 + i) /\ ni + 1 + i \in 1 .. ni + 1 + no
      BY <1>10, <3>0
    <3> QED
      BY <1>8, <1>9, <3>1
  <2>4. Len(t) = hi + no
    BY <1>9, <1>10
  <2> QED
    BY <1>3, <2>2, <2>3, <2>4, Zenon DEF Rest, From
<1>16. \A s \in 1 .. k + 1 : Section(t, fn, b2[s - 1], b2[s], s)
  <2> SUFFICES ASSUME NEW s \in 1 .. k + 1 PROVE Section(t, fn, b2[s - 1], b2[s], s)
    OBVIOUS
  <2>1. CASE s \in 1 .. k
    BY <1>13, <2>1
  <2>2. CASE s = k + 1
    <3>1. s - 1 = k /\ b2[k] = lo
      BY <1>6, <1>12, <2>2
    <3> QED
      BY <1>12, <1>14, <2>2, <3>1
  <2> QED
    BY <2>1, <2>2
<1> QED
  BY <1>1, <1>12, <1>15, <1>16, Zenon DEF Laid

-----------------------------------------------------------------------------
(***************************************************************************)
(* What is true of the code.  Of the function being lowered, the arguments *)
(* and the first statements are laid out, once the pseudos are erased; the *)
(* functions before it are laid out as a whole.                            *)
(***************************************************************************)
LoweredTo(c, fn, k) ==
  /\ Tidy(c) /\ Len(fn.params) <= 5
  /\ \A s \in 1 .. k : InRegisters(fn.body[s])
  /\ \E b : Laid(Erased(c), fn, k, b)

AssembledTo(c, fn) ==
  /\ Len(fn.params) <= 5
  /\ \A s \in 1 .. Len(fn.body) : InRegisters(fn.body[s])
  /\ \E b : Laid(c, fn, Len(fn.body), b)

CodeTypes ==
  /\ code \in [DOMAIN module -> Seq(CallInsns)]
  /\ \A g \in DOMAIN module : g > f => code[g] = << >>

HomesApart ==
  /\ home \in [DOMAIN module -> [VRegs -> HomeRegs \cup {Slot}]]
  /\ \A g \in DOMAIN module :
       /\ \A v, w \in VRegs : home[g][v] = home[g][w] /\ home[g][v] # Slot => v = w
       /\ g \notin Keepers => \A v \in VRegs : home[g][v] = Slot

BeingLowered ==
  /\ stage = "lower" /\ at = 0 => code[f] = << >>
  /\ stage = "lower" /\ at # 0 => LoweredTo(code[f], module[f], at - 1)
  /\ stage = "frame" => LoweredTo(code[f], module[f], Len(module[f].body))

Assembled ==
  \A g \in DOMAIN module : g < f \/ stage \in {"run", "halt"} => AssembledTo(code[g], module[g])

CodeInv == CodeTypes /\ HomesApart /\ BeingLowered /\ Assembled

\* The function being lowered.
LEMMA TheFunction ==
  ASSUME Lowered
  PROVE  /\ module \in Modules /\ f \in DOMAIN module /\ module[f] \in Function
         /\ f \in Nat /\ DOMAIN module = 1 .. Len(module) /\ Len(module) \in Nat
         /\ module[f].params \in Seq(VRegs) /\ Len(module[f].params) \in Nat
         /\ Len(module[f].body) \in Nat /\ at \in 0 .. Len(module[f].body) + 1
         /\ \A n \in 1 .. Len(module[f].body) : module[f].body[n] \in Statement
<1>1. module \in Modules /\ f \in DOMAIN module /\ at \in 0 .. Len(module[f].body) + 1
  BY DEF Lowered
<1>2. module \in Seq(Function)
  BY <1>1, ModuleAssumption
<1>3. module[f] \in Function
  BY <1>1, <1>2, LenProperties, ElementOfSeq
<1>4. module[f].params \in Seq(VRegs)
  BY <1>3 DEF Function
<1> QED
  BY <1>1, <1>3, <1>4, Shapes, LenProperties

\* There is no code at first.
LEMMA CodeInit == Init => CodeInv
<1> SUFFICES ASSUME Init PROVE CodeInv
  OBVIOUS
<1>1. /\ module \in Modules /\ f = 1 /\ at = 0 /\ stage = "lower"
      /\ code = [g \in DOMAIN module |-> << >>]
      /\ home = [g \in DOMAIN module |-> [v \in VRegs |-> Slot]]
  BY DEF Init
<1>2. << >> \in Seq(CallInsns)
  OBVIOUS
<1>3. DOMAIN module = 1 .. Len(module) /\ 1 \in DOMAIN module
  BY <1>1, Shapes
<1> QED
  BY <1>1, <1>2, <1>3 DEF CodeInv, CodeTypes, HomesApart, BeingLowered, Assembled

\* Lowering stops with an error.
LEMMA StoppedCode ==
  ASSUME Lowered, CodeInv, UNCHANGED <<module, f, at, code, home>>, stage = "lower",
         stage' \in {"rejected", "unreachable"}
  PROVE  CodeInv'
BY DEF CodeInv, CodeTypes, HomesApart, BeingLowered, Assembled

\* Something was emitted.
LEMMA EmittedCode ==
  ASSUME Lowered, CodeInv, stage = "lower", stage' = "lower", UNCHANGED <<module, f, home>>,
         at' = at + 1, NEW e \in Seq(CallInsns), Emit(e), LoweredTo(code[f] \o e, module[f], at)
  PROVE  CodeInv'
<1>1. /\ f \in DOMAIN module /\ f \in Nat /\ at \in Nat /\ DOMAIN module = 1 .. Len(module)
      /\ Len(module) \in Nat
  BY TheFunction
<1>2. code \in [DOMAIN module -> Seq(CallInsns)] /\ \A g \in DOMAIN module : g > f => code[g] = << >>
  BY DEF CodeInv, CodeTypes
<1>3. PICK c \in Seq(CallInsns) : c = code[f] \o e
  BY <1>1, <1>2, ConcatProperties
<1>4. code' = [code EXCEPT ![f] = c]
  BY <1>3 DEF Emit
<1>5. code'[f] = c /\ \A g \in DOMAIN module : g # f => code'[g] = code[g]
  BY <1>1, <1>2, <1>4
<1>6. CodeTypes'
  BY <1>1, <1>2, <1>4 DEF CodeTypes
<1>7. HomesApart'
  BY DEF CodeInv, HomesApart
<1>8. BeingLowered'
  <2>1. at' # 0 /\ at' - 1 = at
    BY <1>1
  <2>2. LoweredTo(code'[f'], module'[f'], at' - 1)
    BY <1>3, <1>5, <2>1
  <2> QED
    BY <2>1, <2>2 DEF BeingLowered
<1>9. Assembled'
  BY <1>1, <1>5 DEF CodeInv, Assembled
<1> QED
  BY <1>6, <1>7, <1>8, <1>9 DEF CodeInv

\* LowerFormalArguments lays out the arguments.
LEMMA FormalCode ==
  ASSUME Lowered, CodeInv, LowerNext, at = 0
  PROVE  CodeInv'
<1>1. PICK fn \in Function : fn = module[f]
  BY TheFunction
<1>2. /\ stage = "lower" /\ UNCHANGED <<module, f, home>> /\ LowerFormalArguments(fn)
  BY <1>1 DEF LowerNext
<1>3. PICK l \in Nat : l = Len(fn.params)
  BY <1>1, TheFunction
<1>4. PICK locs : locs = CC_BPF64(Len(fn.params))
  OBVIOUS
<1>5. CASE Unreached \/ Reject
  BY <1>2, <1>5, StoppedCode DEF Unreached, Reject
<1>6. CASE ~("mem" \in {locs[i] : i \in DOMAIN locs}) /\ Emit(CopiesFrom(locs, fn.params)) /\ NextOne
  <2>1. l <= 5
    BY <1>3, <1>4, <1>6, FiveRegisters
  <2>2. PICK e \in Seq(CallInsns) : /\ e = CopiesFrom(locs, fn.params)
                                    /\ Tidy(e) /\ Erased(e) = e /\ \E b : Laid(e, fn, 0, b)
    BY <1>3, <1>4, <2>1, HeadLaid, Zenon
  <2>3. code[f] = << >>
    BY <1>2 DEF CodeInv, BeingLowered
  <2>4. code[f] \o e = e
    BY <2>3, ConcatEmptySeq
  <2>5. LoweredTo(code[f] \o e, module[f], at)
    <3>1. \A s \in 1 .. 0 : InRegisters(fn.body[s])
      OBVIOUS
    <3>2. LoweredTo(e, fn, 0)
      BY <1>3, <2>1, <2>2, <3>1, Zenon DEF LoweredTo
    <3> QED
      BY <1>1, <2>4, <3>2, Zenon
  <2> QED
    BY <1>2, <1>6, <2>2, <2>5, EmittedCode DEF NextOne
<1> QED
  BY <1>2, <1>4, <1>5, <1>6, Zenon DEF LowerFormalArguments

\* After the last statement the function is laid out as a whole.
LEMMA EndOfBodyCode ==
  ASSUME Lowered, CodeInv, LowerNext, at > Len(module[f].body), at # 0
  PROVE  CodeInv'
<1>1. /\ stage = "lower" /\ stage' = "frame" /\ UNCHANGED <<module, f, at, code, home>>
  BY DEF LowerNext
<1>2. at - 1 = Len(module[f].body)
  BY TheFunction
<1> QED
  BY <1>1, <1>2 DEF CodeInv, CodeTypes, HomesApart, BeingLowered, Assembled

\* A statement that is lowered fits the registers.
LEMMA FitRegisters ==
  ASSUME NEW s, NEW x \in Nat, NEW y \in Nat, x = Len(Ins(s)), y = Len(Outs(s)), y <= 1,
         x <= IF s.k = "call" THEN 5 ELSE 1
  PROVE  InRegisters(s)
<1>1. Len(ToRegs(s)) = IF s.k = "call" THEN 5 ELSE 1
  BY Registers DEF ToRegs
<1>2. x <= Len(ToRegs(s))
  BY <1>1
<1> QED
  BY <1>2, Zenon DEF InRegisters

\* A statement that is lowered has its values in registers, and is emitted raw.
LEMMA StatementEmitted ==
  ASSUME Lowered, LowerNext, at # 0, ~(at > Len(module[f].body)), ~Unreached, ~Reject
  PROVE  LET s == module[f].body[at]
         IN  InRegisters(s) /\ Emit(Raw(s, at)) /\ NextOne
<1>1. PICK s \in Statement : s = module[f].body[at]
  BY TheFunction
<1>2. \/ s.k = "const" /\ LowerConst(s)
      \/ s.k = "call" /\ LowerCall(s)
      \/ s.k = "ret" /\ LowerReturn(s)
  BY <1>1 DEF LowerNext
<1>3. Len(ArgRegs) = 5 /\ Len(RetRegs) = 1 /\ Len(<< >>) = 0
  BY Registers
<1>4. CASE s.k = "const" /\ LowerConst(s)
  <2>1. Ins(s) = << >> /\ Outs(s) = << >> /\ ToRegs(s) = RetRegs
    BY <1>4 DEF Ins, Outs, ToRegs
  <2>2. InRegisters(s)
    BY <1>3, <2>1 DEF InRegisters
  <2>3. Raw(s, at) = <<LoadImm(s.dst, s.val, at)>>
    BY <1>4 DEF Raw
  <2> QED
    BY <1>1, <1>4, <2>2, <2>3, Zenon DEF LowerConst
<1>5. CASE s.k = "call" /\ LowerCall(s)
  <2>1. Ins(s) = s.args /\ Outs(s) = s.dst /\ ToRegs(s) = ArgRegs
    BY <1>5 DEF Ins, Outs, ToRegs
  <2>2. Len(s.args) \in Nat /\ Len(s.dst) \in Nat
    BY <1>5, StatementShape
  <2>3. ~CallRejected(s) /\ ~(Len(s.dst) > Len(RetRegs)) /\ NextOne
    BY <1>5 DEF LowerCall
  <2>4. InRegisters(s)
    <3>1. PICK x \in Nat, y \in Nat : x = Len(s.args) /\ y = Len(s.dst)
      BY <2>2
    <3>2. ~(x >= 6) /\ ~(y > 1)
      BY <1>3, <2>3, <3>1 DEF CallRejected
    <3>3. y <= 1 /\ x <= IF s.k = "call" THEN 5 ELSE 1
      BY <1>5, <3>2
    <3> QED
      BY <2>1, <3>1, <3>3, FitRegisters, Zenon
  <2>5. Emit(<<ADJCALLSTACK("DOWN")>> \o CopiesTo(CC_BPF64(Len(s.args)), s.args)
               \o <<JAL(CallOperands(CC_BPF64(Len(s.args))), at), ADJCALLSTACK("UP")>>
               \o LowerCallResult(s))
    BY <1>5, Zenon DEF LowerCall
  <2>6. Emit(Raw(s, at))
    <3>1. Raw(s, at) = <<ADJCALLSTACK("DOWN")>> \o CopiesTo(CC_BPF64(Len(s.args)), s.args)
               \o <<JAL(CallOperands(CC_BPF64(Len(s.args))), at), ADJCALLSTACK("UP")>>
               \o LowerCallResult(s)
      BY <1>5 DEF Raw
    <3> QED
      BY <2>5, <3>1, Zenon
  <2> QED
    BY <1>1, <2>3, <2>4, <2>6, Zenon
<1>6. CASE s.k = "ret" /\ LowerReturn(s)
  <2>1. Ins(s) = s.vals /\ Outs(s) = << >> /\ ToRegs(s) = RetRegs
    BY <1>6 DEF Ins, Outs, ToRegs
  <2>2. Len(s.vals) \in Nat
    BY <1>6, StatementShape
  <2>3. ~(Len(s.vals) > Len(RetRegs)) /\ NextOne
    BY <1>6 DEF LowerReturn
  <2>4. InRegisters(s)
    <3>1. PICK x \in Nat : x = Len(s.vals)
      BY <2>2
    <3>2. x <= IF s.k = "call" THEN 5 ELSE 1
      BY <1>3, <1>6, <2>3, <3>1
    <3>3. 0 \in Nat /\ 0 <= 1
      OBVIOUS
    <3> QED
      BY <1>3, <2>1, <3>1, <3>2, <3>3, FitRegisters, Zenon
  <2>5. Emit(CopiesTo(RetCC_BPF64(Len(s.vals)), s.vals)
               \o <<RET({RetCC_BPF64(Len(s.vals))[i] : i \in DOMAIN RetCC_BPF64(Len(s.vals))}, at)>>)
    BY <1>6, Zenon DEF LowerReturn
  <2>6. Emit(Raw(s, at))
    <3>1. Raw(s, at) = CopiesTo(RetCC_BPF64(Len(s.vals)), s.vals)
               \o <<RET({RetCC_BPF64(Len(s.vals))[i] : i \in DOMAIN RetCC_BPF64(Len(s.vals))}, at)>>
      BY <1>6 DEF Raw
    <3> QED
      BY <2>5, <3>1, Zenon
  <2> QED
    BY <1>1, <2>3, <2>4, <2>6, Zenon
<1> QED
  BY <1>2, <1>4, <1>5, <1>6

\* Erasing leaves a sequence of instructions.
LEMMA ErasedType ==
  ASSUME NEW c \in Seq(CallInsns)
  PROVE  Erased(c) \in Seq(CallInsns)
<1>1. PICK L \in Nat : L = Len(c) /\ DOMAIN c = 1 .. L /\ \A n \in 1 .. L : c[n] \in CallInsns
  BY LenProperties, ElementOfSeq
<1>2. PICK q : q = [n \in DOMAIN c |-> IF n \in {k \in DOMAIN c : c[k].op \in {"DOWN", "UP"}}
                                     THEN << >> ELSE <<c[n]>>]
  OBVIOUS
<1>3. \A n \in 1 .. L : << >> \in Seq(CallInsns) /\ <<c[n]>> \in Seq(CallInsns)
  BY <1>1
<1>4. q \in [1 .. L -> Seq(CallInsns)]
  BY <1>1, <1>2, <1>3
<1>5. q \in Seq(Seq(CallInsns))
  BY <1>4
<1>6. FlattenSeq(q) \in Seq(CallInsns)
  BY <1>5, FlattenSeqType
<1> QED
  BY <1>2, <1>6, Zenon DEF Erased, eliminateCallFramePseudoInstr, Without

\* The code so far and what a statement added.
LEMMA MoreLowered ==
  ASSUME NEW fn \in Function, NEW n \in 1 .. Len(fn.body), NEW c \in Seq(CallInsns),
         LoweredTo(c, fn, n - 1), InRegisters(fn.body[n])
  PROVE  LoweredTo(c \o Raw(fn.body[n], n), fn, n)
<1>1. PICK s \in Statement : s = fn.body[n]
  BY BodyTypes
<1>2. PICK k \in Nat : k = n - 1 /\ k + 1 = n /\ k + 1 \in 1 .. Len(fn.body)
  BY BodyTypes
<1>3. PICK e \in Seq(CallInsns) : /\ e = Raw(s, n) /\ Tidy(e)
                                  /\ Erased(e) \in Seq(CallInsns) /\ Piece(Erased(e), s, n)
  <2>1. n \in Nat
    BY <1>2
  <2> QED
    BY <1>1, <2>1, Emitted, Zenon
<1>4. Tidy(c) /\ Len(fn.params) <= 5 /\ (\A m \in 1 .. k : InRegisters(fn.body[m]))
  BY <1>2 DEF LoweredTo
<1>5. PICK b : Laid(Erased(c), fn, k, b)
  BY <1>2 DEF LoweredTo
<1>6. Tidy(c \o e)
  BY <1>3, <1>4, TidyConcat, Zenon
<1>7. Erased(c \o e) = Erased(c) \o Erased(e)
  BY ErasedConcat, Zenon DEF Erased
<1>8. Erased(c) \in Seq(CallInsns)
  BY ErasedType
<1>9. \E b2 : Laid(Erased(c) \o Erased(e), fn, k + 1, b2)
  <2>1. Piece(Erased(e), fn.body[k + 1], k + 1)
    BY <1>1, <1>2, <1>3
  <2> QED
    BY <1>2, <1>3, <1>5, <1>8, <2>1, LaidMore, Zenon
<1>10. \A m \in 1 .. n : InRegisters(fn.body[m])
  <2> SUFFICES ASSUME NEW m \in 1 .. n PROVE InRegisters(fn.body[m])
    OBVIOUS
  <2>1. m \in 1 .. k \/ m = n
    BY <1>2
  <2> QED
    BY <1>4, <2>1
<1>11. LoweredTo(c \o e, fn, n)
  BY <1>2, <1>4, <1>6, <1>7, <1>9, <1>10, Zenon DEF LoweredTo
<1> QED
  BY <1>1, <1>3, <1>11, Zenon

\* LowerConst, LowerCall and LowerReturn lay out the next statement.
LEMMA StatementCode ==
  ASSUME Lowered, CodeInv, LowerNext, at # 0, ~(at > Len(module[f].body))
  PROVE  CodeInv'
<1>1. PICK s \in Statement : s = module[f].body[at]
  BY TheFunction
<1>2. stage = "lower" /\ UNCHANGED <<module, f, home>>
  BY DEF LowerNext
<1>3. CASE Unreached \/ Reject
  BY <1>2, <1>3, StoppedCode DEF Unreached, Reject
<1>4. CASE ~Unreached /\ ~Reject
  <2>1. InRegisters(s) /\ Emit(Raw(s, at)) /\ NextOne
    BY <1>1, <1>4, StatementEmitted, Zenon
  <2>2. PICK e \in Seq(CallInsns) : e = Raw(s, at)
    <3>1. at \in Nat
      BY TheFunction
    <3> QED
      BY <2>1, <3>1, Emitted, Zenon
  <2>3. LoweredTo(code[f] \o e, module[f], at)
    <3>1. module[f] \in Function /\ at \in 1 .. Len(module[f].body)
      BY TheFunction
    <3>2. code[f] \in Seq(CallInsns)
      BY TheFunction DEF CodeInv, CodeTypes
    <3>3. LoweredTo(code[f], module[f], at - 1)
      BY <1>2 DEF CodeInv, BeingLowered
    <3> QED
      BY <1>1, <2>1, <2>2, <3>1, <3>2, <3>3, MoreLowered, Zenon
  <2> QED
    BY <1>2, <2>1, <2>2, <2>3, EmittedCode DEF NextOne
<1> QED
  BY <1>3, <1>4

\* The frame hook: nothing is dead, and the pseudos go.
LEMMA FrameCode ==
  ASSUME Lowered, CodeInv, NEW h \in [VRegs -> HomeRegs \cup {Slot}], AllocateHomes(h)
  PROVE  CodeInv'
<1>1. /\ f \in DOMAIN module /\ f \in Nat /\ DOMAIN module = 1 .. Len(module) /\ Len(module) \in Nat
  BY TheFunction
<1>2. /\ stage = "frame" /\ module' = module
      /\ \A v, w \in VRegs : h[v] = h[w] /\ h[v] # Slot => v = w
      /\ (f \notin Keepers) => \A v \in VRegs : h[v] = Slot
      /\ home' = [home EXCEPT ![f] = h]
      /\ code' = [code EXCEPT ![f] = Erased(LiveCode(@))]
      /\ IF f < Len(module) THEN f' = f + 1 /\ at' = 0 /\ stage' = "lower"
                            ELSE f' = f /\ stage' = "run"
  BY DEF AllocateHomes, Erased
<1>3. code \in [DOMAIN module -> Seq(CallInsns)] /\ \A g \in DOMAIN module : g > f => code[g] = << >>
  BY DEF CodeInv, CodeTypes
<1>4. LoweredTo(code[f], module[f], Len(module[f].body))
  BY <1>2 DEF CodeInv, BeingLowered
<1>5. code[f] \in Seq(CallInsns)
  BY <1>1, <1>3
<1>6. LiveCode(code[f]) = code[f]
  BY <1>4, <1>5, TidyLives, Zenon DEF LoweredTo
<1>7. PICK c \in Seq(CallInsns) : c = Erased(code[f])
  BY <1>5, ErasedType
<1>8. AssembledTo(c, module[f])
  BY <1>4, <1>7, Zenon DEF LoweredTo, AssembledTo
<1>9. code'[f] = c /\ \A g \in DOMAIN module : g # f => code'[g] = code[g]
  BY <1>1, <1>2, <1>3, <1>6, <1>7
<1>10. home'[f] = h /\ \A g \in DOMAIN module : g # f => home'[g] = home[g]
  BY <1>1, <1>2 DEF CodeInv, HomesApart
<1>11. CodeTypes'
  <2>1. code' \in [DOMAIN module -> Seq(CallInsns)]
    BY <1>1, <1>2, <1>3, <1>6, <1>7
  <2>2. \A g \in DOMAIN module : g > f' => g # f /\ g > f
    BY <1>1, <1>2
  <2> QED
    BY <1>2, <1>3, <1>9, <2>1, <2>2 DEF CodeTypes
<1>12. HomesApart'
  <2>1. home' \in [DOMAIN module -> [VRegs -> HomeRegs \cup {Slot}]]
    BY <1>1, <1>2 DEF CodeInv, HomesApart
  <2>2. ASSUME NEW g \in DOMAIN module
        PROVE  /\ \A v, w \in VRegs : home'[g][v] = home'[g][w] /\ home'[g][v] # Slot => v = w
               /\ g \notin Keepers => \A v \in VRegs : home'[g][v] = Slot
    <3>1. CASE g = f
      BY <1>2, <1>10, <3>1
    <3>2. CASE g # f
      BY <1>10, <3>2 DEF CodeInv, HomesApart
    <3> QED
      BY <3>1, <3>2
  <2> QED
    BY <1>2, <2>1, <2>2 DEF HomesApart
<1>13. BeingLowered'
  <2>1. CASE f < Len(module) /\ f' = f + 1 /\ at' = 0 /\ stage' = "lower"
    <3>1. f + 1 \in DOMAIN module /\ f + 1 # f /\ f + 1 > f
      BY <1>1, <2>1
    <3>2. code'[f + 1] = << >>
      BY <1>3, <1>9, <3>1
    <3> QED
      BY <2>1, <3>2 DEF BeingLowered
  <2>2. CASE stage' = "run"
    BY <2>2 DEF BeingLowered
  <2> QED
    BY <1>2, <2>1, <2>2
<1>14. Assembled'
  <2> SUFFICES ASSUME NEW g \in DOMAIN module, g < f' \/ stage' \in {"run", "halt"}
               PROVE  AssembledTo(code'[g], module[g])
    BY <1>2 DEF Assembled
  <2>1. CASE g = f
    BY <1>8, <1>9, <2>1
  <2>2. CASE g # f
    <3>1. g < f
      BY <1>1, <1>2, <2>2
    <3>2. AssembledTo(code[g], module[g])
      BY <3>1 DEF CodeInv, Assembled
    <3> QED
      BY <1>9, <2>2, <3>2
  <2> QED
    BY <2>1, <2>2
<1> QED
  BY <1>11, <1>12, <1>13, <1>14 DEF CodeInv

\* Execution does not change the code.
LEMMA ExecutionCode ==
  ASSUME CodeInv, UNCHANGED <<module, f, at, code, home>>,
         stage' = stage \/ (stage = "run" /\ stage' = "halt")
  PROVE  CodeInv'
BY DEF CodeInv, CodeTypes, HomesApart, BeingLowered, Assembled

\* Lowering keeps what is known of the code.
LEMMA LoweringCode ==
  ASSUME Lowered, CodeInv, LowerNext
  PROVE  CodeInv'
<1>1. at \in Nat /\ Len(module[f].body) \in Nat
  BY TheFunction
<1> QED
  BY <1>1, FormalCode, EndOfBodyCode, StatementCode

-----------------------------------------------------------------------------
(***************************************************************************)
(* Execution.                                                              *)
(***************************************************************************)
Words       == Values \cup {Junk}
NothingSaved == [{} -> Words]
RegFiles    == [Clobbered \cup CSR -> Words]
Activations == [g : DOMAIN module, pc : Nat, slots : [VRegs -> Words],
                saved : NothingSaved, entry : RegFiles]

\* ReadIn with the registers R.
ReadOf(R, act, v) == IF home[act.g][v] = Slot THEN act.slots[v] ELSE R[home[act.g][v]]

\* Statement s of laid out code.
Spot(c, fn, b, s, lo, hi, nf, ni) ==
  /\ lo = b[s - 1] /\ hi = b[s] /\ hi <= Len(c)
  /\ nf = Len(FromVars(fn, s)) /\ ni = Len(Ins(fn.body[s])) /\ hi = lo + nf + ni + 1
  /\ \A i \in 1 .. nf : c[lo + i] = From(fn, s, i)
  /\ \A i \in 1 .. ni : c[lo + nf + i] = To(fn.body[s], i)
  /\ c[hi] = Marker(fn.body[s], s)

\* Where the section of a statement begins and ends.
LEMMA Spots ==
  ASSUME NEW c, NEW fn \in Function, NEW b, Laid(c, fn, Len(fn.body), b), NEW s \in 1 .. Len(fn.body)
  PROVE  \E lo \in Nat, hi \in Nat, nf \in Nat, ni \in Nat : Spot(c, fn, b, s, lo, hi, nf, ni)
<1>1. PICK N \in Nat : N = Len(fn.body)
  BY BodyTypes
<1>2. s \in 1 .. N /\ s \in 1 .. N + 1 /\ s - 1 \in 0 .. N /\ s \in 0 .. N
  BY <1>1
<1>3. b \in [0 .. N -> Nat] /\ Section(c, fn, b[s - 1], b[s], s)
  BY <1>1, Zenon DEF Laid
<1>4. PICK lo \in Nat, hi \in Nat : lo = b[s - 1] /\ hi = b[s]
  BY <1>2, <1>3
<1>5. PICK nf \in Nat, ni \in Nat : nf = Len(FromVars(fn, s)) /\ ni = Len(Ins(fn.body[s]))
  BY <1>1, <1>2, FromTypes, BodyTypes
<1>6. Spot(c, fn, b, s, lo, hi, nf, ni)
  BY <1>3, <1>4, <1>5, Zenon DEF Spot, Section
<1> QED
  BY <1>6

\* Where an activation is that executes: at statement s, with the registers it
\* has already copied to filled; and one that waits, behind its call.
TopAt(R, act, s, b) ==
  LET fn == module[act.g]
      st == fn.body[s]
  IN  /\ Laid(code[act.g], fn, Len(fn.body), b) /\ s \in 1 .. Len(fn.body)
      /\ b[s - 1] < act.pc /\ act.pc <= b[s]
      /\ \A i \in 1 .. Len(Ins(st)) :
           b[s - 1] + Len(FromVars(fn, s)) + i < act.pc => R[ToRegs(st)[i]] = ReadOf(R, act, Ins(st)[i])

Waiting(act, s, b, g) ==
  LET fn == module[act.g]
  IN  /\ Laid(code[act.g], fn, Len(fn.body), b) /\ s \in 1 .. Len(fn.body)
      /\ act.pc = b[s] + 1 /\ CallsFunction(fn.body[s], g)

AtRest == [r \in Clobbered \cup CSR |-> Junk]

RunOK(status, R, K) ==
  /\ R \in RegFiles /\ K \in Seq(Activations)
  /\ status # "run" => K = << >>
  /\ status # "halt" /\ K = << >> => R = AtRest
  /\ K # << >> => \E s, b : TopAt(R, K[Len(K)], s, b)
  /\ \A d \in 1 .. Len(K) - 1 : \E s, b : Waiting(K[d], s, b, K[d + 1].g)

Executing == RunOK(stage, regs, stack)

\* To say of the next state that it executes, its own stack and registers do.
LEMMA ExecutingNext ==
  ASSUME UNCHANGED <<module, code, home>>, RunOK(stage', regs', stack')
  PROVE  Executing'
<1>1. module' = module /\ code' = code /\ home' = home
  OBVIOUS
<1>2. Activations' = Activations
  BY <1>1 DEF Activations
<1>3. ASSUME NEW s, NEW b, TopAt(regs', stack'[Len(stack')], s, b)
      PROVE  TopAt(regs, stack[Len(stack)], s, b)'
  BY <1>1, <1>3 DEF TopAt, ReadOf
<1>4. ASSUME NEW d, NEW s, NEW b, Waiting(stack'[d], s, b, stack'[d + 1].g)
      PROVE  Waiting(stack[d], s, b, stack[d + 1].g)'
  BY <1>1, <1>4 DEF Waiting
<1> QED
  BY <1>2, <1>3, <1>4 DEF Executing, RunOK

\* Nothing executes at first.
LEMMA ExecutingInit == Init => Executing
<1> SUFFICES ASSUME Init PROVE Executing
  OBVIOUS
<1>1. regs = AtRest /\ stack = << >> /\ stage = "lower"
  BY DEF Init, AtRest
<1>2. AtRest \in RegFiles
  BY DEF AtRest, RegFiles, Words
<1>3. << >> \in Seq(Activations) /\ 1 .. Len(<< >>) - 1 = {}
  OBVIOUS
<1> QED
  BY <1>1, <1>2, <1>3 DEF Executing, RunOK

\* Compilation leaves execution alone.
LEMMA NotExecuting ==
  ASSUME Executing, stage # "run", stage # "halt", stage' # "halt", UNCHANGED <<regs, stack>>
  PROVE  Executing' /\ stack = << >>
<1>1. stack = << >> /\ regs = AtRest
  BY DEF Executing, RunOK
<1>2. regs \in RegFiles
  BY DEF Executing, RunOK
<1>3. regs' \in RegFiles
  BY <1>2
<1>4. << >> \in Seq(Activations') /\ 1 .. Len(<< >>) - 1 = {}
  OBVIOUS
<1> QED
  BY <1>1, <1>3, <1>4 DEF Executing, RunOK

\* What a compiled module is.
LEMMA Program ==
  ASSUME Lowered, CodeInv, stage = "run", NEW g \in DOMAIN module
  PROVE  /\ module[g] \in Function /\ code[g] \in Seq(CallInsns) /\ AssembledTo(code[g], module[g])
         /\ Len(module[g].body) \in Nat \ {0} /\ module[g].body[Len(module[g].body)].k = "ret"
         /\ \A n \in 1 .. Len(module[g].body) : module[g].body[n] \in Statement /\ InRegisters(module[g].body[n])
         /\ home[g] \in [VRegs -> HomeRegs \cup {Slot}]
         /\ \A v, w \in VRegs : home[g][v] = home[g][w] /\ home[g][v] # Slot => v = w
         /\ g \notin Keepers => \A v \in VRegs : home[g][v] = Slot
<1>1. module \in Modules
  BY TheFunction
<1>2. module \in Seq(Function) /\ WellFormed(module)
  BY <1>1, ModuleAssumption
<1>3. module[g] \in Function
  BY <1>2, LenProperties, ElementOfSeq
<1>4. PICK fn \in Function : fn = module[g]
  BY <1>3
<1>5. Len(fn.body) \in Nat /\ fn.body # << >> /\ fn.body[Len(fn.body)].k = "ret" /\ fn.body \in Seq(Statement)
  BY <1>2, <1>4, LenProperties DEF WellFormed, Function
<1>6. Len(fn.body) # 0
  BY <1>5, EmptySeq
<1>7. AssembledTo(code[g], fn)
  BY <1>4 DEF CodeInv, Assembled
<1>8. \A n \in 1 .. Len(fn.body) : fn.body[n] \in Statement /\ InRegisters(fn.body[n])
  BY <1>5, <1>7, ElementOfSeq DEF AssembledTo
<1>9. code[g] \in Seq(CallInsns)
  BY DEF CodeInv, CodeTypes
<1>10. /\ home[g] \in [VRegs -> HomeRegs \cup {Slot}]
       /\ \A v, w \in VRegs : home[g][v] = home[g][w] /\ home[g][v] # Slot => v = w
       /\ g \notin Keepers => \A v \in VRegs : home[g][v] = Slot
  BY DEF CodeInv, HomesApart
<1> QED
  BY <1>4, <1>5, <1>6, <1>7, <1>8, <1>9, <1>10

\* What the arriving copies of a statement are.
LEMMA FromInsns ==
  ASSUME NEW c, NEW fn \in Function, AssembledTo(c, fn), NEW s \in 1 .. Len(fn.body),
         NEW j \in 1 .. Len(FromVars(fn, s))
  PROVE  /\ FromRegs(s)[j] \in Clobbered /\ FromVars(fn, s)[j] \in VRegs
         /\ From(fn, s, j).op = "CopyFrom" /\ From(fn, s, j).reg = FromRegs(s)[j]
         /\ From(fn, s, j).v = FromVars(fn, s)[j] /\ From(fn, s, j).n = 0
         /\ s # 1 => j = 1
<1>1. PICK N \in Nat : N = Len(fn.body)
  BY BodyTypes
<1>2. s \in 1 .. N + 1
  BY <1>1
<1>3. FromVars(fn, s) \in Seq(VRegs) /\ Len(FromVars(fn, s)) \in Nat
  BY <1>1, <1>2, FromTypes
<1>4. FromVars(fn, s)[j] \in VRegs
  BY <1>3, ElementOfSeq
<1>5. FromRegs(s)[j] \in Clobbered /\ (s # 1 => j = 1)
  <2>1. CASE s = 1
    <3>1. FromVars(fn, s) = fn.params /\ FromRegs(s) = ArgRegs
      BY <2>1 DEF FromVars, FromRegs
    <3>2. Len(fn.params) <= 5
      BY DEF AssembledTo
    <3>3. j \in 1 .. 5
      BY <1>3, <3>1, <3>2
    <3> QED
      BY <2>1, <3>1, <3>3, Registers
  <2>2. CASE s # 1
    <3>1. FromVars(fn, s) = Outs(fn.body[s - 1]) /\ FromRegs(s) = RetRegs
      BY <2>2 DEF FromVars, FromRegs
    <3>2. s - 1 \in 1 .. N
      BY <1>1, <2>2
    <3>3. Len(Outs(fn.body[s - 1])) <= 1
      BY <1>1, <3>2 DEF AssembledTo, InRegisters
    <3>4. j = 1
      BY <1>3, <3>1, <3>3
    <3> QED
      BY <3>1, <3>4, Registers
  <2> QED
    BY <2>1, <2>2
<1>6. PICK r \in Clobbered, v \in VRegs : r = FromRegs(s)[j] /\ v = FromVars(fn, s)[j]
  BY <1>4, <1>5
<1>7. From(fn, s, j) = CopyFrom(r, v)
  BY <1>6 DEF From
<1> QED
  BY <1>5, <1>6, <1>7, CopyInsns

-----------------------------------------------------------------------------
\* Where execution is.
Situated(n, act, s, b, lo, hi, nf, ni) ==
  LET fn == module[act.g]
  IN  /\ n = Len(stack) /\ act = stack[n] /\ s \in 1 .. Len(fn.body)
      /\ Laid(code[act.g], fn, Len(fn.body), b)
      /\ Spot(code[act.g], fn, b, s, lo, hi, nf, ni)
      /\ lo < act.pc /\ act.pc <= hi
      /\ \A i \in 1 .. ni :
           lo + nf + i < act.pc => regs[ToRegs(fn.body[s])[i]] = ReadOf(regs, act, Ins(fn.body[s])[i])

InProgram == Lowered /\ CodeInv /\ Executing /\ stage = "run" /\ stack # << >>

\* An execution is at a statement.
LEMMA Where ==
  ASSUME InProgram
  PROVE  \E n \in Nat \ {0}, act \in Activations : \E s, b :
           \E lo \in Nat, hi \in Nat, nf \in Nat, ni \in Nat : Situated(n, act, s, b, lo, hi, nf, ni)
<1>1. stack \in Seq(Activations)
  BY DEF InProgram, Executing, RunOK
<1>2. PICK n \in Nat \ {0} : n = Len(stack)
  BY <1>1, EmptySeq DEF InProgram
<1>3. PICK act \in Activations : act = stack[n]
  <2>1. n \in 1 .. Len(stack)
    BY <1>2
  <2> QED
    BY <1>1, <2>1, ElementOfSeq
<1>4. PICK s, b : TopAt(regs, act, s, b)
  BY <1>2, <1>3 DEF InProgram, Executing, RunOK
<1>5. act.g \in DOMAIN module
  BY DEF Activations
<1>6. PICK fn \in Function : fn = module[act.g]
  BY <1>5, Program DEF InProgram
<1>7. /\ s \in 1 .. Len(fn.body) /\ Laid(code[act.g], fn, Len(fn.body), b)
      /\ b[s - 1] < act.pc /\ act.pc <= b[s]
      /\ \A i \in 1 .. Len(Ins(fn.body[s])) :
           b[s - 1] + Len(FromVars(fn, s)) + i < act.pc
             => regs[ToRegs(fn.body[s])[i]] = ReadOf(regs, act, Ins(fn.body[s])[i])
  BY <1>4, <1>6, Zenon DEF TopAt
<1>8. PICK lo \in Nat, hi \in Nat, nf \in Nat, ni \in Nat : Spot(code[act.g], fn, b, s, lo, hi, nf, ni)
  BY <1>7, Spots, Zenon
<1>9. lo = b[s - 1] /\ hi = b[s] /\ nf = Len(FromVars(fn, s)) /\ ni = Len(Ins(fn.body[s]))
  BY <1>8, Zenon DEF Spot
<1>10. Situated(n, act, s, b, lo, hi, nf, ni)
  BY <1>2, <1>3, <1>6, <1>7, <1>8, <1>9, Zenon DEF Situated
<1>11. \E x \in Nat, y \in Nat, z \in Nat, w \in Nat : Situated(n, act, s, b, x, y, z, w)
  BY <1>10
<1>12. \E x, y : \E lo2 \in Nat, hi2 \in Nat, nf2 \in Nat, ni2 \in Nat : Situated(n, act, x, y, lo2, hi2, nf2, ni2)
  BY <1>11
<1> QED
  BY <1>12

\* The instruction there.
LEMMA WhatIsHere ==
  ASSUME InProgram, NEW n \in Nat \ {0}, NEW act \in Activations, NEW s, NEW b, NEW lo \in Nat,
         NEW hi \in Nat, NEW nf \in Nat, NEW ni \in Nat, Situated(n, act, s, b, lo, hi, nf, ni)
  PROVE  LET fn == module[act.g]
             st == fn.body[s]
         IN  /\ act.pc \in 1 .. Len(code[act.g]) /\ act.g \in DOMAIN module
             /\ Here = code[act.g][act.pc] /\ Cur = act
             /\ Here.op = "CopyFrom" =>
                  \E j \in 1 .. nf : /\ act.pc = lo + j /\ Here = From(fn, s, j)
                                     /\ FromRegs(s)[j] \in Clobbered /\ FromVars(fn, s)[j] \in VRegs
             /\ Here.op = "CopyTo" =>
                  \E j \in 1 .. ni : act.pc = lo + nf + j /\ Here = To(st, j)
             /\ Here.op \in {"LD_imm64", "JAL", "RET"} =>
                  /\ act.pc = hi /\ Here = Marker(st, s) /\ Here.n = s /\ Stmt = st
                  /\ Here.op = IF st.k = "const" THEN "LD_imm64" ELSE IF st.k = "call" THEN "JAL" ELSE "RET"
<1>1. act.g \in DOMAIN module /\ act.pc \in Nat
  BY DEF Activations
<1>2. PICK fn \in Function : fn = module[act.g]
  BY <1>1, Program DEF InProgram
<1>3. PICK c \in Seq(CallInsns) : c = code[act.g] /\ AssembledTo(c, fn)
  BY <1>1, <1>2, Program DEF InProgram
<1>4. /\ n = Len(stack) /\ act = stack[n] /\ s \in 1 .. Len(fn.body)
      /\ Spot(c, fn, b, s, lo, hi, nf, ni) /\ lo < act.pc /\ act.pc <= hi
  BY <1>2, <1>3, Zenon DEF Situated
<1>5. PICK st \in Statement : st = fn.body[s] /\ InRegisters(st)
  BY <1>1, <1>2, <1>4, Program DEF InProgram
<1>6. /\ hi <= Len(c) /\ hi = lo + nf + ni + 1
      /\ nf = Len(FromVars(fn, s)) /\ ni = Len(Ins(st))
      /\ \A i \in 1 .. nf : c[lo + i] = From(fn, s, i)
      /\ \A i \in 1 .. ni : c[lo + nf + i] = To(st, i)
      /\ c[hi] = Marker(st, s)
  BY <1>4, <1>5, Zenon DEF Spot
<1>7. Cur = act /\ Here = c[act.pc]
  BY <1>3, <1>4 DEF Cur, Top, Here
<1>8. act.pc \in 1 .. Len(c)
  <2>1. Len(c) \in Nat
    BY LenProperties
  <2> QED
    BY <1>1, <1>4, <1>6, <2>1
<1>9. /\ Marker(st, s).n = s /\ s \in Nat
      /\ Marker(st, s).op = IF st.k = "const" THEN "LD_imm64" ELSE IF st.k = "call" THEN "JAL" ELSE "RET"
  <2>1. s \in Nat
    BY <1>4
  <2> QED
    BY <1>5, <2>1, MarkerInsn, Zenon
<1>10. CASE act.pc <= lo + nf
  <2>1. PICK j \in 1 .. nf : act.pc = lo + j
    <3>1. PICK x \in Nat : x = act.pc /\ lo < x /\ x <= lo + nf
      BY <1>1, <1>4, <1>10
    <3>2. x - lo \in 1 .. nf /\ x = lo + (x - lo)
      BY <3>1
    <3> QED
      BY <3>1, <3>2
  <2>2. Here = From(fn, s, j)
    BY <1>6, <1>7, <2>1
  <2>3. /\ From(fn, s, j).op = "CopyFrom" /\ FromRegs(s)[j] \in Clobbered /\ FromVars(fn, s)[j] \in VRegs
    BY <1>3, <1>4, <1>6, FromInsns
  <2>4. Here.op = "CopyFrom"
    BY <2>2, <2>3
  <2> QED
    BY <1>1, <1>2, <1>3, <1>7, <1>8, <2>1, <2>2, <2>3, <2>4
<1>11. CASE ~(act.pc <= lo + nf) /\ act.pc < hi
  <2>1. PICK j \in 1 .. ni : act.pc = lo + nf + j
    <3>1. act.pc - (lo + nf) \in 1 .. ni /\ act.pc = lo + nf + (act.pc - (lo + nf))
      BY <1>1, <1>6, <1>11
    <3> QED
      BY <3>1
  <2>2. Here = To(st, j)
    BY <1>6, <1>7, <2>1
  <2>3. To(st, j).op = "CopyTo"
    <3>1. s \in Nat
      BY <1>9
    <3> QED
      BY <1>5, <1>6, <3>1, PieceInsns
  <2>4. Here.op = "CopyTo"
    BY <2>2, <2>3
  <2> QED
    BY <1>1, <1>2, <1>3, <1>5, <1>7, <1>8, <2>1, <2>2, <2>4
<1>12. CASE act.pc = hi
  <2>1. Here = Marker(st, s)
    BY <1>6, <1>7, <1>12
  <2>2. Here.n = s /\ Here.op = IF st.k = "const" THEN "LD_imm64" ELSE IF st.k = "call" THEN "JAL" ELSE "RET"
    BY <1>9, <2>1
  <2>3. Stmt = st
    BY <1>2, <1>5, <1>7, <2>2 DEF Stmt
  <2>4. Here.op \notin {"CopyFrom", "CopyTo"}
    BY <2>2
  <2> QED
    BY <1>1, <1>2, <1>3, <1>5, <1>7, <1>8, <1>12, <2>1, <2>2, <2>3, <2>4
<1> QED
  BY <1>1, <1>4, <1>10, <1>11, <1>12

MarkerHere(act, s, hi, st) ==
  /\ act.pc = hi /\ Here = Marker(st, s) /\ Stmt = st /\ Cur = act
  /\ Here.op = IF st.k = "const" THEN "LD_imm64" ELSE IF st.k = "call" THEN "JAL" ELSE "RET"

\* An instruction that does a statement does the one execution is at.
LEMMA AtMarker ==
  ASSUME InProgram, NEW n \in Nat \ {0}, NEW act \in Activations, NEW s, NEW b, NEW lo \in Nat,
         NEW hi \in Nat, NEW nf \in Nat, NEW ni \in Nat, Situated(n, act, s, b, lo, hi, nf, ni),
         Here.op \in {"LD_imm64", "JAL", "RET"}
  PROVE  MarkerHere(act, s, hi, module[act.g].body[s])
BY WhatIsHere DEF MarkerHere

-----------------------------------------------------------------------------
\* One activation changes.
LEMMA TopStep ==
  ASSUME InProgram, UNCHANGED <<compiled, stage>>, NEW n \in Nat \ {0}, n = Len(stack),
         NEW a \in Activations, a.g = stack[n].g, stack' = [stack EXCEPT ![n] = a], regs' \in RegFiles,
         \E s, b : TopAt(regs', a, s, b)
  PROVE  Executing'
<1>1. /\ module' = module /\ code' = code /\ home' = home /\ stage' = stage
  BY DEF compiled
<1>2. PICK K \in Seq(Activations) : K = stack /\ Len(K) = n
  BY DEF InProgram, Executing, RunOK
<1>3. PICK K2 : K2 = [K EXCEPT ![n] = a]
  OBVIOUS
<1>4. K2 \in Seq(Activations) /\ Len(K2) = n /\ K2[n] = a /\ \A d \in 1 .. n : d # n => K2[d] = K[d]
  BY <1>2, <1>3
<1>5. ASSUME NEW d \in 1 .. n - 1
      PROVE  \E s, b : Waiting(K2[d], s, b, K2[d + 1].g)
  <2>1. PICK s, b : Waiting(K[d], s, b, K[d + 1].g)
    BY <1>2 DEF InProgram, Executing, RunOK
  <2>2. K2[d] = K[d] /\ K2[d + 1].g = K[d + 1].g
    <3>1. d \in 1 .. n /\ d # n /\ d + 1 \in 1 .. n
      OBVIOUS
    <3> QED
      BY <1>2, <1>4, <3>1
  <2> QED
    BY <2>1, <2>2
<1>6. K2 # << >>
  BY <1>4
<1>7. RunOK("run", regs', K2)
  BY <1>4, <1>5, <1>6 DEF RunOK
<1>8. RunOK(stage', regs', stack')
  BY <1>1, <1>2, <1>3, <1>7 DEF InProgram
<1> QED
  BY <1>1, <1>8, ExecutingNext

\* The next instruction of the same statement.
LEMMA SameStatement ==
  ASSUME InProgram, NEW n \in Nat \ {0}, NEW act \in Activations, NEW s, NEW b, NEW lo \in Nat,
         NEW hi \in Nat, NEW nf \in Nat, NEW ni \in Nat, Situated(n, act, s, b, lo, hi, nf, ni),
         NEW R, NEW a \in Activations, a.g = act.g, a.pc = act.pc + 1, act.pc < hi,
         \A i \in 1 .. ni : lo + nf + i < a.pc =>
           R[ToRegs(module[a.g].body[s])[i]] = ReadOf(R, a, Ins(module[a.g].body[s])[i])
  PROVE  TopAt(R, a, s, b)
<1>1. PICK fn : fn = module[act.g]
  OBVIOUS
<1>2. /\ s \in 1 .. Len(fn.body) /\ Laid(code[act.g], fn, Len(fn.body), b)
      /\ Spot(code[act.g], fn, b, s, lo, hi, nf, ni) /\ lo < act.pc
  BY <1>1, Zenon DEF Situated
<1>3. lo = b[s - 1] /\ hi = b[s] /\ nf = Len(FromVars(fn, s)) /\ ni = Len(Ins(fn.body[s]))
  BY <1>2, Zenon DEF Spot
<1>4. lo < a.pc /\ a.pc <= hi
  BY <1>2 DEF Activations
<1> QED
  BY <1>1, <1>2, <1>3, <1>4, Zenon DEF TopAt

\* The first instruction of the next one.
LEMMA NextStatement ==
  ASSUME InProgram, NEW g \in DOMAIN module, NEW s \in 1 .. Len(module[g].body), NEW b,
         Laid(code[g], module[g], Len(module[g].body), b), module[g].body[s].k # "ret",
         NEW R, NEW a \in Activations, a.g = g, a.pc = b[s] + 1
  PROVE  s + 1 \in 1 .. Len(module[g].body) /\ TopAt(R, a, s + 1, b)
<1>1. PICK fn \in Function : fn = module[g]
  BY Program DEF InProgram
<1>2. PICK N \in Nat : N = Len(fn.body) /\ fn.body[N].k = "ret"
  BY <1>1, Program DEF InProgram
<1>3. s + 1 \in 1 .. N /\ (s + 1) - 1 = s
  BY <1>1, <1>2
<1>4. PICK lo \in Nat, hi \in Nat, nf \in Nat, ni \in Nat : Spot(code[g], fn, b, s + 1, lo, hi, nf, ni)
  BY <1>1, <1>2, <1>3, Spots
<1>5. /\ lo = b[(s + 1) - 1] /\ hi = b[s + 1] /\ nf = Len(FromVars(fn, s + 1))
      /\ ni = Len(Ins(fn.body[s + 1])) /\ hi = lo + nf + ni + 1
  BY <1>4, Zenon DEF Spot
<1>6. a.pc = lo + 1 /\ lo < a.pc /\ a.pc <= hi
  <2>1. lo = b[s] /\ hi = lo + nf + ni + 1
    BY <1>3, <1>5, Zenon
  <2>2. a.pc = lo + 1
    BY <2>1, Zenon
  <2>3. lo < lo + 1 /\ lo + 1 <= hi
    BY <2>1
  <2> QED
    BY <2>2, <2>3, Zenon
<1>7. \A i \in 1 .. ni : ~(lo + nf + i < a.pc)
  BY <1>6
<1> QED
  BY <1>1, <1>2, <1>3, <1>5, <1>6, <1>7, Zenon DEF TopAt

\* The first one of a function.
LEMMA FirstStatement ==
  ASSUME Lowered, CodeInv, stage = "run", NEW g \in DOMAIN module,
         NEW R, NEW a \in Activations, a.g = g, a.pc = 1
  PROVE  \E b : TopAt(R, a, 1, b)
<1>1. PICK fn \in Function : fn = module[g]
  BY Program
<1>2. PICK N \in Nat \ {0} : N = Len(fn.body)
  BY <1>1, Program
<1>3. PICK b : Laid(code[g], fn, Len(fn.body), b)
  BY <1>1, Program DEF AssembledTo
<1>4. b[0] = 0
  BY <1>3 DEF Laid
<1>5. 1 \in 1 .. N /\ 1 - 1 = 0
  OBVIOUS
<1>6. PICK lo \in Nat, hi \in Nat, nf \in Nat, ni \in Nat : Spot(code[g], fn, b, 1, lo, hi, nf, ni)
  BY <1>2, <1>3, <1>5, Spots
<1>7. /\ lo = b[1 - 1] /\ hi = b[1] /\ nf = Len(FromVars(fn, 1)) /\ ni = Len(Ins(fn.body[1]))
      /\ hi = lo + nf + ni + 1
  BY <1>6, Zenon DEF Spot
<1>8. lo = 0 /\ lo < a.pc /\ a.pc <= hi /\ \A i \in 1 .. ni : ~(lo + nf + i < a.pc)
  BY <1>4, <1>5, <1>7
<1>9. TopAt(R, a, 1, b)
  BY <1>1, <1>2, <1>3, <1>5, <1>7, <1>8, Zenon DEF TopAt
<1> QED
  BY <1>9

\* Registers.
LEMMA RegisterSets ==
  /\ "R0" \in Clobbered
  /\ \A g \in DOMAIN home : \A v \in VRegs :
       home \in [DOMAIN module -> [VRegs -> HomeRegs \cup {Slot}]] /\ home[g][v] # Slot
         => home[g][v] \in CSR /\ home[g][v] \notin Clobbered /\ home[g][v] \in Clobbered \cup CSR
<1>1. "R0" \in Clobbered
  BY DEF Clobbered
<1>2. \A r \in HomeRegs : r \in CSR /\ r \notin Clobbered
  <2>1. CSR \cap Clobbered = {}
    BY DEF CSR, Clobbered
  <2> QED
    BY <2>1, HomeAssumption
<1> QED
  BY <1>1, <1>2

\* A variable lives in a slot or in a register that no copy uses.
LEMMA HomeOf ==
  ASSUME InProgram, NEW g \in DOMAIN module, NEW v \in VRegs
  PROVE  home[g][v] = Slot \/ (home[g][v] \in CSR /\ home[g][v] \notin Clobbered)
BY RegisterSets DEF InProgram, CodeInv, HomesApart

\* To read a variable takes its slot or a callee-saved register.
LEMMA ReadsKept ==
  ASSUME InProgram, NEW act \in Activations, NEW a \in Activations, a.g = act.g, a.slots = act.slots,
         NEW R, NEW R2, \A r \in CSR : R2[r] = R[r]
  PROVE  \A v \in VRegs : ReadOf(R2, a, v) = ReadOf(R, act, v)
<1> SUFFICES ASSUME NEW v \in VRegs PROVE ReadOf(R2, a, v) = ReadOf(R, act, v)
  OBVIOUS
<1>1. act.g \in DOMAIN module
  BY DEF Activations
<1>2. home[act.g][v] = Slot \/ home[act.g][v] \in CSR
  BY <1>1, HomeOf
<1> QED
  BY <1>2 DEF ReadOf

\* What is read is a word.
LEMMA ReadsTyped ==
  ASSUME InProgram, NEW act \in Activations, NEW R \in RegFiles, NEW v \in VRegs
  PROVE  ReadOf(R, act, v) \in Words
<1>1. act.g \in DOMAIN module /\ act.slots \in [VRegs -> Words]
  BY DEF Activations
<1>2. home[act.g][v] = Slot \/ home[act.g][v] \in CSR
  BY <1>1, HomeOf
<1> QED
  BY <1>1, <1>2 DEF ReadOf, RegFiles

\* The parts of an activation.
LEMMA ActivationParts ==
  ASSUME NEW act \in Activations
  PROVE  /\ act.g \in DOMAIN module /\ act.pc \in Nat /\ act.slots \in [VRegs -> Words]
         /\ act.saved \in NothingSaved /\ act.entry \in RegFiles
BY DEF Activations

MovesTo(act, a, sl) ==
  /\ a = [act EXCEPT !.pc = act.pc + 1, !.slots = sl]
  /\ a.g = act.g /\ a.pc = act.pc + 1 /\ a.slots = sl

\* An activation after an instruction.
LEMMA MovedActivation ==
  ASSUME NEW act \in Activations, NEW sl \in [VRegs -> Words]
  PROVE  \E a \in Activations : MovesTo(act, a, sl)
<1>1. PICK p \in Nat : p = act.pc + 1
  BY ActivationParts
<1>2. [act EXCEPT !.pc = p, !.slots = sl] \in Activations
  BY DEF Activations
<1>3. PICK a \in Activations : a = [act EXCEPT !.pc = p, !.slots = sl]
  BY <1>2
<1>4. a.g = act.g /\ a.pc = p /\ a.slots = sl
  BY <1>3 DEF Activations
<1>5. MovesTo(act, a, sl)
  BY <1>1, <1>3, <1>4 DEF MovesTo
<1> QED
  BY <1>5

\* What writing a variable does.
Wrote(n, act, a, v, val) ==
  /\ stack' = [stack EXCEPT ![n] = a] /\ a.g = act.g /\ a.pc = act.pc + 1
  /\ regs' \in RegFiles /\ \A r \in Clobbered : regs'[r] = regs[r]
  /\ ReadOf(regs', a, v) = val
  /\ \A w \in VRegs : w # v => ReadOf(regs', a, w) = ReadOf(regs, act, w)
  /\ home[act.g][v] = Slot => regs' = regs

\* What Write writes is read, and every other variable is as it was.
LEMMA WriteEffect ==
  ASSUME InProgram, NEW n \in Nat \ {0}, n = Len(stack), NEW act \in Activations, act = stack[n],
         NEW v \in VRegs, NEW val \in Words, Write(v, val)
  PROVE  \E a \in Activations : Wrote(n, act, a, v, val)
<1>1. Top = n /\ Cur = act
  BY DEF Top, Cur
<1>2. act.g \in DOMAIN module /\ act.slots \in [VRegs -> Words] /\ act.pc \in Nat
  BY DEF Activations
<1>3. PICK h : h = home[act.g][v]
  OBVIOUS
<1>4. h = Slot \/ (h \in CSR /\ h \notin Clobbered /\ h \in Clobbered \cup CSR)
  BY <1>2, <1>3, HomeOf
<1>5. /\ regs' = IF h = Slot THEN regs ELSE [regs EXCEPT ![h] = val]
      /\ stack' = [stack EXCEPT ![n].pc = @ + 1, ![n].slots[v] = IF h = Slot THEN val ELSE @]
  BY <1>1, <1>3, Zenon DEF Write
<1>s. PICK sl \in [VRegs -> Words] : sl = [act.slots EXCEPT ![v] = IF h = Slot THEN val ELSE act.slots[v]]
  <2>1. act.slots[v] \in Words
    BY <1>2
  <2> QED
    BY <1>2, <2>1
<1>5a. PICK a \in Activations : MovesTo(act, a, sl)
  BY MovedActivation, Zenon
<1>6. /\ a = [act EXCEPT !.pc = act.pc + 1, !.slots = sl]
      /\ a.g = act.g /\ a.pc = act.pc + 1 /\ a.slots = sl
  BY <1>5a, Zenon DEF MovesTo
<1>7. a.slots = [act.slots EXCEPT ![v] = IF h = Slot THEN val ELSE act.slots[v]]
  BY <1>s, <1>6
<1>8. stack' = [stack EXCEPT ![n] = a]
  <2>1. stack \in Seq(Activations) /\ n \in DOMAIN stack
    BY DEF InProgram, Executing, RunOK
  <2>2. PICK x : x = IF h = Slot THEN val ELSE act.slots[v]
    OBVIOUS
  <2>3. a = [act EXCEPT !.pc = @ + 1, !.slots[v] = x]
    BY <1>2, <1>s, <1>6, <2>2 DEF Activations
  <2>4. stack' = [stack EXCEPT ![n] = [act EXCEPT !.pc = @ + 1, !.slots[v] = x]]
    BY <1>5, <2>1, <2>2
  <2> QED
    BY <2>3, <2>4
<1>9. regs \in RegFiles
  BY DEF InProgram, Executing, RunOK
<1>10. regs' \in RegFiles /\ (\A r \in Clobbered : regs'[r] = regs[r]) /\ (h = Slot => regs' = regs)
  BY <1>4, <1>5, <1>9 DEF RegFiles
<1>11. ReadOf(regs', a, v) = val
  BY <1>2, <1>3, <1>4, <1>5, <1>6, <1>7, <1>9 DEF ReadOf, RegFiles
<1>12. ASSUME NEW w \in VRegs, w # v
       PROVE  ReadOf(regs', a, w) = ReadOf(regs, act, w)
  <2>1. home[act.g][w] = home[act.g][v] => home[act.g][v] = Slot
    BY <1>2, <1>12 DEF InProgram, CodeInv, HomesApart
  <2>2. a.slots[w] = act.slots[w]
    BY <1>2, <1>7, <1>12
  <2>3. home[act.g][w] # Slot => regs'[home[act.g][w]] = regs[home[act.g][w]]
    BY <1>3, <1>5, <2>1, <1>9 DEF RegFiles
  <2> QED
    BY <1>6, <2>2, <2>3 DEF ReadOf
<1> QED
  BY <1>3, <1>6, <1>8, <1>10, <1>11, <1>12, Zenon DEF Wrote

-----------------------------------------------------------------------------
\* A constant.
Loads(n, act, a, s, b, hi) ==
  LET st == module[act.g].body[s]
  IN  /\ st.k = "const" /\ st.dst \in VRegs /\ act.pc = hi
      /\ Wrote(n, act, a, st.dst, st.val)
      /\ s + 1 \in 1 .. Len(module[act.g].body) /\ TopAt(regs', a, s + 1, b)

\* LD_imm64 gives the variable of its statement the constant.
LEMMA LoadImmEffect ==
  ASSUME InProgram, ExecLoadImm, NEW n \in Nat \ {0}, NEW act \in Activations, NEW s, NEW b, NEW lo \in Nat,
         NEW hi \in Nat, NEW nf \in Nat, NEW ni \in Nat, Situated(n, act, s, b, lo, hi, nf, ni)
  PROVE  \E a \in Activations : Loads(n, act, a, s, b, hi)
<1>1. Here.op = "LD_imm64" /\ Write(Here.v, Here.val)
  BY DEF ExecLoadImm, Running
<1>2. act.g \in DOMAIN module
  BY DEF Activations
<1>3. /\ n = Len(stack) /\ act = stack[n] /\ s \in 1 .. Len(module[act.g].body)
      /\ Laid(code[act.g], module[act.g], Len(module[act.g].body), b) /\ hi = b[s]
  BY DEF Situated, Spot
<1>4. PICK st \in Statement : st = module[act.g].body[s] /\ InRegisters(st)
  BY <1>2, <1>3, Program DEF InProgram
<1>5. /\ act.pc = hi /\ Here = Marker(st, s)
      /\ Here.op = IF st.k = "const" THEN "LD_imm64" ELSE IF st.k = "call" THEN "JAL" ELSE "RET"
  <2>1. Here.op \in {"LD_imm64", "JAL", "RET"}
    BY <1>1
  <2> QED
    BY <1>4, <2>1, WhatIsHere
<1>6. st.k = "const"
  BY <1>1, <1>5
<1>7. st.dst \in VRegs /\ st.val \in Words
  BY <1>4, <1>6, StatementParts DEF Words
<1>8. Here.v = st.dst /\ Here.val = st.val
  <2>1. s \in Nat
    BY <1>3
  <2> QED
    BY <1>4, <1>5, <1>6, <2>1, MarkerInsn
<1>9. PICK a \in Activations : Wrote(n, act, a, st.dst, st.val)
  BY <1>1, <1>3, <1>7, <1>8, WriteEffect
<1>10. a.g = act.g /\ a.pc = act.pc + 1
  BY <1>9 DEF Wrote
<1>11. s + 1 \in 1 .. Len(module[act.g].body) /\ TopAt(regs', a, s + 1, b)
  <2>1. a.pc = b[s] + 1 /\ st.k # "ret"
    BY <1>3, <1>5, <1>6, <1>10
  <2> QED
    BY <1>2, <1>3, <1>4, <1>10, <2>1, NextStatement
<1>12. Loads(n, act, a, s, b, hi)
  BY <1>4, <1>5, <1>6, <1>7, <1>9, <1>11, Zenon DEF Loads
<1> QED
  BY <1>12

\* A parameter, or a result.
BringsIn(n, act, a, s, b, lo, j) ==
  LET v == FromVars(module[act.g], s)[j]
      r == FromRegs(s)[j]
  IN  /\ act.pc = lo + j /\ v \in VRegs /\ r \in Clobbered
      /\ Wrote(n, act, a, v, regs[r]) /\ TopAt(regs', a, s, b)

\* A copy from a register gives the next variable what arrived for it.
LEMMA CopyFromEffect ==
  ASSUME InProgram, ExecCopyFrom, NEW n \in Nat \ {0}, NEW act \in Activations, NEW s, NEW b, NEW lo \in Nat,
         NEW hi \in Nat, NEW nf \in Nat, NEW ni \in Nat, Situated(n, act, s, b, lo, hi, nf, ni)
  PROVE  \E j \in 1 .. nf : \E a \in Activations : BringsIn(n, act, a, s, b, lo, j)
<1>1. Here.op = "CopyFrom" /\ Write(Here.v, regs[Here.reg])
  BY DEF ExecCopyFrom, Running
<1>2. act.g \in DOMAIN module
  BY DEF Activations
<1>3. PICK fn \in Function : fn = module[act.g] /\ AssembledTo(code[act.g], fn)
  BY <1>2, Program DEF InProgram
<1>4. /\ n = Len(stack) /\ act = stack[n] /\ s \in 1 .. Len(fn.body)
      /\ hi = lo + nf + ni + 1 /\ nf = Len(FromVars(fn, s))
  BY <1>3 DEF Situated, Spot
<1>5. PICK j \in 1 .. nf : /\ act.pc = lo + j /\ Here = From(fn, s, j)
                           /\ FromRegs(s)[j] \in Clobbered /\ FromVars(fn, s)[j] \in VRegs
  BY <1>1, <1>3, WhatIsHere
<1>6. Here.v = FromVars(fn, s)[j] /\ Here.reg = FromRegs(s)[j]
  <2>1. From(fn, s, j).v = FromVars(fn, s)[j] /\ From(fn, s, j).reg = FromRegs(s)[j]
    BY DEF From, CopyFrom, Insn
  <2> QED
    BY <1>5, <2>1, Zenon
<1>7. regs \in RegFiles
  BY DEF InProgram, Executing, RunOK
<1>8. regs[FromRegs(s)[j]] \in Words
  BY <1>5, <1>7 DEF RegFiles
<1>9. PICK a \in Activations : Wrote(n, act, a, FromVars(fn, s)[j], regs[FromRegs(s)[j]])
  BY <1>1, <1>4, <1>5, <1>6, <1>8, WriteEffect
<1>10. a.g = act.g /\ a.pc = act.pc + 1
  BY <1>9 DEF Wrote
<1>11. TopAt(regs', a, s, b)
  <2>1. act.pc < hi /\ \A i \in 1 .. ni : ~(lo + nf + i < a.pc)
    BY <1>4, <1>5, <1>10
  <2> QED
    BY <1>10, <2>1, SameStatement
<1>12. BringsIn(n, act, a, s, b, lo, j)
  BY <1>3, <1>5, <1>9, <1>11, Zenon DEF BringsIn
<1> QED
  BY <1>12

\* Different registers.
LEMMA ToDistinct ==
  ASSUME NEW st, InRegisters(st), Len(Ins(st)) \in Nat, NEW i \in 1 .. Len(Ins(st)), NEW j \in 1 .. Len(Ins(st))
  PROVE  /\ ToRegs(st)[i] \in Clobbered /\ ToRegs(st)[j] \in Clobbered
         /\ ToRegs(st)[i] = ToRegs(st)[j] => i = j
<1>1. PICK l \in Nat : l = Len(Ins(st))
  OBVIOUS
<1>2. CASE st.k = "call"
  <2>1. ToRegs(st) = ArgRegs
    BY <1>2 DEF ToRegs
  <2>2. l <= 5
    BY <1>1, <2>1, Registers DEF InRegisters
  <2>3. i \in 1 .. 5 /\ j \in 1 .. 5
    BY <1>1, <2>2
  <2> QED
    BY <2>1, <2>3, Registers
<1>3. CASE st.k # "call"
  <2>1. ToRegs(st) = RetRegs
    BY <1>3 DEF ToRegs
  <2>2. l <= 1
    BY <1>1, <2>1, Registers DEF InRegisters
  <2>3. i = 1 /\ j = 1
    BY <1>1, <2>2
  <2> QED
    BY <2>1, <2>3, Registers
<1> QED
  BY <1>2, <1>3

\* An argument, or a result.
LEMMA CopyToEffect ==
  ASSUME InProgram, ExecCopyTo, NEW n \in Nat \ {0}, NEW act \in Activations, NEW s, NEW b, NEW lo \in Nat,
         NEW hi \in Nat, NEW nf \in Nat, NEW ni \in Nat, Situated(n, act, s, b, lo, hi, nf, ni)
  PROVE  \E a \in Activations :
           /\ act.pc > lo + nf /\ act.pc < hi
           /\ stack' = [stack EXCEPT ![n] = a] /\ a.g = act.g /\ a.pc = act.pc + 1 /\ a.slots = act.slots
           /\ regs' \in RegFiles /\ \A r \in CSR : regs'[r] = regs[r]
           /\ TopAt(regs', a, s, b)
<1>1. /\ Here.op = "CopyTo" /\ regs' = [regs EXCEPT ![Here.reg] = ReadIn(Cur, Here.v)]
      /\ stack' = [stack EXCEPT ![Top].pc = @ + 1]
  BY DEF ExecCopyTo, Running
<1>2. act.g \in DOMAIN module /\ act.pc \in Nat
  BY DEF Activations
<1>3. PICK fn \in Function : fn = module[act.g]
  BY <1>2, Program DEF InProgram
<1>4. /\ n = Len(stack) /\ act = stack[n] /\ s \in 1 .. Len(fn.body)
      /\ hi = lo + nf + ni + 1 /\ ni = Len(Ins(fn.body[s]))
      /\ \A i \in 1 .. ni :
           lo + nf + i < act.pc => regs[ToRegs(fn.body[s])[i]] = ReadOf(regs, act, Ins(fn.body[s])[i])
  BY <1>3, Zenon DEF Situated, Spot
<1>5. PICK st \in Statement : st = fn.body[s] /\ InRegisters(st)
  BY <1>2, <1>3, <1>4, Program DEF InProgram
<1>6. Ins(st) \in Seq(VRegs) /\ ni = Len(Ins(st))
  BY <1>4, <1>5, StatementParts
<1>7. PICK j \in 1 .. ni : act.pc = lo + nf + j /\ Here = To(st, j)
  BY <1>1, <1>3, <1>5, WhatIsHere
<1>8. PICK r \in Clobbered, v \in VRegs : r = ToRegs(st)[j] /\ v = Ins(st)[j]
  BY <1>5, <1>6, <1>7, ToDistinct, ElementOfSeq
<1>9. Here.reg = r /\ Here.v = v
  <2>1. s \in Nat
    BY <1>4
  <2>2. To(st, j).reg = ToRegs(st)[j] /\ To(st, j).v = Ins(st)[j]
    BY <1>5, <1>6, <2>1, PieceInsns
  <2> QED
    BY <1>7, <1>8, <2>2
<1>10. Cur = act /\ Top = n
  BY <1>4 DEF Cur, Top
<1>11. PICK val : val = ReadOf(regs, act, v)
  OBVIOUS
<1>12. regs \in RegFiles
  BY DEF InProgram, Executing, RunOK
<1>13. val \in Words
  BY <1>11, <1>12, ReadsTyped
<1>14. regs' = [regs EXCEPT ![r] = val]
  BY <1>1, <1>9, <1>10, <1>11 DEF ReadIn, ReadOf
<1>15. regs' \in RegFiles /\ (\A q \in CSR : regs'[q] = regs[q]) /\ regs'[r] = val
       /\ \A q \in Clobbered : q # r => regs'[q] = regs[q]
  <2>1. r \notin CSR
    BY DEF Clobbered, CSR
  <2> QED
    BY <1>12, <1>13, <1>14, <2>1 DEF RegFiles
<1>16. PICK a : a = [act EXCEPT !.pc = act.pc + 1]
  OBVIOUS
<1>17. a \in Activations /\ a.g = act.g /\ a.pc = act.pc + 1 /\ a.slots = act.slots
  BY <1>2, <1>16 DEF Activations
<1>18. stack' = [stack EXCEPT ![n] = a]
  <2>1. stack \in Seq(Activations) /\ n \in DOMAIN stack
    BY <1>4 DEF InProgram, Executing, RunOK
  <2> QED
    BY <1>1, <1>4, <1>10, <1>16, <2>1
<1>19. act.pc > lo + nf /\ act.pc < hi
  BY <1>4, <1>7
<1>20. \A w \in VRegs : ReadOf(regs', a, w) = ReadOf(regs, act, w)
  BY <1>15, <1>17, ReadsKept
<1>21. ASSUME NEW i \in 1 .. ni, lo + nf + i < a.pc
       PROVE  regs'[ToRegs(st)[i]] = ReadOf(regs', a, Ins(st)[i])
  <2>1. i = j \/ (i # j /\ lo + nf + i < act.pc)
    BY <1>7, <1>17, <1>21
  <2>2. Ins(st)[i] \in VRegs /\ ToRegs(st)[i] \in Clobbered /\ (ToRegs(st)[i] = ToRegs(st)[j] => i = j)
    BY <1>5, <1>6, ToDistinct, ElementOfSeq
  <2>3. CASE i = j
    BY <1>8, <1>11, <1>15, <1>20, <2>3
  <2>4. CASE i # j /\ lo + nf + i < act.pc
    BY <1>4, <1>5, <1>8, <1>15, <1>20, <2>2, <2>4
  <2> QED
    BY <2>1, <2>3, <2>4
<1>22. TopAt(regs', a, s, b)
  BY <1>3, <1>5, <1>17, <1>19, <1>21, SameStatement
<1> QED
  BY <1>15, <1>17, <1>18, <1>19, <1>22

\* A function that is called exists, and has the signature of the call.
LEMMA CalleeShape ==
  ASSUME Lowered, NEW g \in DOMAIN module, NEW s \in 1 .. Len(module[g].body),
         module[g].body[s].k = "call", module[g].body[s].callee.k = "function"
  PROVE  LET st == module[g].body[s]
         IN  /\ st.callee.n \in DOMAIN module /\ Len(st.args) = Len(module[st.callee.n].params)
             /\ \A r \in 1 .. Len(module[st.callee.n].body) :
                  module[st.callee.n].body[r].k = "ret" =>
                    Len(module[st.callee.n].body[r].vals) = Len(st.dst)
<1>1. module \in Modules
  BY TheFunction
<1>2. WellFormed(module)
  BY <1>1, ModuleAssumption
<1>3. DOMAIN module[g].body = 1 .. Len(module[g].body)
  BY <1>1, Shapes
<1>4. PICK st : st = module[g].body[s]
  OBVIOUS
<1>5. /\ st.callee.n \in DOMAIN module /\ Len(st.args) = Len(module[st.callee.n].params)
      /\ \A r \in DOMAIN module[st.callee.n].body : module[st.callee.n].body[r].k = "ret" =>
           Len(module[st.callee.n].body[r].vals) = Len(st.dst)
  BY <1>2, <1>3, <1>4 DEF WellFormed
<1>6. DOMAIN module[st.callee.n].body = 1 .. Len(module[st.callee.n].body)
  BY <1>1, <1>5, Shapes
<1> QED
  BY <1>4, <1>5, <1>6

\* The frame hook leaves no register to save.
LEMMA NothingToSave ==
  ASSUME CodeInv, NEW g \in DOMAIN module
  PROVE  SavedRegs(g) = {}
<1>1. home[g] \in [VRegs -> HomeRegs \cup {Slot}]
  BY DEF CodeInv, HomesApart
<1>2. \A r \in HomeRegs : r \in {"R6", "R7", "R8", "R9"}
  BY HomeAssumption DEF CSR
<1>3. Slot \notin CSR
  BY DEF Slot, CSR
<1>4. \A v \in VRegs : home[g][v] \notin CSR \/ home[g][v] \in {"R6", "R7", "R8", "R9"}
  BY <1>1, <1>2, <1>3
<1> QED
  BY <1>4 DEF SavedRegs, processFunctionBeforeCalleeSavedScan

EntersAt(e, g) ==
  e = Activation(g) /\ e.g = g /\ e.pc = 1 /\ e.slots = [v \in VRegs |-> Junk]

\* An activation of a function that can be entered.
LEMMA Entered ==
  ASSUME Lowered, CodeInv, Executing, stage = "run", NEW g \in DOMAIN module
  PROVE  \E e \in Activations : EntersAt(e, g)
<1>1. regs \in RegFiles
  BY DEF Executing, RunOK
<1>2. PICK sv \in NothingSaved : sv = [r \in SavedRegs(g) |-> regs[r]]
  BY NothingToSave DEF NothingSaved
<1>3. PICK sl \in [VRegs -> Words] : sl = [v \in VRegs |-> Junk]
  BY DEF Words
<1>4. PICK e : e = [g |-> g, pc |-> 1, slots |-> sl, saved |-> sv, entry |-> regs]
  OBVIOUS
<1>5. e \in Activations
  BY <1>1, <1>4 DEF Activations
<1>6. e = Activation(g)
  BY <1>2, <1>3, <1>4, Zenon DEF Activation
<1>7. EntersAt(e, g)
  BY <1>3, <1>4, <1>6 DEF EntersAt
<1> QED
  BY <1>5, <1>7

\* The program starts.
LEMMA EnterEffect ==
  ASSUME Lowered, CodeInv, Executing, Enter
  PROVE  /\ stage = "run" /\ stack = << >> /\ regs = AtRest /\ 1 \in DOMAIN module
         /\ \E e \in Activations : EntersAt(e, 1) /\ stack' = <<e>> /\ \E b : TopAt(regs, e, 1, b)
<1>1. stage = "run" /\ stack = << >> /\ stack' = <<Activation(1)>>
  BY DEF Enter
<1>2. regs = AtRest
  BY <1>1 DEF Executing, RunOK
<1>3. 1 \in DOMAIN module
  <2>1. module \in Modules
    BY TheFunction
  <2> QED
    BY <2>1, Shapes
<1>4. PICK e \in Activations : EntersAt(e, 1)
  BY <1>1, <1>3, Entered
<1>5. e = Activation(1) /\ e.g = 1 /\ e.pc = 1
  BY <1>4, Zenon DEF EntersAt
<1>6. \E b : TopAt(regs, e, 1, b)
  BY <1>1, <1>3, <1>5, FirstStatement
<1>7. stack' = <<e>>
  BY <1>1, <1>5
<1> QED
  BY <1>1, <1>2, <1>3, <1>4, <1>6, <1>7

\* An activation that goes on.
LEMMA Goes ==
  ASSUME NEW act \in Activations
  PROVE  \E a \in Activations : a = [act EXCEPT !.pc = act.pc + 1] /\ a.g = act.g
                                /\ a.pc = act.pc + 1 /\ a.slots = act.slots
<1>1. PICK p \in Nat : p = act.pc + 1
  BY ActivationParts
<1>2. PICK a \in Activations : a = [act EXCEPT !.pc = p]
  BY DEF Activations
<1>3. a.g = act.g /\ a.pc = p /\ a.slots = act.slots
  BY <1>2 DEF Activations
<1> QED
  BY <1>1, <1>2, <1>3

\* What is true at a call.
CallHere(n, act, s, b, hi, ni, st) ==
  /\ st \in Statement /\ st.k = "call" /\ Stmt = st /\ act.pc = hi /\ hi = b[s] /\ Cur = act /\ Top = n
  /\ act.g \in DOMAIN module /\ s \in 1 .. Len(module[act.g].body)
  /\ Ins(st) = st.args /\ ni = Len(st.args) /\ ToRegs(st) = ArgRegs /\ InRegisters(st)
  /\ \A i \in 1 .. ni : regs[ArgRegs[i]] = ReadOf(regs, act, st.args[i])

\* At a JAL the arguments are in the argument registers.
LEMMA AtCall ==
  ASSUME InProgram, Here.op = "JAL", NEW n \in Nat \ {0}, NEW act \in Activations, NEW s, NEW b, NEW lo \in Nat,
         NEW hi \in Nat, NEW nf \in Nat, NEW ni \in Nat, Situated(n, act, s, b, lo, hi, nf, ni)
  PROVE  CallHere(n, act, s, b, hi, ni, module[act.g].body[s])
<1>1. act.g \in DOMAIN module
  BY DEF Activations
<1>2. PICK fn \in Function : fn = module[act.g]
  BY <1>1, Program DEF InProgram
<1>3. /\ n = Len(stack) /\ act = stack[n] /\ s \in 1 .. Len(fn.body) /\ hi = b[s]
      /\ hi = lo + nf + ni + 1 /\ ni = Len(Ins(fn.body[s]))
      /\ \A i \in 1 .. ni :
           lo + nf + i < act.pc => regs[ToRegs(fn.body[s])[i]] = ReadOf(regs, act, Ins(fn.body[s])[i])
  BY <1>2, Zenon DEF Situated, Spot
<1>4. PICK st \in Statement : st = fn.body[s] /\ InRegisters(st)
  BY <1>1, <1>2, <1>3, Program DEF InProgram
<1>5. /\ act.pc = hi /\ Stmt = st /\ Cur = act
      /\ Here.op = IF st.k = "const" THEN "LD_imm64" ELSE IF st.k = "call" THEN "JAL" ELSE "RET"
  <2>1. Here.op \in {"LD_imm64", "JAL", "RET"}
    OBVIOUS
  <2>2. MarkerHere(act, s, hi, st)
    BY <1>2, <1>4, <2>1, AtMarker, Zenon
  <2> QED
    BY <2>2, Zenon DEF MarkerHere
<1>6. st.k = "call"
  BY <1>5
<1>7. Ins(st) = st.args /\ ToRegs(st) = ArgRegs
  BY <1>6 DEF Ins, ToRegs
<1>8. \A i \in 1 .. ni : lo + nf + i < act.pc
  BY <1>3, <1>5
<1>9. \A i \in 1 .. ni : regs[ArgRegs[i]] = ReadOf(regs, act, st.args[i])
  BY <1>3, <1>4, <1>7, <1>8
<1>10. Top = n
  BY <1>3 DEF Top
<1>11. ni = Len(st.args)
  BY <1>3, <1>4, <1>7
<1> QED
  BY <1>1, <1>2, <1>3, <1>4, <1>5, <1>6, <1>7, <1>9, <1>10, <1>11, Zenon DEF CallHere

\* A call of a function.
CallsInto(n, act, a, e, s, b, g) ==
  /\ CallsFunction(module[act.g].body[s], g) /\ g \in DOMAIN module
  /\ stack' = Append([stack EXCEPT ![n] = a], e) /\ EntersAt(e, g)
  /\ a.g = act.g /\ a.pc = act.pc + 1 /\ a.slots = act.slots /\ Waiting(a, s, b, g)
  /\ \E b2 : TopAt(regs, e, 1, b2)

\* The caller waits behind its JAL, and the function is at its first statement.
LEMMA CallFunctionEffect ==
  ASSUME InProgram, CallFunction, NEW n \in Nat \ {0}, NEW act \in Activations, NEW s, NEW b, NEW lo \in Nat,
         NEW hi \in Nat, NEW nf \in Nat, NEW ni \in Nat, Situated(n, act, s, b, lo, hi, nf, ni)
  PROVE  \E g : \E a \in Activations : \E e \in Activations : CallsInto(n, act, a, e, s, b, g)
<1>1. /\ Here.op = "JAL" /\ Stmt.callee.k = "function"
      /\ stack' = Append([stack EXCEPT ![Top].pc = @ + 1], Activation(Stmt.callee.n))
  BY DEF CallFunction, Running
<1>2. PICK st \in Statement : /\ st = module[act.g].body[s] /\ st.k = "call" /\ Stmt = st /\ act.pc = b[s]
                              /\ Top = n /\ act.g \in DOMAIN module /\ s \in 1 .. Len(module[act.g].body)
  <2>1. PICK st : st = module[act.g].body[s]
    OBVIOUS
  <2>2. CallHere(n, act, s, b, hi, ni, st)
    BY <1>1, <2>1, AtCall, Zenon
  <2> QED
    BY <2>1, <2>2, Zenon DEF CallHere
<1>3. PICK g : g = st.callee.n
  OBVIOUS
<1>4. CallsFunction(st, g)
  BY <1>1, <1>2, <1>3 DEF CallsFunction
<1>5. g \in DOMAIN module
  BY <1>1, <1>2, <1>3, CalleeShape DEF InProgram
<1>6. PICK e \in Activations : EntersAt(e, g)
  BY <1>5, Entered DEF InProgram
<1>7. e = Activation(g) /\ e.g = g /\ e.pc = 1
  BY <1>6, Zenon DEF EntersAt
<1>8. \E b2 : TopAt(regs, e, 1, b2)
  BY <1>5, <1>7, FirstStatement DEF InProgram
<1>9. PICK a \in Activations : /\ a = [act EXCEPT !.pc = act.pc + 1] /\ a.g = act.g
                               /\ a.pc = act.pc + 1 /\ a.slots = act.slots
  BY Goes
<1>10. [stack EXCEPT ![Top].pc = @ + 1] = [stack EXCEPT ![n] = a]
  <2>1. act = stack[n] /\ n = Len(stack) /\ stack \in Seq(Activations)
    BY DEF Situated, InProgram, Executing, RunOK
  <2> QED
    BY <1>2, <1>9, <2>1
<1>11. stack' = Append([stack EXCEPT ![n] = a], e)
  BY <1>1, <1>2, <1>3, <1>7, <1>10, Zenon
<1>12. Laid(code[act.g], module[act.g], Len(module[act.g].body), b)
  BY DEF Situated
<1>13. Waiting(a, s, b, g)
  BY <1>2, <1>4, <1>9, <1>12 DEF Waiting
<1>14. CallsInto(n, act, a, e, s, b, g)
  BY <1>2, <1>4, <1>5, <1>6, <1>8, <1>9, <1>11, <1>13, Zenon DEF CallsInto
<1> QED
  BY <1>14

\* A call of the kernel.
KernelReturns(n, act, a, s, b, w) ==
  LET st == module[act.g].body[s]
  IN  /\ st.k = "call" /\ st.callee.k # "function"
      /\ regs' \in RegFiles /\ regs'["R0"] = w /\ (\A r \in CSR : regs'[r] = regs[r])
      /\ stack' = [stack EXCEPT ![n] = a] /\ a.g = act.g /\ a.pc = act.pc + 1 /\ a.slots = act.slots
      /\ s + 1 \in 1 .. Len(module[act.g].body) /\ TopAt(regs', a, s + 1, b)

\* After a call of the kernel its result is in R0.
LEMMA CallKernelEffect ==
  ASSUME InProgram, NEW w \in Values, CallKernel(w), NEW n \in Nat \ {0}, NEW act \in Activations, NEW s, NEW b,
         NEW lo \in Nat, NEW hi \in Nat, NEW nf \in Nat, NEW ni \in Nat, Situated(n, act, s, b, lo, hi, nf, ni)
  PROVE  \E a \in Activations : KernelReturns(n, act, a, s, b, w)
<1>1. /\ Here.op = "JAL" /\ Stmt.callee.k # "function"
      /\ regs' = [r \in DOMAIN regs |-> IF r = "R0" THEN w ELSE IF r \in Clobbered THEN Junk ELSE regs[r]]
      /\ stack' = [stack EXCEPT ![Top].pc = @ + 1]
  BY DEF CallKernel, Running
<1>2. PICK st \in Statement : /\ st = module[act.g].body[s] /\ st.k = "call" /\ Stmt = st /\ act.pc = b[s]
                              /\ Top = n /\ act.g \in DOMAIN module /\ s \in 1 .. Len(module[act.g].body)
  <2>1. PICK st : st = module[act.g].body[s]
    OBVIOUS
  <2>2. CallHere(n, act, s, b, hi, ni, st)
    BY <1>1, <2>1, AtCall, Zenon
  <2> QED
    BY <2>1, <2>2, Zenon DEF CallHere
<1>3. regs \in RegFiles
  BY DEF InProgram, Executing, RunOK
<1>4. DOMAIN regs = Clobbered \cup CSR /\ "R0" \in Clobbered /\ "R0" \notin CSR /\ \A r \in CSR : r \notin Clobbered
  BY <1>3 DEF RegFiles, Clobbered, CSR
<1>5. regs' \in RegFiles /\ regs'["R0"] = w /\ \A r \in CSR : regs'[r] = regs[r]
  <2>1. \A r \in DOMAIN regs : regs[r] \in Words
    BY <1>3 DEF RegFiles
  <2>2. w \in Words /\ Junk \in Words
    BY DEF Words
  <2> QED
    BY <1>1, <1>4, <2>1, <2>2 DEF RegFiles
<1>6. PICK a \in Activations : /\ a = [act EXCEPT !.pc = act.pc + 1] /\ a.g = act.g
                               /\ a.pc = act.pc + 1 /\ a.slots = act.slots
  BY Goes
<1>7. stack' = [stack EXCEPT ![n] = a]
  <2>1. act = stack[n] /\ n = Len(stack) /\ stack \in Seq(Activations)
    BY DEF Situated, InProgram, Executing, RunOK
  <2> QED
    BY <1>1, <1>2, <1>6, <2>1
<1>8. Laid(code[act.g], module[act.g], Len(module[act.g].body), b)
  BY DEF Situated
<1>9. s + 1 \in 1 .. Len(module[act.g].body) /\ TopAt(regs', a, s + 1, b)
  BY <1>2, <1>6, <1>8, NextStatement
<1>10. KernelReturns(n, act, a, s, b, w)
  BY <1>1, <1>2, <1>5, <1>6, <1>7, <1>9, Zenon DEF KernelReturns
<1> QED
  BY <1>10

\* A return.
ReturnsFrom(n, act, s, hi, ni) ==
  LET st == module[act.g].body[s]
  IN  /\ st \in Statement /\ st.k = "ret" /\ Stmt = st /\ act.pc = hi /\ InRegisters(st) /\ Top = n
      /\ s \in 1 .. Len(module[act.g].body)
      /\ ni = Len(st.vals) /\ \A i \in 1 .. ni : i = 1 /\ regs["R0"] = ReadOf(regs, act, st.vals[1])
      /\ regs' \in RegFiles /\ regs'["R0"] = regs["R0"] /\ \A r \in CSR : regs'[r] = regs[r]
      /\ stack' = SubSeq(stack, 1, n - 1)
      /\ stage' = IF n = 1 THEN "halt" ELSE "run"

\* At a RET the result is in R0, and the caller is on top again.
LEMMA ReturnEffect ==
  ASSUME InProgram, Return, NEW n \in Nat \ {0}, NEW act \in Activations, NEW s, NEW b, NEW lo \in Nat,
         NEW hi \in Nat, NEW nf \in Nat, NEW ni \in Nat, Situated(n, act, s, b, lo, hi, nf, ni)
  PROVE  ReturnsFrom(n, act, s, hi, ni)
<1>1. /\ Here.op = "RET" /\ stage = "run"
      /\ regs' = [r \in DOMAIN regs |-> IF r \in Clobbered \ {"R0"} THEN Junk ELSE Restored[r]]
      /\ stack' = SubSeq(stack, 1, Top - 1)
      /\ stage' = IF Top = 1 THEN "halt" ELSE "run"
  BY DEF Return, Running
<1>2. act.g \in DOMAIN module /\ act.saved \in NothingSaved
  BY ActivationParts
<1>3. PICK fn \in Function : fn = module[act.g]
  BY <1>2, Program DEF InProgram
<1>4. /\ n = Len(stack) /\ act = stack[n] /\ s \in 1 .. Len(fn.body) /\ hi = b[s]
      /\ hi = lo + nf + ni + 1 /\ ni = Len(Ins(fn.body[s]))
      /\ \A i \in 1 .. ni :
           lo + nf + i < act.pc => regs[ToRegs(fn.body[s])[i]] = ReadOf(regs, act, Ins(fn.body[s])[i])
  BY <1>3, Zenon DEF Situated, Spot
<1>5. PICK st \in Statement : st = fn.body[s] /\ InRegisters(st)
  BY <1>2, <1>3, <1>4, Program DEF InProgram
<1>6. /\ act.pc = hi /\ Stmt = st /\ Cur = act
      /\ Here.op = IF st.k = "const" THEN "LD_imm64" ELSE IF st.k = "call" THEN "JAL" ELSE "RET"
  <2>1. Here.op \in {"LD_imm64", "JAL", "RET"}
    BY <1>1
  <2>2. MarkerHere(act, s, hi, st)
    BY <1>3, <1>5, <2>1, AtMarker, Zenon
  <2> QED
    BY <2>2, Zenon DEF MarkerHere
<1>7. st.k = "ret"
  BY <1>1, <1>5, <1>6, StatementShape
<1>8. Ins(st) = st.vals /\ ToRegs(st) = RetRegs
  BY <1>7 DEF Ins, ToRegs
<1>9. ni = Len(st.vals) /\ \A i \in 1 .. ni : i = 1 /\ regs["R0"] = ReadOf(regs, act, st.vals[1])
  <2>1. ni = Len(st.vals)
    BY <1>4, <1>5, <1>8
  <2>2. ni <= 1
    BY <1>5, <1>8, <2>1, Registers DEF InRegisters
  <2>3. ASSUME NEW i \in 1 .. ni PROVE i = 1 /\ regs["R0"] = ReadOf(regs, act, st.vals[1])
    <3>1. i = 1 /\ lo + nf + i < act.pc
      BY <1>4, <1>6, <2>2
    <3>2. regs[RetRegs[1]] = ReadOf(regs, act, st.vals[1])
      BY <1>4, <1>5, <1>8, <3>1
    <3> QED
      BY <3>1, <3>2, Registers
  <2> QED
    BY <2>1, <2>3
<1>10. regs \in RegFiles
  BY DEF InProgram, Executing, RunOK
<1>11. Restored = regs
  <2>1. DOMAIN act.saved = {}
    BY <1>2 DEF NothingSaved
  <2>2. regs = [r \in DOMAIN regs |-> regs[r]]
    BY <1>10 DEF RegFiles
  <2> QED
    BY <1>6, <2>1, <2>2 DEF Restored
<1>12. regs' \in RegFiles /\ regs'["R0"] = regs["R0"] /\ \A r \in CSR : regs'[r] = regs[r]
  <2>1. DOMAIN regs = Clobbered \cup CSR /\ "R0" \in Clobbered /\ \A r \in CSR : r \notin Clobbered
    BY <1>10 DEF RegFiles, Clobbered, CSR
  <2>2. \A r \in DOMAIN regs : regs[r] \in Words
    BY <1>10 DEF RegFiles
  <2>3. Junk \in Words
    BY DEF Words
  <2> QED
    BY <1>1, <1>11, <2>1, <2>2, <2>3 DEF RegFiles
<1>13. Top = n
  BY <1>4 DEF Top
<1>14. stack' = SubSeq(stack, 1, n - 1) /\ stage' = IF n = 1 THEN "halt" ELSE "run"
  BY <1>1, <1>13
<1> QED
  BY <1>3, <1>4, <1>5, <1>6, <1>7, <1>9, <1>12, <1>13, <1>14, Zenon DEF ReturnsFrom

\* Execution goes on as one thinks.
LEMMA MoveStep ==
  ASSUME InProgram, ExecLoadImm \/ ExecCopyFrom \/ ExecCopyTo \/ \E w \in Values : CallKernel(w)
  PROVE  Executing'
<1>1. PICK n \in Nat \ {0}, act \in Activations : \E s, b :
        \E lo \in Nat, hi \in Nat, nf \in Nat, ni \in Nat : Situated(n, act, s, b, lo, hi, nf, ni)
  BY Where
<1>2. PICK s, b : \E lo \in Nat, hi \in Nat, nf \in Nat, ni \in Nat : Situated(n, act, s, b, lo, hi, nf, ni)
  BY <1>1
<1>3. PICK lo \in Nat, hi \in Nat, nf \in Nat, ni \in Nat : Situated(n, act, s, b, lo, hi, nf, ni)
  BY <1>2
<1>4. n = Len(stack) /\ act = stack[n]
  BY <1>3, Zenon DEF Situated
<1>5. ASSUME NEW a \in Activations, a.g = act.g, stack' = [stack EXCEPT ![n] = a], regs' \in RegFiles,
             NEW t, TopAt(regs', a, t, b), UNCHANGED <<compiled, stage>>
      PROVE  Executing'
  BY <1>4, <1>5, TopStep
<1>6. CASE ExecLoadImm
  <2>1. PICK a \in Activations : Loads(n, act, a, s, b, hi)
    BY <1>3, <1>6, LoadImmEffect
  <2>2. a.g = act.g /\ stack' = [stack EXCEPT ![n] = a] /\ regs' \in RegFiles /\ TopAt(regs', a, s + 1, b)
    BY <2>1, Zenon DEF Loads, Wrote
  <2> QED
    BY <1>5, <1>6, <2>2, Zenon DEF ExecLoadImm
<1>7. CASE ExecCopyFrom
  <2>1. PICK j \in 1 .. nf : \E a \in Activations : BringsIn(n, act, a, s, b, lo, j)
    BY <1>3, <1>7, CopyFromEffect
  <2>2. PICK a \in Activations : BringsIn(n, act, a, s, b, lo, j)
    BY <2>1
  <2>3. a.g = act.g /\ stack' = [stack EXCEPT ![n] = a] /\ regs' \in RegFiles /\ TopAt(regs', a, s, b)
    BY <2>2, Zenon DEF BringsIn, Wrote
  <2> QED
    BY <1>5, <1>7, <2>3, Zenon DEF ExecCopyFrom
<1>8. CASE ExecCopyTo
  <2>1. PICK a \in Activations : /\ stack' = [stack EXCEPT ![n] = a] /\ a.g = act.g
                                 /\ regs' \in RegFiles /\ TopAt(regs', a, s, b)
    BY <1>3, <1>8, CopyToEffect, Zenon
  <2> QED
    BY <1>5, <1>8, <2>1, Zenon DEF ExecCopyTo
<1>9. CASE \E w \in Values : CallKernel(w)
  <2>1. PICK w \in Values : CallKernel(w)
    BY <1>9
  <2>2. PICK a \in Activations : KernelReturns(n, act, a, s, b, w)
    BY <1>3, <2>1, CallKernelEffect
  <2>3. /\ stack' = [stack EXCEPT ![n] = a] /\ a.g = act.g /\ regs' \in RegFiles /\ TopAt(regs', a, s + 1, b)
    BY <2>2, Zenon DEF KernelReturns
  <2> QED
    BY <1>5, <2>1, <2>3, Zenon DEF CallKernel
<1> QED
  BY <1>6, <1>7, <1>8, <1>9

\* The program is entered with an execution that is somewhere.
LEMMA EnterStep ==
  ASSUME Lowered, CodeInv, Executing, Enter
  PROVE  Executing'
<1>1. stage = "run" /\ UNCHANGED <<compiled, stage, regs>>
  BY DEF Enter
<1>2. PICK e \in Activations : stack' = <<e>> /\ \E b : TopAt(regs, e, 1, b)
  BY EnterEffect, Zenon
<1>3. <<e>> \in Seq(Activations) /\ Len(<<e>>) = 1 /\ <<e>>[1] = e /\ <<e>> # << >>
  OBVIOUS
<1>4. regs \in RegFiles
  BY DEF Executing, RunOK
<1>5. \A d \in 1 .. 1 - 1 : FALSE
  OBVIOUS
<1>6. RunOK("run", regs, <<e>>)
  BY <1>2, <1>3, <1>4, <1>5 DEF RunOK
<1> QED
  BY <1>1, <1>2, <1>6, ExecutingNext, Zenon DEF compiled

\* Pushing.
PushedOn(K2, K, n, a, e) ==
  /\ Len(K2) = n + 1 /\ K2[n] = a /\ K2[n + 1] = e
  /\ \A d \in 1 .. n - 1 : K2[d] = K[d]

\* An activation on top of another.
LEMMA Pushed ==
  ASSUME NEW S, NEW K \in Seq(S), NEW n \in Nat \ {0}, n = Len(K), NEW a \in S, NEW e \in S
  PROVE  \E K2 \in Seq(S) : K2 = Append([K EXCEPT ![n] = a], e) /\ PushedOn(K2, K, n, a, e)
<1>1. PICK L : L = [K EXCEPT ![n] = a]
  OBVIOUS
<1>2. L \in Seq(S) /\ Len(L) = n /\ L[n] = a /\ \A d \in 1 .. n - 1 : L[d] = K[d]
  BY <1>1
<1>3. PICK M : M = Append(L, e)
  OBVIOUS
<1>4. M \in Seq(S) /\ Len(M) = n + 1 /\ M[n + 1] = e /\ \A d \in 1 .. n : M[d] = L[d]
  BY <1>2, <1>3
<1>5. n \in 1 .. n /\ \A d \in 1 .. n - 1 : d \in 1 .. n
  OBVIOUS
<1>6. M[n] = a /\ \A d \in 1 .. n - 1 : M[d] = K[d]
  BY <1>2, <1>4, <1>5
<1>7. PushedOn(M, K, n, a, e)
  BY <1>4, <1>6, Zenon DEF PushedOn
<1> QED
  BY <1>1, <1>3, <1>4, <1>7

\* A call of a function leaves the execution somewhere.
LEMMA CallStep ==
  ASSUME InProgram, CallFunction
  PROVE  Executing'
<1>1. PICK n \in Nat \ {0}, act \in Activations : \E s, b :
        \E lo \in Nat, hi \in Nat, nf \in Nat, ni \in Nat : Situated(n, act, s, b, lo, hi, nf, ni)
  BY Where
<1>2. PICK s, b : \E lo \in Nat, hi \in Nat, nf \in Nat, ni \in Nat : Situated(n, act, s, b, lo, hi, nf, ni)
  BY <1>1
<1>3. PICK lo \in Nat, hi \in Nat, nf \in Nat, ni \in Nat : Situated(n, act, s, b, lo, hi, nf, ni)
  BY <1>2
<1>4. n = Len(stack) /\ act = stack[n]
  BY <1>3, Zenon DEF Situated
<1>5. PICK g : \E a \in Activations : \E e \in Activations : CallsInto(n, act, a, e, s, b, g)
  BY <1>3, CallFunctionEffect
<1>5a. PICK a \in Activations, e \in Activations : CallsInto(n, act, a, e, s, b, g)
  BY <1>5
<1>6. /\ stack' = Append([stack EXCEPT ![n] = a], e) /\ EntersAt(e, g)
      /\ a.g = act.g /\ Waiting(a, s, b, g) /\ \E b2 : TopAt(regs, e, 1, b2)
  BY <1>5a, Zenon DEF CallsInto
<1>7. /\ regs' = regs /\ stage' = stage /\ stage = "run" /\ UNCHANGED <<module, code, home>>
  BY DEF CallFunction, compiled, InProgram
<1>8. stack \in Seq(Activations) /\ regs \in RegFiles
      /\ \A d \in 1 .. n - 1 : \E x, y : Waiting(stack[d], x, y, stack[d + 1].g)
  BY <1>4 DEF InProgram, Executing, RunOK
<1>9. PICK K2 \in Seq(Activations) : /\ K2 = stack' /\ Len(K2) = n + 1 /\ K2[n] = a /\ K2[n + 1] = e
                                     /\ \A d \in 1 .. n - 1 : K2[d] = stack[d]
  <2>1. PICK K2 \in Seq(Activations) : K2 = stack' /\ PushedOn(K2, stack, n, a, e)
    BY <1>4, <1>6, <1>8, Pushed
  <2> QED
    BY <2>1, Zenon DEF PushedOn
<1>10. e.g = g
  BY <1>6, Zenon DEF EntersAt
<1>11. ASSUME NEW d \in 1 .. (n + 1) - 1
       PROVE  \E x, y : Waiting(K2[d], x, y, K2[d + 1].g)
  <2>1. CASE d = n
    BY <1>6, <1>9, <1>10, <2>1
  <2>2. CASE d # n
    <3>1. d \in 1 .. n - 1
      BY <2>2
    <3>2. K2[d] = stack[d] /\ K2[d + 1].g = stack[d + 1].g
      <4>1. CASE d + 1 = n
        BY <1>4, <1>6, <1>9, <3>1, <4>1
      <4>2. CASE d + 1 # n
        <5>1. d + 1 \in 1 .. n - 1
          BY <3>1, <4>2
        <5> QED
          BY <1>9, <3>1, <5>1
      <4> QED
        BY <4>1, <4>2
    <3> QED
      BY <1>8, <3>1, <3>2
  <2> QED
    BY <2>1, <2>2
<1>12. K2 # << >>
  BY <1>9
<1>13. RunOK("run", regs, K2)
  BY <1>6, <1>8, <1>9, <1>11, <1>12 DEF RunOK
<1> QED
  BY <1>7, <1>9, <1>13, ExecutingNext, Zenon

\* A caller goes on behind its call.
LEMMA Resumed ==
  ASSUME InProgram, NEW act \in Activations, NEW s, NEW b, NEW g, Waiting(act, s, b, g), NEW R
  PROVE  /\ act.g \in DOMAIN module /\ s \in 1 .. Len(module[act.g].body)
         /\ s + 1 \in 1 .. Len(module[act.g].body) /\ TopAt(R, act, s + 1, b)
<1>1. act.g \in DOMAIN module
  BY ActivationParts
<1>2. /\ s \in 1 .. Len(module[act.g].body) /\ act.pc = b[s] + 1
      /\ Laid(code[act.g], module[act.g], Len(module[act.g].body), b)
      /\ module[act.g].body[s].k # "ret"
  BY DEF Waiting, CallsFunction
<1> QED
  BY <1>1, <1>2, NextStatement

\* So does a return.
LEMMA ReturnStep ==
  ASSUME InProgram, Return
  PROVE  Executing'
<1>1. PICK n \in Nat \ {0}, act \in Activations : \E s, b :
        \E lo \in Nat, hi \in Nat, nf \in Nat, ni \in Nat : Situated(n, act, s, b, lo, hi, nf, ni)
  BY Where
<1>2. PICK s, b : \E lo \in Nat, hi \in Nat, nf \in Nat, ni \in Nat : Situated(n, act, s, b, lo, hi, nf, ni)
  BY <1>1
<1>3. PICK lo \in Nat, hi \in Nat, nf \in Nat, ni \in Nat : Situated(n, act, s, b, lo, hi, nf, ni)
  BY <1>2
<1>4. n = Len(stack) /\ act = stack[n]
  BY <1>3, Zenon DEF Situated
<1>5. regs' \in RegFiles /\ stack' = SubSeq(stack, 1, n - 1) /\ stage' = IF n = 1 THEN "halt" ELSE "run"
  <2>1. ReturnsFrom(n, act, s, hi, ni)
    BY <1>3, ReturnEffect
  <2> QED
    BY <2>1, Zenon DEF ReturnsFrom
<1>6. UNCHANGED <<module, code, home>>
  BY DEF Return, compiled
<1>7. stack \in Seq(Activations)
      /\ \A d \in 1 .. n - 1 : \E x, y : Waiting(stack[d], x, y, stack[d + 1].g)
  BY <1>4 DEF InProgram, Executing, RunOK
<1>8. PICK K2 \in Seq(Activations) : K2 = stack' /\ Len(K2) = n - 1 /\ \A d \in 1 .. n - 1 : K2[d] = stack[d]
  BY <1>4, <1>5, <1>7
<1>9. CASE n = 1
  <2>1. K2 = << >>
    BY <1>8, <1>9, EmptySeq
  <2>2. \A d \in 1 .. 0 - 1 : FALSE
    OBVIOUS
  <2>3. RunOK("halt", regs', K2)
    BY <1>5, <1>8, <1>9, <2>1, <2>2 DEF RunOK
  <2> QED
    BY <1>5, <1>6, <1>8, <1>9, <2>3, ExecutingNext
<1>10. CASE n # 1
  <2>1. PICK m \in Nat \ {0} : m = n - 1 /\ n = m + 1
    BY <1>10
  <2>2. PICK x, y : Waiting(stack[m], x, y, stack[m + 1].g)
    BY <1>7, <2>1
  <2>3. PICK caller \in Activations : caller = stack[m] /\ caller = K2[m]
    BY <1>8, <2>1
  <2>4. TopAt(regs', caller, x + 1, y)
    BY <2>2, <2>3, Resumed
  <2>5. ASSUME NEW d \in 1 .. m - 1 PROVE \E t, z : Waiting(K2[d], t, z, K2[d + 1].g)
    <3>1. d \in 1 .. n - 1 /\ d + 1 \in 1 .. n - 1
      BY <2>1
    <3> QED
      BY <1>7, <1>8, <3>1
  <2>6. K2 # << >>
    BY <1>8, <2>1
  <2>7. RunOK("run", regs', K2)
    BY <1>5, <1>8, <2>1, <2>3, <2>4, <2>5, <2>6 DEF RunOK
  <2> QED
    BY <1>5, <1>6, <1>8, <1>10, <2>7, ExecutingNext
<1> QED
  BY <1>9, <1>10

CallInv == Lowered /\ CodeInv /\ Executing

\* While there is something to compile, nothing executes.
LEMMA CompilingStep ==
  ASSUME CallInv, LowerNext \/ \E h \in [VRegs -> HomeRegs \cup {Slot}] : AllocateHomes(h)
  PROVE  CodeInv' /\ Executing' /\ stack = << >> /\ stack' = << >> /\ trace' = trace /\ module' = module
<1>1. CASE LowerNext
  <2>1. CodeInv'
    BY <1>1, LoweringCode DEF CallInv
  <2>2. stage = "lower" /\ UNCHANGED <<module, regs, stack, trace>>
    BY <1>1 DEF LowerNext
  <2>3. stage' # "halt"
    BY <1>1, <2>2, Zenon DEF LowerNext, LowerFormalArguments, LowerConst, LowerCall, LowerReturn, Unreached,
                             Reject, NextOne
  <2> QED
    BY <2>1, <2>2, <2>3, NotExecuting DEF CallInv
<1>2. CASE \E h \in [VRegs -> HomeRegs \cup {Slot}] : AllocateHomes(h)
  <2>1. PICK h \in [VRegs -> HomeRegs \cup {Slot}] : AllocateHomes(h)
    BY <1>2
  <2>2. CodeInv'
    BY <2>1, FrameCode DEF CallInv
  <2>3. stage = "frame" /\ UNCHANGED <<module, regs, stack, trace>> /\ stage' \in {"lower", "run"}
    BY <2>1 DEF AllocateHomes
  <2> QED
    BY <2>2, <2>3, NotExecuting DEF CallInv
<1> QED
  BY <1>1, <1>2

\* What executes is in the program.
LEMMA InProgramWhen ==
  ASSUME CallInv, stage = "run", stack # << >>
  PROVE  InProgram
BY DEF CallInv, InProgram

\* Every step keeps the invariant.
LEMMA CallInvStep == CallInv /\ [Next]_vars => CallInv'
<1> SUFFICES ASSUME CallInv, [Next]_vars PROVE CallInv'
  OBVIOUS
<1>1. Lowered'
  BY LoweredStep DEF CallInv
<1>2. CASE LowerNext \/ \E h \in [VRegs -> HomeRegs \cup {Slot}] : AllocateHomes(h)
  BY <1>1, <1>2, CompilingStep DEF CallInv
<1>3. CASE Enter
  <2>1. UNCHANGED <<module, f, at, code, home, stage>>
    BY <1>3 DEF Enter, compiled
  <2> QED
    BY <1>1, <1>3, <2>1, EnterStep, ExecutionCode DEF CallInv
<1>4. CASE ExecLoadImm \/ ExecCopyFrom \/ ExecCopyTo \/ \E w \in Values : CallKernel(w)
  <2>1. UNCHANGED <<module, f, at, code, home, stage>> /\ stage = "run" /\ stack # << >>
    <3>1. \A w \in Values : CallKernel(w) => /\ UNCHANGED <<module, f, at, code, home, stage>>
                                             /\ stage = "run" /\ stack # << >>
      BY DEF CallKernel, compiled, Running
    <3> QED
      BY <1>4, <3>1, Zenon DEF ExecLoadImm, ExecCopyFrom, ExecCopyTo, compiled, Running
  <2> QED
    BY <1>1, <1>4, <2>1, InProgramWhen, MoveStep, ExecutionCode DEF CallInv
<1>5. CASE CallFunction
  <2>1. UNCHANGED <<module, f, at, code, home, stage>> /\ stage = "run" /\ stack # << >>
    BY <1>5 DEF CallFunction, compiled, Running
  <2> QED
    BY <1>1, <1>5, <2>1, InProgramWhen, CallStep, ExecutionCode DEF CallInv
<1>6. CASE Return
  <2>1. UNCHANGED <<module, f, at, code, home>> /\ stage = "run" /\ stack # << >>
    BY <1>6 DEF Return, compiled, Running
  <2>2. stage' = stage \/ (stage = "run" /\ stage' = "halt")
    BY <1>6, Zenon DEF Return, Running
  <2> QED
    BY <1>1, <1>6, <2>1, <2>2, InProgramWhen, ReturnStep, ExecutionCode DEF CallInv
<1>7. CASE UNCHANGED vars
  <2>1. UNCHANGED <<module, f, at, code, home, stage, regs, stack>>
    BY <1>7 DEF vars
  <2>2. Executing'
    <3>1. RunOK(stage', regs', stack')
      BY <2>1 DEF CallInv, Executing
    <3> QED
      BY <2>1, <3>1, ExecutingNext
  <2> QED
    BY <1>1, <2>1, <2>2, ExecutionCode DEF CallInv
<1> QED
  BY <1>2, <1>3, <1>4, <1>5, <1>6, <1>7 DEF Next

\* It holds at first.
LEMMA CallInvInit == Init => CallInv
BY LoweredInit, CodeInit, ExecutingInit DEF CallInv

\* An instruction of a statement is in the code.
LEMMA InCode ==
  ASSUME InProgram, NEW act \in Activations, NEW R, NEW s, NEW b, TopAt(R, act, s, b)
  PROVE  act.pc \in DOMAIN code[act.g]
<1>1. act.g \in DOMAIN module /\ act.pc \in Nat
  BY ActivationParts
<1>2. PICK fn \in Function : fn = module[act.g]
  BY <1>1, Program DEF InProgram
<1>3. /\ Laid(code[act.g], fn, Len(fn.body), b) /\ s \in 1 .. Len(fn.body)
      /\ b[s - 1] < act.pc /\ act.pc <= b[s]
  BY <1>2, Zenon DEF TopAt
<1>4. PICK lo \in Nat, hi \in Nat, nf \in Nat, ni \in Nat : Spot(code[act.g], fn, b, s, lo, hi, nf, ni)
  BY <1>3, Spots, Zenon
<1>5. lo = b[s - 1] /\ hi = b[s] /\ hi <= Len(code[act.g])
  BY <1>4, Zenon DEF Spot
<1>6. code[act.g] \in Seq(CallInsns)
  BY <1>1, Program DEF InProgram
<1>7. DOMAIN code[act.g] = 1 .. Len(code[act.g]) /\ Len(code[act.g]) \in Nat
  BY <1>6, LenProperties
<1> QED
  BY <1>1, <1>3, <1>5, <1>7

\* The types follow from it: an execution is always at an instruction.
LEMMA CallTypes == CallInv => TypeOK
<1> SUFFICES ASSUME CallInv PROVE TypeOK
  OBVIOUS
<1>1. /\ module \in Modules /\ f \in DOMAIN module /\ at \in 0 .. Len(module[f].body) + 1
      /\ stage \in {"lower", "frame", "run", "halt", "rejected", "unreachable"}
  BY DEF CallInv, Lowered
<1>2. ASSUME NEW g \in DOMAIN module, NEW n \in DOMAIN code[g]
      PROVE  code[g][n].reg \in Clobbered \cup {"none"} /\ code[g][n].v \in VRegs \cup {"none"}
  <2>1. code[g] \in Seq(CallInsns)
    BY DEF CallInv, CodeInv, CodeTypes
  <2>2. code[g][n] \in CallInsns
    BY <2>1, LenProperties, ElementOfSeq
  <2> QED
    BY <2>2 DEF CallInsns
<1>3. home \in [DOMAIN module -> [VRegs -> HomeRegs \cup {Slot}]]
  BY DEF CallInv, CodeInv, HomesApart
<1>4. regs \in [Clobbered \cup CSR -> Values \cup {Junk}]
  BY DEF CallInv, Executing, RunOK, RegFiles, Words
<1>5. ASSUME NEW d \in DOMAIN stack
      PROVE  /\ stack[d].g \in DOMAIN module /\ stack[d].pc \in DOMAIN code[stack[d].g]
             /\ stack[d].slots \in [VRegs -> Values \cup {Junk}]
  <2>1. stack \in Seq(Activations) /\ (stage # "run" => stack = << >>)
    BY DEF CallInv, Executing, RunOK
  <2>2. PICK n \in Nat : n = Len(stack) /\ d \in 1 .. n
    BY <2>1, LenProperties
  <2>3. stack # << >>
    BY <2>1, <2>2
  <2>4. InProgram
    BY <2>1, <2>3, InProgramWhen
  <2>5. PICK act \in Activations : act = stack[d]
    BY <2>1, <2>2, ElementOfSeq
  <2>6. \E s, b : TopAt(regs, act, s, b)
    <3>1. CASE d = n
      BY <2>2, <2>3, <2>5, <3>1 DEF CallInv, Executing, RunOK
    <3>2. CASE d # n
      <4>1. d \in 1 .. n - 1
        BY <2>2, <3>2
      <4>2. PICK s, b : Waiting(act, s, b, stack[d + 1].g)
        BY <2>2, <2>5, <4>1 DEF CallInv, Executing, RunOK
      <4>3. TopAt(regs, act, s + 1, b)
        BY <2>4, <4>2, Resumed
      <4> QED
        BY <4>3
    <3> QED
      BY <3>1, <3>2
  <2>7. act.pc \in DOMAIN code[act.g]
    BY <2>4, <2>6, InCode
  <2> QED
    BY <2>5, <2>7, ActivationParts DEF Words
<1> QED
  BY <1>1, <1>2, <1>3, <1>4, <1>5 DEF TypeOK

\* The types of calls, for every module: what LowerFormalArguments, LowerCall
\* and LowerReturn emit names only registers and variables, the allocator's homes
\* are those it may use, and every activation is before an instruction of its own
\* function and has words in its slots: no call, return or copy runs off the
\* code.
THEOREM CallTypeCorrect == Spec => []TypeOK
BY CallInvInit, CallInvStep, CallTypes, PTL DEF Spec

-----------------------------------------------------------------------------
(***************************************************************************)
(* What an execution looks like from the source.                           *)
(***************************************************************************)
EnvOf(R, act, top) ==
  [v \in VRegs |->
     LET copies == {n \in Pending(act) : top /\ code[act.g][n].v = v}
     IN  IF copies = {} THEN ReadOf(R, act, v)
         ELSE R[code[act.g][CHOOSE n \in copies : TRUE].reg]]

Frame(R, act, top) == [g |-> act.g, at |-> SourceAt(act, top), env |-> EnvOf(R, act, top)]

View(R, K) == [d \in DOMAIN K |-> Frame(R, K[d], d = Len(K))]

\* The stack of the source is what the registers and the stack show of it.
LEMMA SourceView ==
  /\ SourceStack = View(regs, stack)
  /\ UNCHANGED <<module, code, home>> => SourceStack' = View(regs', stack')
<1>1. SourceStack = View(regs, stack)
  BY DEF SourceStack, View, Frame, EnvOf, SourceEnv, ReadIn, ReadOf, Top
<1>2. ASSUME UNCHANGED <<module, code, home>>
      PROVE  SourceStack' = View(regs', stack')
  <2>1. module' = module /\ code' = code /\ home' = home
    BY <1>2
  <2>2. ASSUME NEW act, NEW top
        PROVE  SourceAt(act, top)' = SourceAt(act, top)
    BY <2>1 DEF SourceAt
  <2>3. ASSUME NEW act, NEW top
        PROVE  SourceEnv(act, top)' = EnvOf(regs', act, top)
    BY <2>1 DEF SourceEnv, EnvOf, ReadIn, ReadOf, Pending
  <2> QED
    BY <2>1, <2>2, <2>3 DEF SourceStack, View, Frame, Top
<1> QED
  BY <1>1, <1>2

\* The arriving variables are different.
LEMMA FromDistinct ==
  ASSUME Lowered, CodeInv, stage = "run", NEW g \in DOMAIN module, NEW s \in 1 .. Len(module[g].body),
         NEW i \in 1 .. Len(FromVars(module[g], s)), NEW j \in 1 .. Len(FromVars(module[g], s)),
         FromVars(module[g], s)[i] = FromVars(module[g], s)[j]
  PROVE  i = j
<1>1. PICK fn \in Function : fn = module[g] /\ AssembledTo(code[g], fn)
  BY Program
<1>2. CASE s # 1
  <2>1. i = 1 /\ j = 1
    BY <1>1, <1>2, FromInsns
  <2> QED
    BY <2>1
<1>3. CASE s = 1
  <2>1. FromVars(fn, s) = fn.params
    BY <1>3 DEF FromVars
  <2>2. module \in Modules
    BY TheFunction
  <2>3. IsInjective(fn.params)
    BY <1>1, <2>2, ModuleAssumption DEF WellFormed
  <2>4. fn.params \in Seq(VRegs)
    BY <1>1 DEF Function
  <2>5. i \in DOMAIN fn.params /\ j \in DOMAIN fn.params
    BY <1>1, <2>1, <2>4, LenProperties
  <2> QED
    BY <1>1, <2>1, <2>3, <2>5 DEF IsInjective
<1> QED
  BY <1>2, <1>3

\* The variables of an activation that executes: what arrives is in its
\* register until it is copied, and everything else is where it lives.
Arrives(R, act, s, lo, nf, env) ==
  /\ env = [v \in VRegs |-> env[v]]
  /\ \A i \in 1 .. nf : act.pc <= lo + i => env[FromVars(module[act.g], s)[i]] = R[FromRegs(s)[i]]
  /\ \A v \in VRegs : (\A i \in 1 .. nf : act.pc <= lo + i => FromVars(module[act.g], s)[i] # v)
                         => env[v] = ReadOf(R, act, v)

Copying(act, s, lo, hi, nf) ==
  LET c == code[act.g]
  IN  /\ Pending(act) = act.pc .. lo + nf
      /\ \A n \in act.pc .. hi - 1 : c[n].n = 0
      /\ c[hi].n = s
      /\ \A i \in 1 .. nf : /\ c[lo + i].v = FromVars(module[act.g], s)[i]
                           /\ c[lo + i].reg = FromRegs(s)[i]
      /\ s \in Nat \ {0} /\ lo < act.pc /\ act.pc <= hi /\ act.pc \in Nat /\ hi \in 1 .. Len(c)

\* The copies from registers that are next are those of what arrives.
LEMMA PendingCopies ==
  ASSUME Lowered, CodeInv, stage = "run", NEW act \in Activations, NEW R, NEW s, NEW b, TopAt(R, act, s, b),
         NEW lo \in Nat, NEW hi \in Nat, NEW nf \in Nat, NEW ni \in Nat,
         Spot(code[act.g], module[act.g], b, s, lo, hi, nf, ni)
  PROVE  Copying(act, s, lo, hi, nf)
<1>1. act.g \in DOMAIN module /\ act.pc \in Nat
  BY ActivationParts
<1>2. PICK fn \in Function : fn = module[act.g]
  BY <1>1, Program
<1>3. PICK c \in Seq(CallInsns) : c = code[act.g] /\ AssembledTo(c, fn)
  BY <1>1, <1>2, Program
<1>4. s \in 1 .. Len(fn.body) /\ b[s - 1] < act.pc /\ act.pc <= b[s]
  BY <1>2, Zenon DEF TopAt
<1>5. PICK st \in Statement : st = fn.body[s] /\ InRegisters(st)
  BY <1>1, <1>2, <1>4, Program
<1>6. /\ lo = b[s - 1] /\ hi = b[s] /\ hi <= Len(c) /\ hi = lo + nf + ni + 1
      /\ nf = Len(FromVars(fn, s)) /\ ni = Len(Ins(st))
      /\ \A i \in 1 .. nf : c[lo + i] = From(fn, s, i)
      /\ \A i \in 1 .. ni : c[lo + nf + i] = To(st, i)
      /\ c[hi] = Marker(st, s)
  BY <1>2, <1>3, <1>5, Zenon DEF Spot
<1>7. lo < act.pc /\ act.pc <= hi /\ s \in Nat \ {0}
  BY <1>4, <1>6
<1>8. PICK L \in Nat : L = Len(c)
  BY LenProperties
<1>9. ASSUME NEW i \in 1 .. nf
      PROVE  c[lo + i].op = "CopyFrom" /\ c[lo + i].n = 0 /\ c[lo + i].v = FromVars(fn, s)[i]
             /\ c[lo + i].reg = FromRegs(s)[i]
  BY <1>3, <1>4, <1>6, FromInsns
<1>10. ASSUME NEW i \in 1 .. ni
       PROVE  c[lo + nf + i].op = "CopyTo" /\ c[lo + nf + i].n = 0
  <2>1. To(st, i).op = "CopyTo" /\ To(st, i).n = 0
    BY <1>5, <1>6, <1>7, PieceInsns
  <2> QED
    BY <1>6, <2>1
<1>11. c[hi].op # "CopyFrom" /\ c[hi].n = s
  <2>1. /\ Marker(st, s).n = s
        /\ Marker(st, s).op = IF st.k = "const" THEN "LD_imm64" ELSE IF st.k = "call" THEN "JAL" ELSE "RET"
    BY <1>5, <1>7, MarkerInsn
  <2> QED
    BY <1>6, <2>1
<1>12. ASSUME NEW n \in act.pc .. hi - 1
       PROVE  c[n].n = 0 /\ (c[n].op = "CopyFrom" <=> n <= lo + nf)
  <2>1. CASE n <= lo + nf
    <3>1. PICK x \in Nat : x = n /\ lo < x /\ x <= lo + nf
      BY <1>1, <1>7, <2>1
    <3>2. x - lo \in 1 .. nf /\ lo + (x - lo) = x
      BY <3>1
    <3> QED
      BY <1>9, <2>1, <3>1, <3>2
  <2>2. CASE ~(n <= lo + nf)
    <3>1. PICK x \in Nat : x = n /\ x <= hi - 1 /\ hi = lo + nf + ni + 1
      <4>1. PICK pc \in Nat : pc = act.pc
        BY <1>1
      <4>2. n \in pc .. hi - 1
        BY <4>1, Zenon
      <4>3. n \in Nat /\ n <= hi - 1
        BY <4>2
      <4> QED
        BY <1>6, <4>3, Zenon
    <3>2. x - (lo + nf) \in 1 .. ni /\ lo + nf + (x - (lo + nf)) = x
      BY <2>2, <3>1
    <3> QED
      BY <1>10, <2>2, <3>1, <3>2
  <2> QED
    BY <2>1, <2>2
<1>13. Pending(act) = {n \in act.pc .. L : \A m \in act.pc .. n : c[m].op = "CopyFrom"}
  BY <1>3, <1>8 DEF Pending
<1>14. ASSUME NEW n \in act.pc .. L, \A m \in act.pc .. n : c[m].op = "CopyFrom"
       PROVE  n <= lo + nf
  <2>1. ~(hi <= n)
    <3> SUFFICES ASSUME hi <= n PROVE FALSE
      OBVIOUS
    <3>1. hi \in act.pc .. n
      BY <1>1, <1>7, <1>8
    <3> QED
      BY <1>11, <1>14, <3>1
  <2>2. n \in act.pc .. hi - 1 /\ n \in act.pc .. n
    BY <1>1, <1>8, <2>1
  <2>3. c[n].op = "CopyFrom" <=> n <= lo + nf
    BY <1>12, <2>2
  <2>4. c[n].op = "CopyFrom"
    BY <1>14, <2>2
  <2> QED
    BY <2>3, <2>4
<1>15. ASSUME NEW n \in act.pc .. lo + nf
       PROVE  n \in act.pc .. L /\ \A m \in act.pc .. n : c[m].op = "CopyFrom"
  <2>1. PICK pc \in Nat, top \in Nat : pc = act.pc /\ top = lo + nf /\ top < hi /\ hi <= L
    <3>1. act.pc \in Nat /\ lo + nf \in Nat
      BY <1>1
    <3>2. lo + nf < hi
      BY <1>6
    <3>3. hi <= L
      BY <1>6, <1>8
    <3> QED
      BY <3>1, <3>2, <3>3
  <2>2. n \in pc .. top
    BY <2>1
  <2>3. n \in pc .. L /\ \A m \in pc .. n : m \in pc .. hi - 1 /\ m <= top
    BY <1>8, <2>1, <2>2
  <2>4. n \in act.pc .. L /\ \A m \in act.pc .. n : m \in act.pc .. hi - 1 /\ m <= lo + nf
    BY <2>1, <2>3, Zenon
  <2> QED
    BY <1>12, <2>4
<1>16. Pending(act) = act.pc .. lo + nf
  <2>1. ASSUME NEW n \in Pending(act) PROVE n \in act.pc .. lo + nf
    BY <1>1, <1>8, <1>13, <1>14
  <2>2. ASSUME NEW n \in act.pc .. lo + nf PROVE n \in Pending(act)
    BY <1>13, <1>15
  <2> QED
    BY <2>1, <2>2
<1>17. hi \in 1 .. Len(c)
  BY <1>6, <1>8
<1> QED
  BY <1>1, <1>2, <1>3, <1>7, <1>9, <1>11, <1>12, <1>16, <1>17 DEF Copying

\* What the source sees of an activation is a value for each variable.
LEMMA EnvIsFunction ==
  ASSUME NEW R, NEW act, NEW top
  PROVE  EnvOf(R, act, top) = [v \in VRegs |-> EnvOf(R, act, top)[v]]
<1> DEFINE Value(v) == LET copies == {n \in Pending(act) : top /\ code[act.g][n].v = v}
                       IN  IF copies = {} THEN ReadOf(R, act, v)
                           ELSE R[code[act.g][CHOOSE n \in copies : TRUE].reg]
<1>1. EnvOf(R, act, top) = [v \in VRegs |-> Value(v)]
  BY Zenon DEF EnvOf
<1> HIDE DEF Value
<1> QED
  BY <1>1

\* What the source sees of the activation on top.
LEMMA TopView ==
  ASSUME Lowered, CodeInv, stage = "run", NEW act \in Activations, NEW R, NEW s, NEW b, TopAt(R, act, s, b),
         NEW lo \in Nat, NEW hi \in Nat, NEW nf \in Nat, NEW ni \in Nat,
         Spot(code[act.g], module[act.g], b, s, lo, hi, nf, ni)
  PROVE  SourceAt(act, TRUE) = s /\ Arrives(R, act, s, lo, nf, EnvOf(R, act, TRUE))
<1>0. PICK c : c = code[act.g]
  OBVIOUS
<1>1. /\ Pending(act) = act.pc .. lo + nf
      /\ \A n \in act.pc .. hi - 1 : c[n].n = 0
      /\ c[hi].n = s
      /\ \A i \in 1 .. nf : c[lo + i].v = FromVars(module[act.g], s)[i] /\ c[lo + i].reg = FromRegs(s)[i]
      /\ s \in Nat \ {0} /\ lo < act.pc /\ act.pc <= hi /\ act.pc \in Nat /\ hi \in 1 .. Len(c)
  <2>1. Copying(act, s, lo, hi, nf)
    BY PendingCopies, Zenon
  <2> QED
    BY <1>0, <2>1, Zenon DEF Copying
<1>2. SourceAt(act, TRUE) = s
  <2> DEFINE N(n) == c[n].n > 0 /\ \A m \in act.pc .. n - 1 : c[m].n = 0
  <2>0. hi \in act.pc .. Len(c)
    <3>1. code[act.g] \in Seq(CallInsns)
      BY ActivationParts, Program
    <3> QED
      BY <1>0, <1>1, <3>1, LenProperties
  <2>1. N(hi)
    BY <1>1
  <2>2. ASSUME NEW n \in act.pc .. Len(c), N(n) PROVE n = hi
    <3>1. ~(n < hi)
      <4> SUFFICES ASSUME n < hi PROVE FALSE
        OBVIOUS
      <4>1. n \in act.pc .. hi - 1
        BY <1>1, <2>0
      <4>2. c[n].n = 0
        BY <1>1, <4>1
      <4> QED
        BY <2>2, <4>2
    <3>2. ~(hi < n)
      <4> SUFFICES ASSUME hi < n PROVE FALSE
        OBVIOUS
      <4>0. PICK x \in Nat : x = act.pc /\ x <= hi /\ n \in Int
        BY <1>1
      <4>1. hi \in act.pc .. n - 1
        BY <4>0
      <4>2. c[hi].n = 0
        BY <2>2, <4>1
      <4> QED
        BY <1>1, <4>2
    <3> QED
      BY <1>1, <2>0, <3>1, <3>2
  <2> HIDE DEF N
  <2>3. hi = CHOOSE n \in act.pc .. Len(c) : N(n)
    <3>1. PICK q : q = CHOOSE n \in act.pc .. Len(c) : N(n)
      OBVIOUS
    <3>2. q \in act.pc .. Len(c) /\ N(q)
      BY <2>0, <2>1, <3>1, Zenon
    <3> QED
      BY <2>2, <3>1, <3>2
  <2>4. SourceAt(act, TRUE) = c[CHOOSE n \in act.pc .. Len(c) : N(n)].n
    BY <1>0, Zenon DEF SourceAt, N
  <2> QED
    BY <1>1, <2>3, <2>4
<1>3. PICK env : env = EnvOf(R, act, TRUE)
  OBVIOUS
<1>4. ASSUME NEW v \in VRegs
      PROVE  env[v] = LET copies == {n \in act.pc .. lo + nf : c[n].v = v}
                      IN  IF copies = {} THEN ReadOf(R, act, v) ELSE R[c[CHOOSE n \in copies : TRUE].reg]
  <2>1. EnvOf(R, act, TRUE)[v] = LET copies == {n \in Pending(act) : TRUE /\ code[act.g][n].v = v}
                                 IN  IF copies = {} THEN ReadOf(R, act, v)
                                     ELSE R[code[act.g][CHOOSE n \in copies : TRUE].reg]
    BY Zenon DEF EnvOf
  <2>2. Pending(act) = act.pc .. lo + nf
    BY <1>1, Zenon
  <2>3. {n \in Pending(act) : TRUE /\ code[act.g][n].v = v} = {n \in act.pc .. lo + nf : c[n].v = v}
    BY <1>0, <2>2, Zenon
  <2> QED
    BY <1>0, <1>3, <2>1, <2>3, Zenon
<1>5. env = [v \in VRegs |-> env[v]]
  BY <1>3, EnvIsFunction, Zenon
<1>6. s \in 1 .. Len(module[act.g].body) /\ act.g \in DOMAIN module /\ nf = Len(FromVars(module[act.g], s))
  BY ActivationParts DEF TopAt, Spot
<1>7. ASSUME NEW i \in 1 .. nf, act.pc <= lo + i
      PROVE  env[FromVars(module[act.g], s)[i]] = R[FromRegs(s)[i]]
  <2>1. PICK v : v = FromVars(module[act.g], s)[i]
    OBVIOUS
  <2>2. v \in VRegs
    <3>1. module[act.g] \in Function /\ AssembledTo(code[act.g], module[act.g])
      BY <1>6, Program
    <3> QED
      BY <1>6, <2>1, <3>1, FromInsns
  <2>3. PICK copies : copies = {n \in act.pc .. lo + nf : c[n].v = v}
    OBVIOUS
  <2>4. lo + i \in copies
    BY <1>1, <1>7, <2>1, <2>3
  <2>5. ASSUME NEW n \in copies PROVE n = lo + i
    <3>1. n - lo \in 1 .. nf /\ lo + (n - lo) = n
      <4>1. PICK pc \in Nat : pc = act.pc /\ lo < pc
        BY <1>1, Zenon
      <4>2. n \in pc .. lo + nf
        BY <2>3, <4>1, Zenon
      <4> QED
        BY <4>1, <4>2
    <3>2. FromVars(module[act.g], s)[n - lo] = v
      BY <1>1, <2>3, <3>1
    <3>3. n - lo = i
      BY <1>6, <2>1, <3>1, <3>2, FromDistinct
    <3> QED
      BY <3>1, <3>3
  <2>6. (CHOOSE n \in copies : TRUE) = lo + i
    BY <2>4, <2>5
  <2>7. env[v] = R[c[lo + i].reg]
    BY <1>4, <2>2, <2>3, <2>4, <2>6
  <2> QED
    BY <1>1, <2>1, <2>7
<1>8. ASSUME NEW v \in VRegs, \A i \in 1 .. nf : act.pc <= lo + i => FromVars(module[act.g], s)[i] # v
      PROVE  env[v] = ReadOf(R, act, v)
  <2>1. ASSUME NEW n \in act.pc .. lo + nf, c[n].v = v PROVE FALSE
    <3>1. n - lo \in 1 .. nf /\ lo + (n - lo) = n /\ act.pc <= n
      BY <1>1
    <3>2. FromVars(module[act.g], s)[n - lo] = v
      BY <1>1, <2>1, <3>1
    <3> QED
      BY <1>8, <3>1, <3>2
  <2>2. {n \in act.pc .. lo + nf : c[n].v = v} = {}
    BY <2>1
  <2> QED
    BY <1>4, <2>2
<1> QED
  BY <1>2, <1>3, <1>5, <1>7, <1>8, Zenon DEF Arrives

\* An activation that waits is at its call and sees no copies.
LEMMA WaitView ==
  ASSUME Lowered, CodeInv, stage = "run", NEW act \in Activations, NEW s, NEW b, NEW g, Waiting(act, s, b, g), NEW R
  PROVE  SourceAt(act, FALSE) = s /\ EnvOf(R, act, FALSE) = [v \in VRegs |-> ReadOf(R, act, v)]
<1>1. act.g \in DOMAIN module
  BY ActivationParts
<1>2. PICK fn \in Function : fn = module[act.g]
  BY <1>1, Program
<1>3. /\ s \in 1 .. Len(fn.body) /\ act.pc = b[s] + 1 /\ Laid(code[act.g], fn, Len(fn.body), b)
  BY <1>2, Zenon DEF Waiting
<1>4. PICK lo \in Nat, hi \in Nat, nf \in Nat, ni \in Nat : Spot(code[act.g], fn, b, s, lo, hi, nf, ni)
  BY <1>3, Spots, Zenon
<1>5. hi = b[s] /\ code[act.g][hi] = Marker(fn.body[s], s)
  BY <1>4, Zenon DEF Spot
<1>6. act.pc - 1 = hi
  BY <1>3, <1>5
<1>7. PICK st \in Statement : st = fn.body[s] /\ InRegisters(st)
  BY <1>1, <1>2, <1>3, Program
<1>8. code[act.g][act.pc - 1].n = s
  <2>1. s \in Nat
    BY <1>3
  <2> QED
    BY <1>5, <1>6, <1>7, <2>1, MarkerInsn
<1>9. SourceAt(act, FALSE) = s
  BY <1>8 DEF SourceAt
<1>10. EnvOf(R, act, FALSE) = [v \in VRegs |-> ReadOf(R, act, v)]
  BY DEF EnvOf
<1> QED
  BY <1>9, <1>10

\* The variables of a function that was called are in slots.
LEMMA NoKeeper ==
  ASSUME KeepersNotCalled, Lowered, CodeInv, NEW g \in DOMAIN module, NEW s \in 1 .. Len(module[g].body),
         NEW callee \in DOMAIN module, CallsFunction(module[g].body[s], callee)
  PROVE  \A v \in VRegs : home[callee][v] = Slot
<1>1. module \in Modules
  BY TheFunction
<1>2. DOMAIN module[g].body = 1 .. Len(module[g].body)
  BY <1>1, Shapes
<1>3. callee \notin Keepers
  BY <1>1, <1>2 DEF KeepersNotCalled
<1> QED
  BY <1>3 DEF CodeInv, HomesApart

\* An activation that was called has its variables in slots.
LEMMA CalledHasSlots ==
  ASSUME KeepersNotCalled, InProgram, NEW n \in Nat \ {0}, n = Len(stack), n # 1,
         NEW act \in Activations, act = stack[n]
  PROVE  \A v \in VRegs : home[act.g][v] = Slot
<1>1. PICK m \in Nat \ {0} : m = n - 1 /\ n = m + 1
  OBVIOUS
<1>2. stack \in Seq(Activations) /\ m \in 1 .. n - 1 /\ m \in 1 .. n
  BY <1>1 DEF InProgram, Executing, RunOK
<1>3. PICK s, b : Waiting(stack[m], s, b, stack[m + 1].g)
  BY <1>2 DEF InProgram, Executing, RunOK
<1>4. PICK c \in Activations : c = stack[m]
  BY <1>2, ElementOfSeq
<1>5. c.g \in DOMAIN module /\ act.g \in DOMAIN module
  BY ActivationParts
<1>6. s \in 1 .. Len(module[c.g].body) /\ CallsFunction(module[c.g].body[s], act.g)
  BY <1>1, <1>3, <1>4 DEF Waiting
<1> QED
  BY <1>5, <1>6, NoKeeper DEF InProgram

\* An activation that waits does not see the registers that calls clobber.
LEMMA WaitingKept ==
  ASSUME InProgram, NEW act \in Activations, NEW s, NEW b, NEW g, Waiting(act, s, b, g),
         NEW R, NEW R2, \A r \in CSR : R2[r] = R[r]
  PROVE  Frame(R2, act, FALSE) = Frame(R, act, FALSE)
<1>1. \A v \in VRegs : ReadOf(R2, act, v) = ReadOf(R, act, v)
  BY ReadsKept
<1>2. /\ EnvOf(R, act, FALSE) = [v \in VRegs |-> ReadOf(R, act, v)]
      /\ EnvOf(R2, act, FALSE) = [v \in VRegs |-> ReadOf(R2, act, v)]
  BY WaitView DEF InProgram
<1>3. EnvOf(R, act, FALSE) = EnvOf(R2, act, FALSE)
  BY <1>1, <1>2
<1> QED
  BY <1>3 DEF Frame

Views(V, R, K, n) ==
  /\ V = [d \in 1 .. n |-> V[d]] /\ Len(V) = n
  /\ \A d \in 1 .. n : V[d] = Frame(R, K[d], d = n)

\* The frames of a stack.
LEMMA ViewParts ==
  ASSUME NEW K \in Seq(Activations), NEW n \in Nat, n = Len(K), NEW R
  PROVE  View(R, K) = [d \in 1 .. n |-> Frame(R, K[d], d = n)] /\ Views(View(R, K), R, K, n)
<1>1. DOMAIN K = 1 .. n
  OBVIOUS
<1>2. View(R, K) = [d \in 1 .. n |-> Frame(R, K[d], d = n)]
  BY <1>1 DEF View
<1>3. PICK V : V = [d \in 1 .. n |-> Frame(R, K[d], d = n)]
  OBVIOUS
<1>4. V = [d \in 1 .. n |-> V[d]] /\ (\A d \in 1 .. n : V[d] = Frame(R, K[d], d = n))
  BY <1>3
<1>5. Len(V) = n
  <2>1. V \in Seq({V[d] : d \in 1 .. n}) /\ DOMAIN V = 1 .. n
    BY <1>4
  <2> QED
    BY <2>1
<1> QED
  BY <1>2, <1>3, <1>4, <1>5 DEF Views

\* The activation on top changes.
TopBecomes(R2, n, a) ==
  View(R2, [stack EXCEPT ![n] = a]) = [View(regs, stack) EXCEPT ![n] = Frame(R2, a, TRUE)]

\* When the activation on top changes, the source sees the others as before.
LEMMA TopChanged ==
  ASSUME InProgram, NEW n \in Nat \ {0}, n = Len(stack), NEW a \in Activations,
         NEW R2, n = 1 \/ \A r \in CSR : R2[r] = regs[r]
  PROVE  TopBecomes(R2, n, a)
<1>1. stack \in Seq(Activations)
  BY DEF InProgram, Executing, RunOK
<1>2. PICK K2 : K2 = [stack EXCEPT ![n] = a]
  OBVIOUS
<1>3. K2 \in Seq(Activations) /\ Len(K2) = n /\ K2[n] = a /\ \A d \in 1 .. n : d # n => K2[d] = stack[d]
  BY <1>1, <1>2
<1>4. ASSUME NEW d \in 1 .. n, d # n
      PROVE  Frame(R2, K2[d], FALSE) = Frame(regs, stack[d], FALSE)
  <2>1. d \in 1 .. n - 1
    BY <1>4
  <2>2. PICK s, b : Waiting(stack[d], s, b, stack[d + 1].g)
    BY <2>1 DEF InProgram, Executing, RunOK
  <2>3. stack[d] \in Activations
    BY <1>1, ElementOfSeq
  <2>4. \A r \in CSR : R2[r] = regs[r]
    BY <2>1
  <2>5. Frame(R2, stack[d], FALSE) = Frame(regs, stack[d], FALSE)
    BY <2>2, <2>3, <2>4, WaitingKept
  <2> QED
    BY <1>3, <1>4, <2>5
<1>5. PICK V : V = View(regs, stack)
  OBVIOUS
<1>6. V = [d \in 1 .. n |-> V[d]] /\ \A d \in 1 .. n : V[d] = Frame(regs, stack[d], d = n)
  BY <1>1, <1>5, ViewParts DEF Views
<1>7. View(R2, K2) = [d \in 1 .. n |-> Frame(R2, K2[d], d = n)]
  BY <1>3, ViewParts
<1>8. PICK x : x = Frame(R2, a, TRUE)
  OBVIOUS
<1>9. [V EXCEPT ![n] = x] = [d \in 1 .. n |-> IF d = n THEN x ELSE V[d]]
  BY <1>6
<1>10. ASSUME NEW d \in 1 .. n
       PROVE  Frame(R2, K2[d], d = n) = IF d = n THEN x ELSE V[d]
  <2>1. CASE d = n
    <3>1. (d = n) = TRUE
      BY <2>1
    <3> QED
      BY <1>3, <1>8, <2>1, <3>1
  <2>2. CASE d # n
    <3>1. (d = n) = FALSE
      BY <2>2
    <3> QED
      BY <1>4, <1>6, <2>2, <3>1
  <2> QED
    BY <2>1, <2>2
<1>11. View(R2, K2) = [V EXCEPT ![n] = x]
  BY <1>7, <1>9, <1>10
<1> QED
  BY <1>2, <1>5, <1>8, <1>11 DEF TopBecomes

\* Variables that got new values.
Assigns(new, env, dst, vals) ==
  /\ new = [v \in VRegs |-> new[v]]
  /\ \A i \in 1 .. Len(dst) : \A j \in 1 .. Len(dst) : dst[i] = dst[j] => i = j
  /\ \A i \in 1 .. Len(dst) : new[dst[i]] = vals[i]
  /\ \A v \in VRegs : (\A i \in 1 .. Len(dst) : dst[i] # v) => new[v] = env[v]

\* What gets the new values and keeps the others is what the source assigns.
LEMMA Assigned ==
  ASSUME NEW env, NEW dst \in Seq(VRegs), NEW vals, NEW new, Assigns(new, env, dst, vals)
  PROVE  new = Source!Assign(env, dst, vals)
<1> USE DEF Assigns
<1>1. PICK D : D = DOMAIN dst /\ D = 1 .. Len(dst)
  OBVIOUS
<1>2. ASSUME NEW v \in VRegs
      PROVE  new[v] = IF \E i \in D : dst[i] = v THEN vals[CHOOSE i \in D : dst[i] = v] ELSE env[v]
  <2>1. CASE \E i \in D : dst[i] = v
    <3>1. PICK i \in D : i = CHOOSE j \in D : dst[j] = v
      BY <2>1
    <3>2. dst[i] = v
      BY <2>1, <3>1
    <3> QED
      BY <1>1, <2>1, <3>1, <3>2
  <2>2. CASE ~\E i \in D : dst[i] = v
    BY <1>1, <2>2
  <2> QED
    BY <2>1, <2>2
<1>3. Source!Assign(env, dst, vals) = [v \in VRegs |-> IF \E i \in D : dst[i] = v
                                         THEN vals[CHOOSE i \in D : dst[i] = v] ELSE env[v]]
  BY <1>1 DEF Source!Assign
<1> QED
  BY <1>2, <1>3

\* Nothing is left to arrive.
LEMMA Settled ==
  ASSUME NEW R, NEW act \in Activations, NEW s, NEW lo \in Nat, NEW nf \in Nat, NEW env,
         Arrives(R, act, s, lo, nf, env), act.pc > lo + nf
  PROVE  env = [v \in VRegs |-> ReadOf(R, act, v)]
<1>1. \A i \in 1 .. nf : ~(act.pc <= lo + i)
  BY ActivationParts
<1>2. /\ env = [v \in VRegs |-> env[v]]
      /\ \A v \in VRegs : (\A i \in 1 .. nf : act.pc <= lo + i => FromVars(module[act.g], s)[i] # v)
                             => env[v] = ReadOf(R, act, v)
  BY DEF Arrives
<1>3. \A v \in VRegs : env[v] = ReadOf(R, act, v)
  BY <1>1, <1>2
<1> QED
  BY <1>2, <1>3

\* An activation that executes statement s, as the source sees it.
Shown(R, act, s, env) ==
  /\ Frame(R, act, TRUE) = [g |-> act.g, at |-> s, env |-> env]
  /\ env = [v \in VRegs |-> env[v]]

\* The frame of the activation on top.
LEMMA TopFrame ==
  ASSUME Lowered, CodeInv, stage = "run", NEW act \in Activations, NEW R, NEW s, NEW b, TopAt(R, act, s, b),
         NEW lo \in Nat, NEW hi \in Nat, NEW nf \in Nat, NEW ni \in Nat,
         Spot(code[act.g], module[act.g], b, s, lo, hi, nf, ni)
  PROVE  \E env : Shown(R, act, s, env) /\ Arrives(R, act, s, lo, nf, env)
<1>1. SourceAt(act, TRUE) = s /\ Arrives(R, act, s, lo, nf, EnvOf(R, act, TRUE))
  BY TopView
<1>2. PICK env : env = EnvOf(R, act, TRUE)
  OBVIOUS
<1>3. Shown(R, act, s, env)
  BY <1>1, <1>2 DEF Shown, Frame, Arrives
<1> QED
  BY <1>1, <1>2, <1>3

\* Where an execution is, in the parts other lemmas ask for.
LEMMA TopSituated ==
  ASSUME NEW n \in Nat \ {0}, NEW act \in Activations, NEW s, NEW b, NEW lo \in Nat,
         NEW hi \in Nat, NEW nf \in Nat, NEW ni \in Nat, Situated(n, act, s, b, lo, hi, nf, ni)
  PROVE  /\ TopAt(regs, act, s, b) /\ Spot(code[act.g], module[act.g], b, s, lo, hi, nf, ni)
         /\ act.g \in DOMAIN module /\ s \in 1 .. Len(module[act.g].body) /\ hi = b[s] /\ act.pc <= hi
         /\ nf = Len(FromVars(module[act.g], s)) /\ ni = Len(Ins(module[act.g].body[s]))
         /\ hi = lo + nf + ni + 1 /\ n = Len(stack) /\ act = stack[n]
         /\ Laid(code[act.g], module[act.g], Len(module[act.g].body), b)
<1>1. PICK fn : fn = module[act.g]
  OBVIOUS
<1>2. /\ s \in 1 .. Len(fn.body) /\ Laid(code[act.g], fn, Len(fn.body), b)
      /\ Spot(code[act.g], fn, b, s, lo, hi, nf, ni) /\ lo < act.pc /\ act.pc <= hi
      /\ \A i \in 1 .. ni :
           lo + nf + i < act.pc => regs[ToRegs(fn.body[s])[i]] = ReadOf(regs, act, Ins(fn.body[s])[i])
      /\ n = Len(stack) /\ act = stack[n]
  BY <1>1, Zenon DEF Situated
<1>3. lo = b[s - 1] /\ hi = b[s] /\ nf = Len(FromVars(fn, s)) /\ ni = Len(Ins(fn.body[s])) /\ hi = lo + nf + ni + 1
  BY <1>2, Zenon DEF Spot
<1>4. TopAt(regs, act, s, b)
  BY <1>1, <1>2, <1>3, Zenon DEF TopAt
<1>5. act.g \in DOMAIN module
  BY ActivationParts
<1> QED
  BY <1>1, <1>2, <1>3, <1>4, <1>5, Zenon

\* What arrives at a statement.
LEMMA Arriving ==
  ASSUME Lowered, CodeInv, stage = "run", NEW g \in DOMAIN module, NEW s \in 1 .. Len(module[g].body), NEW i \in 1 .. Len(FromVars(module[g], s))
  PROVE  /\ FromVars(module[g], s)[i] \in VRegs /\ FromRegs(s)[i] \in Clobbered
         /\ \A j \in 1 .. Len(FromVars(module[g], s)) :
              FromVars(module[g], s)[i] = FromVars(module[g], s)[j] => i = j
<1>1. module[g] \in Function /\ AssembledTo(code[g], module[g])
  BY Program
<1>2. FromVars(module[g], s)[i] \in VRegs /\ FromRegs(s)[i] \in Clobbered
  BY <1>1, FromInsns
<1>3. \A j \in 1 .. Len(FromVars(module[g], s)) : FromVars(module[g], s)[i] = FromVars(module[g], s)[j] => i = j
  BY FromDistinct
<1> QED
  BY <1>2, <1>3

\* Registers that the activations below see are kept, and this is what is on
\* top.
Replaces(n, act, a) ==
  /\ stack' = [stack EXCEPT ![n] = a]
  /\ (\A v \in VRegs : home[act.g][v] = Slot) => \A r \in CSR : regs'[r] = regs[r]

\* To copy what has arrived is nothing to the source.
LEMMA CopyFromSame ==
  ASSUME InProgram, ExecCopyFrom, NEW n \in Nat \ {0}, NEW act \in Activations, NEW s, NEW b, NEW lo \in Nat,
         NEW hi \in Nat, NEW nf \in Nat, NEW ni \in Nat, Situated(n, act, s, b, lo, hi, nf, ni)
  PROVE  \E a \in Activations : Replaces(n, act, a) /\ Frame(regs', a, TRUE) = Frame(regs, act, TRUE)
<1>0. PICK j \in 1 .. nf : \E a \in Activations : BringsIn(n, act, a, s, b, lo, j)
  BY CopyFromEffect
<1>00. PICK a \in Activations : BringsIn(n, act, a, s, b, lo, j)
  BY <1>0
<1>1. /\ act.pc = lo + j /\ FromVars(module[act.g], s)[j] \in VRegs
      /\ Wrote(n, act, a, FromVars(module[act.g], s)[j], regs[FromRegs(s)[j]])
      /\ TopAt(regs', a, s, b)
  BY <1>00, Zenon DEF BringsIn
<1>2. PICK fv, fr : fv = FromVars(module[act.g], s) /\ fr = FromRegs(s)
  OBVIOUS
<1>3. /\ stack' = [stack EXCEPT ![n] = a] /\ a.g = act.g /\ a.pc = act.pc + 1
      /\ regs' \in RegFiles /\ \A r \in Clobbered : regs'[r] = regs[r]
      /\ ReadOf(regs', a, fv[j]) = regs[fr[j]]
      /\ \A w \in VRegs : w # fv[j] => ReadOf(regs', a, w) = ReadOf(regs, act, w)
      /\ home[act.g][fv[j]] = Slot => regs' = regs
  BY <1>1, <1>2, Zenon DEF Wrote
<1>4. /\ TopAt(regs, act, s, b) /\ Spot(code[act.g], module[act.g], b, s, lo, hi, nf, ni)
      /\ act.g \in DOMAIN module /\ s \in 1 .. Len(module[act.g].body) /\ nf = Len(FromVars(module[act.g], s))
  BY TopSituated, Zenon
<1>5. Spot(code[a.g], module[a.g], b, s, lo, hi, nf, ni)
  BY <1>3, <1>4
<1>6. PICK e1 : Shown(regs, act, s, e1) /\ Arrives(regs, act, s, lo, nf, e1)
  BY <1>4, TopFrame DEF InProgram
<1>7. PICK e2 : Shown(regs', a, s, e2) /\ Arrives(regs', a, s, lo, nf, e2)
  BY <1>1, <1>5, TopFrame DEF InProgram
<1>8. /\ \A i \in 1 .. nf : act.pc <= lo + i => e1[fv[i]] = regs[fr[i]]
      /\ \A v \in VRegs : (\A i \in 1 .. nf : act.pc <= lo + i => fv[i] # v) => e1[v] = ReadOf(regs, act, v)
  BY <1>2, <1>6, Zenon DEF Arrives
<1>9. /\ \A i \in 1 .. nf : a.pc <= lo + i => e2[fv[i]] = regs'[fr[i]]
      /\ \A v \in VRegs : (\A i \in 1 .. nf : a.pc <= lo + i => fv[i] # v) => e2[v] = ReadOf(regs', a, v)
  BY <1>2, <1>3, <1>7, Zenon DEF Arrives
<1>10. \A i \in 1 .. nf : fr[i] \in Clobbered /\ (fv[i] = fv[j] => i = j)
  BY <1>2, <1>4, Arriving DEF InProgram
<1>11. \A i \in 1 .. nf : act.pc <= lo + i <=> i = j \/ a.pc <= lo + i
  BY <1>1, <1>3
<1>12. ~(a.pc <= lo + j)
  BY <1>1, <1>3
<1>13. ASSUME NEW v \in VRegs PROVE e1[v] = e2[v]
  <2>1. CASE v = fv[j]
    <3>1. e1[v] = regs[fr[j]]
      BY <1>8, <1>11, <2>1
    <3>2. \A i \in 1 .. nf : a.pc <= lo + i => fv[i] # v
      BY <1>10, <1>12, <2>1
    <3>3. e2[v] = ReadOf(regs', a, v)
      BY <1>9, <3>2
    <3> QED
      BY <1>3, <2>1, <3>1, <3>3
  <2>2. CASE v # fv[j] /\ \E i \in 1 .. nf : a.pc <= lo + i /\ fv[i] = v
    <3>1. PICK i \in 1 .. nf : a.pc <= lo + i /\ fv[i] = v
      BY <2>2
    <3>2. e2[v] = regs'[fr[i]] /\ e1[v] = regs[fr[i]]
      BY <1>8, <1>9, <1>11, <3>1
    <3> QED
      BY <1>3, <1>10, <3>2
  <2>3. CASE v # fv[j] /\ ~\E i \in 1 .. nf : a.pc <= lo + i /\ fv[i] = v
    <3>1. \A i \in 1 .. nf : act.pc <= lo + i => fv[i] # v
      BY <1>11, <2>3
    <3>2. e1[v] = ReadOf(regs, act, v)
      BY <1>8, <3>1
    <3>3. e2[v] = ReadOf(regs', a, v)
      BY <1>9, <2>3
    <3> QED
      BY <1>3, <2>3, <3>2, <3>3
  <2> QED
    BY <2>1, <2>2, <2>3
<1>14. e1 = e2
  BY <1>6, <1>7, <1>13 DEF Shown
<1>15. Frame(regs', a, TRUE) = Frame(regs, act, TRUE)
  BY <1>3, <1>6, <1>7, <1>14 DEF Shown
<1>16. Replaces(n, act, a)
  BY <1>1, <1>2, <1>3 DEF Replaces
<1> QED
  BY <1>15, <1>16

\* Neither are the copies of arguments and results.
LEMMA CopyToSame ==
  ASSUME InProgram, ExecCopyTo, NEW n \in Nat \ {0}, NEW act \in Activations, NEW s, NEW b, NEW lo \in Nat,
         NEW hi \in Nat, NEW nf \in Nat, NEW ni \in Nat, Situated(n, act, s, b, lo, hi, nf, ni)
  PROVE  \E a \in Activations : Replaces(n, act, a) /\ Frame(regs', a, TRUE) = Frame(regs, act, TRUE)
<1>1. PICK a \in Activations :
        /\ act.pc > lo + nf /\ act.pc < hi
        /\ stack' = [stack EXCEPT ![n] = a] /\ a.g = act.g /\ a.pc = act.pc + 1 /\ a.slots = act.slots
        /\ regs' \in RegFiles /\ \A r \in CSR : regs'[r] = regs[r]
        /\ TopAt(regs', a, s, b)
  BY CopyToEffect, Zenon
<1>2. /\ TopAt(regs, act, s, b) /\ Spot(code[act.g], module[act.g], b, s, lo, hi, nf, ni)
  BY TopSituated, Zenon
<1>3. Spot(code[a.g], module[a.g], b, s, lo, hi, nf, ni)
  BY <1>1, <1>2
<1>4. PICK e1 : Shown(regs, act, s, e1) /\ Arrives(regs, act, s, lo, nf, e1)
  BY <1>2, TopFrame DEF InProgram
<1>5. PICK e2 : Shown(regs', a, s, e2) /\ Arrives(regs', a, s, lo, nf, e2)
  BY <1>1, <1>3, TopFrame DEF InProgram
<1>6. e1 = [v \in VRegs |-> ReadOf(regs, act, v)]
  BY <1>1, <1>4, Settled
<1>7. e2 = [v \in VRegs |-> ReadOf(regs', a, v)]
  <2>1. a.pc > lo + nf
    BY <1>1, ActivationParts
  <2> QED
    BY <1>5, <2>1, Settled
<1>8. \A v \in VRegs : ReadOf(regs', a, v) = ReadOf(regs, act, v)
  BY <1>1, ReadsKept
<1>9. e1 = e2
  BY <1>6, <1>7, <1>8
<1>10. Frame(regs', a, TRUE) = Frame(regs, act, TRUE)
  BY <1>1, <1>4, <1>5, <1>9 DEF Shown
<1>11. Replaces(n, act, a)
  BY <1>1 DEF Replaces
<1> QED
  BY <1>10, <1>11

Env(R, act) == [v \in VRegs |-> ReadOf(R, act, v)]

\* The instruction that does a statement sees the variables of the source.
LEMMA MarkerShown ==
  ASSUME InProgram, NEW n \in Nat \ {0}, NEW act \in Activations, NEW s, NEW b, NEW lo \in Nat,
         NEW hi \in Nat, NEW nf \in Nat, NEW ni \in Nat, Situated(n, act, s, b, lo, hi, nf, ni), act.pc = hi
  PROVE  Shown(regs, act, s, Env(regs, act))
<1>1. TopAt(regs, act, s, b) /\ Spot(code[act.g], module[act.g], b, s, lo, hi, nf, ni) /\ hi = lo + nf + ni + 1
  BY TopSituated, Zenon
<1>2. PICK e : Shown(regs, act, s, e) /\ Arrives(regs, act, s, lo, nf, e)
  BY <1>1, TopFrame DEF InProgram
<1>3. act.pc > lo + nf
  BY <1>1
<1>4. e = Env(regs, act)
  BY <1>2, <1>3, Settled DEF Env
<1> QED
  BY <1>2, <1>4

\* No variable gets a new value.
LEMMA NoneAssigned ==
  ASSUME NEW new, new = [v \in VRegs |-> new[v]], NEW vals
  PROVE  Source!Assign(new, << >>, vals) = new
<1>1. << >> \in Seq(VRegs) /\ \A i \in 1 .. Len(<< >>) : FALSE
  OBVIOUS
<1>2. Assigns(new, new, << >>, vals)
  BY <1>1 DEF Assigns
<1> QED
  BY <1>1, <1>2, Assigned

\* After a statement its results arrive.
LEMMA AfterStatement ==
  ASSUME InProgram, NEW a \in Activations, NEW s \in 1 .. Len(module[a.g].body), NEW b,
         s + 1 \in 1 .. Len(module[a.g].body), a.pc = b[s] + 1, NEW R, TopAt(R, a, s + 1, b),
         NEW env, \A v \in VRegs : env[v] = ReadOf(R, a, v), NEW vals,
         \A i \in 1 .. Len(Outs(module[a.g].body[s])) : vals[i] = R[RetRegs[i]]
  PROVE  Shown(R, a, s + 1, Source!Assign(env, Outs(module[a.g].body[s]), vals))
<1>1. a.g \in DOMAIN module
  BY ActivationParts
<1>2. PICK fn \in Function : fn = module[a.g]
  BY <1>1, Program DEF InProgram
<1>3. PICK t \in Nat : t = s + 1 /\ t # 1 /\ t - 1 = s /\ t \in 1 .. Len(fn.body)
  BY <1>2
<1>4. Laid(code[a.g], fn, Len(fn.body), b)
  BY <1>2, Zenon DEF TopAt
<1>5. PICK lo \in Nat, hi \in Nat, nf \in Nat, ni \in Nat : Spot(code[a.g], fn, b, t, lo, hi, nf, ni)
  BY <1>3, <1>4, Spots, Zenon
<1>6. lo = b[s] /\ nf = Len(FromVars(fn, t))
  BY <1>3, <1>5, Zenon DEF Spot
<1>7. PICK dst : dst = Outs(fn.body[s])
  OBVIOUS
<1>8. FromVars(fn, t) = dst /\ FromRegs(t) = RetRegs
  BY <1>3, <1>7 DEF FromVars, FromRegs
<1>9. PICK e : Shown(R, a, t, e) /\ Arrives(R, a, t, lo, nf, e)
  BY <1>2, <1>3, <1>5, TopFrame DEF InProgram
<1>10. /\ e = [v \in VRegs |-> e[v]]
       /\ \A i \in 1 .. nf : a.pc <= lo + i => e[dst[i]] = R[RetRegs[i]]
       /\ \A v \in VRegs : (\A i \in 1 .. nf : a.pc <= lo + i => dst[i] # v) => e[v] = ReadOf(R, a, v)
  BY <1>2, <1>8, <1>9, Zenon DEF Arrives
<1>11. a.pc = lo + 1 /\ \A i \in 1 .. nf : a.pc <= lo + i
  BY <1>6
<1>12. dst \in Seq(VRegs) /\ nf = Len(dst)
  <2>1. fn.body[s] \in Statement
    BY <1>2, BodyTypes
  <2> QED
    BY <1>6, <1>7, <1>8, <2>1, StatementParts
<1>13. \A i \in 1 .. Len(dst) : \A j \in 1 .. Len(dst) : dst[i] = dst[j] => i = j
  BY <1>1, <1>2, <1>3, <1>8, Arriving DEF InProgram
<1>14. \A i \in 1 .. Len(dst) : e[dst[i]] = vals[i]
  BY <1>2, <1>7, <1>10, <1>11, <1>12
<1>15. \A v \in VRegs : (\A i \in 1 .. Len(dst) : dst[i] # v) => e[v] = env[v]
  BY <1>10, <1>12
<1>16. e = Source!Assign(env, dst, vals)
  <2>1. Assigns(e, env, dst, vals)
    BY <1>10, <1>13, <1>14, <1>15, Zenon DEF Assigns
  <2> QED
    BY <1>12, <2>1, Assigned
<1> QED
  BY <1>2, <1>3, <1>7, <1>9, <1>16

\* A statement that gives the variables of dst the values vals.
Computes(n, act, a, s, dst, vals) ==
  /\ Shown(regs, act, s, Env(regs, act)) /\ Replaces(n, act, a) /\ a.g = act.g
  /\ Shown(regs', a, s + 1, Source!Assign(Env(regs, act), dst, vals))

\* LD_imm64 is an assignment.
LEMMA LoadImmShown ==
  ASSUME InProgram, ExecLoadImm, NEW n \in Nat \ {0}, NEW act \in Activations, NEW s, NEW b, NEW lo \in Nat,
         NEW hi \in Nat, NEW nf \in Nat, NEW ni \in Nat, Situated(n, act, s, b, lo, hi, nf, ni)
  PROVE  /\ module[act.g].body[s].k = "const"
         /\ \E a \in Activations :
              Computes(n, act, a, s, <<module[act.g].body[s].dst>>, <<module[act.g].body[s].val>>)
<1>1. PICK st : st = module[act.g].body[s]
  OBVIOUS
<1>0. PICK a \in Activations : Loads(n, act, a, s, b, hi)
  BY LoadImmEffect
<1>2. st.k = "const" /\ st.dst \in VRegs /\ act.pc = hi
  BY <1>0, <1>1, Zenon DEF Loads
<1>3. /\ Wrote(n, act, a, st.dst, st.val)
      /\ s + 1 \in 1 .. Len(module[act.g].body) /\ TopAt(regs', a, s + 1, b)
  BY <1>0, <1>1, Zenon DEF Loads
<1>4. /\ stack' = [stack EXCEPT ![n] = a] /\ a.g = act.g /\ a.pc = act.pc + 1
      /\ regs' \in RegFiles /\ \A r \in Clobbered : regs'[r] = regs[r]
      /\ ReadOf(regs', a, st.dst) = st.val
      /\ \A w \in VRegs : w # st.dst => ReadOf(regs', a, w) = ReadOf(regs, act, w)
      /\ home[act.g][st.dst] = Slot => regs' = regs
  BY <1>3, Zenon DEF Wrote
<1>5. Shown(regs, act, s, Env(regs, act))
  BY <1>2, MarkerShown
<1>6. Outs(st) = << >>
  BY <1>2 DEF Outs
<1>7. PICK env : env = Env(regs', a)
  OBVIOUS
<1>8. env = [v \in VRegs |-> env[v]] /\ \A v \in VRegs : env[v] = ReadOf(regs', a, v)
  BY <1>7 DEF Env
<1>9. Shown(regs', a, s + 1, Source!Assign(env, << >>, << >>))
  <2>1. s \in 1 .. Len(module[a.g].body) /\ a.pc = b[s] + 1 /\ s + 1 \in 1 .. Len(module[a.g].body)
    <3>1. s \in 1 .. Len(module[act.g].body) /\ hi = b[s]
      BY TopSituated, Zenon
    <3> QED
      BY <1>2, <1>3, <1>4, <3>1
  <2>2. \A i \in 1 .. Len(<< >>) : FALSE
    OBVIOUS
  <2>3. Outs(module[a.g].body[s]) = << >>
    BY <1>1, <1>4, <1>6
  <2> QED
    BY <1>3, <1>8, <2>1, <2>2, <2>3, AfterStatement
<1>10. env = Source!Assign(Env(regs, act), <<st.dst>>, <<st.val>>)
  <2>0. PICK w \in VRegs : w = st.dst
    BY <1>2
  <2>1. PICK d, x : d = <<st.dst>> /\ x = <<st.val>>
    OBVIOUS
  <2>2. Len(d) = 1 /\ d[1] = st.dst /\ x[1] = st.val
    BY <2>1
  <2>3. \A v \in VRegs : Env(regs, act)[v] = ReadOf(regs, act, v)
    BY DEF Env
  <2>4. \A i \in 1 .. Len(d) : i = 1
    BY <2>2
  <2>5. \A i \in 1 .. Len(d) : env[d[i]] = x[i]
    BY <1>2, <1>4, <1>8, <2>2, <2>4
  <2>6. \A v \in VRegs : (\A i \in 1 .. Len(d) : d[i] # v) => env[v] = Env(regs, act)[v]
    BY <1>4, <1>8, <2>2, <2>3
  <2>7. \A i \in 1 .. Len(d) : \A j \in 1 .. Len(d) : d[i] = d[j] => i = j
    BY <2>4
  <2>8. Assigns(env, Env(regs, act), d, x)
    BY <1>8, <2>5, <2>6, <2>7, Zenon DEF Assigns
  <2>9. d \in Seq(VRegs)
    BY <2>0, <2>1
  <2> QED
    BY <2>1, <2>8, <2>9, Assigned
<1>11. Shown(regs', a, s + 1, Source!Assign(Env(regs, act), <<st.dst>>, <<st.val>>))
  BY <1>8, <1>9, <1>10, NoneAssigned
<1>12. Replaces(n, act, a)
  BY <1>2, <1>4 DEF Replaces
<1>13. Computes(n, act, a, s, <<st.dst>>, <<st.val>>)
  BY <1>4, <1>5, <1>11, <1>12, Zenon DEF Computes
<1> QED
  BY <1>1, <1>2, <1>13

\* A call of the kernel.
KernelCalled(n, act, a, s, w) ==
  LET st == module[act.g].body[s]
  IN  /\ st.k = "call" /\ st.callee.k # "function" /\ Stmt = st
      /\ Computes(n, act, a, s, st.dst, <<w>>)
      /\ Len(st.args) \in Nat /\ DOMAIN st.args = 1 .. Len(st.args)
      /\ \A i \in 1 .. Len(st.args) : regs[ArgRegs[i]] = Env(regs, act)[st.args[i]]

\* After a call of the kernel its result arrives, and nothing else has changed.
LEMMA CallKernelShown ==
  ASSUME InProgram, NEW w \in Values, CallKernel(w), NEW n \in Nat \ {0}, NEW act \in Activations, NEW s, NEW b,
         NEW lo \in Nat, NEW hi \in Nat, NEW nf \in Nat, NEW ni \in Nat, Situated(n, act, s, b, lo, hi, nf, ni)
  PROVE  \E a \in Activations : KernelCalled(n, act, a, s, w)
<1>1. PICK st : st = module[act.g].body[s]
  OBVIOUS
<1>2. PICK a \in Activations : KernelReturns(n, act, a, s, b, w)
  BY CallKernelEffect
<1>3. /\ st.k = "call" /\ st.callee.k # "function"
      /\ regs' \in RegFiles /\ regs'["R0"] = w /\ (\A r \in CSR : regs'[r] = regs[r])
      /\ stack' = [stack EXCEPT ![n] = a] /\ a.g = act.g /\ a.pc = act.pc + 1 /\ a.slots = act.slots
      /\ s + 1 \in 1 .. Len(module[act.g].body) /\ TopAt(regs', a, s + 1, b)
  BY <1>1, <1>2, Zenon DEF KernelReturns
<1>4. CallHere(n, act, s, b, hi, ni, st)
  <2>1. Here.op = "JAL"
    BY DEF CallKernel, Running
  <2> QED
    BY <1>1, <2>1, AtCall, Zenon
<1>5. /\ st \in Statement /\ Stmt = st /\ act.pc = hi /\ hi = b[s]
      /\ act.g \in DOMAIN module /\ s \in 1 .. Len(module[act.g].body)
      /\ ni = Len(st.args) /\ InRegisters(st) /\ Ins(st) = st.args
      /\ \A i \in 1 .. ni : regs[ArgRegs[i]] = ReadOf(regs, act, st.args[i])
  BY <1>4, Zenon DEF CallHere
<1>6. Shown(regs, act, s, Env(regs, act))
  BY <1>5, MarkerShown
<1>7. Outs(st) = st.dst /\ Outs(st) \in Seq(VRegs) /\ Ins(st) \in Seq(VRegs)
  BY <1>3, <1>5, StatementParts DEF Outs
<1>8. DOMAIN st.args = 1 .. Len(st.args) /\ Len(st.args) \in Nat
  BY <1>5, <1>7, LenProperties
<1>9. \A i \in 1 .. Len(st.args) : regs[ArgRegs[i]] = Env(regs, act)[st.args[i]]
  <2>1. \A i \in 1 .. Len(st.args) : st.args[i] \in VRegs
    BY <1>5, <1>7, ElementOfSeq
  <2> QED
    BY <1>5, <2>1 DEF Env
<1>10. \A v \in VRegs : Env(regs, act)[v] = ReadOf(regs', a, v)
  BY <1>3, ReadsKept DEF Env
<1>11. PICK vals : vals = <<w>>
  OBVIOUS
<1>11a. vals[1] = w
  <2>1. <<w>>[1] = w
    OBVIOUS
  <2> QED
    BY <1>11, <2>1
<1>12. \A i \in 1 .. Len(Outs(st)) : vals[i] = regs'[RetRegs[i]]
  <2>1. PICK l \in Nat : l = Len(Outs(st)) /\ l <= 1
    BY <1>5, <1>7 DEF InRegisters
  <2>2. \A i \in 1 .. l : i = 1
    BY <2>1
  <2> QED
    BY <1>3, <1>11a, <2>1, <2>2, Registers
<1>13. Shown(regs', a, s + 1, Source!Assign(Env(regs, act), st.dst, <<w>>))
  <2>1. /\ s \in 1 .. Len(module[a.g].body) /\ s + 1 \in 1 .. Len(module[a.g].body) /\ a.pc = b[s] + 1
        /\ module[a.g].body[s] = st
    BY <1>1, <1>3, <1>5
  <2>2. \A i \in 1 .. Len(Outs(module[a.g].body[s])) : vals[i] = regs'[RetRegs[i]]
    BY <1>12, <2>1
  <2>3. Shown(regs', a, s + 1, Source!Assign(Env(regs, act), Outs(module[a.g].body[s]), vals))
    BY <1>3, <1>10, <2>1, <2>2, AfterStatement
  <2> QED
    BY <1>7, <1>11, <2>1, <2>3
<1>14. Replaces(n, act, a)
  BY <1>3 DEF Replaces
<1>15. Computes(n, act, a, s, st.dst, <<w>>)
  BY <1>3, <1>6, <1>13, <1>14, Zenon DEF Computes
<1>16. KernelCalled(n, act, a, s, w)
  BY <1>1, <1>3, <1>5, <1>8, <1>9, <1>15, Zenon DEF KernelCalled
<1> QED
  BY <1>16

\* A function starts with its parameters and nothing else.
LEMMA EntryShown ==
  ASSUME Lowered, CodeInv, stage = "run", NEW e \in Activations, e.pc = 1, NEW R, NEW b, TopAt(R, e, 1, b), NEW vals,
         \A i \in 1 .. Len(module[e.g].params) : vals[i] = R[ArgRegs[i]], \A v \in VRegs : ReadOf(R, e, v) = Junk
  PROVE  Shown(R, e, 1, Source!Assign(Source!Fresh, module[e.g].params, vals))
<1>1. e.g \in DOMAIN module
  BY ActivationParts
<1>2. PICK fn \in Function : fn = module[e.g]
  BY <1>1, Program
<1>3. Laid(code[e.g], fn, Len(fn.body), b) /\ 1 \in 1 .. Len(fn.body)
  BY <1>2, Zenon DEF TopAt
<1>4. PICK lo \in Nat, hi \in Nat, nf \in Nat, ni \in Nat : Spot(code[e.g], fn, b, 1, lo, hi, nf, ni)
  BY <1>3, Spots, Zenon
<1>5. lo = 0 /\ nf = Len(FromVars(fn, 1))
  <2>1. lo = b[1 - 1] /\ nf = Len(FromVars(fn, 1))
    BY <1>4, Zenon DEF Spot
  <2>2. 1 - 1 = 0 /\ b[0] = 0
    BY <1>3 DEF Laid
  <2> QED
    BY <2>1, <2>2
<1>6. PICK ps \in Seq(VRegs) : ps = fn.params
  BY DEF Function
<1>7. FromVars(fn, 1) = ps /\ FromRegs(1) = ArgRegs
  BY <1>6 DEF FromVars, FromRegs
<1>8. PICK env : Shown(R, e, 1, env) /\ Arrives(R, e, 1, lo, nf, env)
  BY <1>2, <1>4, TopFrame
<1>9. /\ env = [v \in VRegs |-> env[v]]
      /\ \A i \in 1 .. nf : e.pc <= lo + i => env[ps[i]] = R[ArgRegs[i]]
      /\ \A v \in VRegs : (\A i \in 1 .. nf : e.pc <= lo + i => ps[i] # v) => env[v] = ReadOf(R, e, v)
  BY <1>2, <1>7, <1>8, Zenon DEF Arrives
<1>10. \A i \in 1 .. nf : e.pc <= lo + i
  BY <1>5
<1>11. \A i \in 1 .. Len(ps) : \A j \in 1 .. Len(ps) : ps[i] = ps[j] => i = j
  BY <1>1, <1>2, <1>3, <1>7, Arriving
<1>12. \A i \in 1 .. Len(ps) : env[ps[i]] = vals[i]
  BY <1>2, <1>5, <1>6, <1>7, <1>9, <1>10
<1>13. \A v \in VRegs : (\A i \in 1 .. Len(ps) : ps[i] # v) => env[v] = Source!Fresh[v]
  BY <1>5, <1>7, <1>9 DEF Source!Fresh
<1>14. Assigns(env, Source!Fresh, ps, vals)
  BY <1>9, <1>11, <1>12, <1>13, Zenon DEF Assigns
<1>15. env = Source!Assign(Source!Fresh, ps, vals)
  BY <1>14, Assigned
<1> QED
  BY <1>2, <1>6, <1>8, <1>15

\* What a statement passes on.
Passed(act, vs) == [i \in DOMAIN vs |-> Env(regs, act)[vs[i]]]

\* A call of a function.
FunctionCalled(n, act, a, e, s, g) ==
  LET st == module[act.g].body[s]
  IN  /\ CallsFunction(st, g) /\ stack' = Append([stack EXCEPT ![n] = a], e) /\ e.g = g
      /\ Shown(regs, act, s, Env(regs, act)) /\ Frame(regs, a, FALSE) = Frame(regs, act, TRUE)
      /\ Shown(regs, e, 1, Source!Assign(Source!Fresh, module[g].params, Passed(act, st.args)))

\* A function that is called starts with its arguments in its parameters.
LEMMA CallFunctionShown ==
  ASSUME KeepersNotCalled, InProgram, CallFunction, NEW n \in Nat \ {0}, NEW act \in Activations, NEW s, NEW b,
         NEW lo \in Nat, NEW hi \in Nat, NEW nf \in Nat, NEW ni \in Nat, Situated(n, act, s, b, lo, hi, nf, ni)
  PROVE  \E g : \E a \in Activations : \E e \in Activations : FunctionCalled(n, act, a, e, s, g)
<1>1. PICK st : st = module[act.g].body[s]
  OBVIOUS
<1>2. PICK g : \E a \in Activations : \E e \in Activations : CallsInto(n, act, a, e, s, b, g)
  BY CallFunctionEffect
<1>3. PICK a \in Activations, e \in Activations : CallsInto(n, act, a, e, s, b, g)
  BY <1>2
<1>4. /\ CallsFunction(st, g) /\ g \in DOMAIN module
      /\ stack' = Append([stack EXCEPT ![n] = a], e) /\ EntersAt(e, g)
      /\ a.g = act.g /\ a.slots = act.slots /\ Waiting(a, s, b, g)
      /\ \E b2 : TopAt(regs, e, 1, b2)
  BY <1>1, <1>3, Zenon DEF CallsInto
<1>5. e.g = g /\ e.pc = 1 /\ e.slots = [v \in VRegs |-> Junk]
  BY <1>4, Zenon DEF EntersAt
<1>6. CallHere(n, act, s, b, hi, ni, st)
  <2>1. Here.op = "JAL"
    BY DEF CallFunction, Running
  <2> QED
    BY <1>1, <2>1, AtCall, Zenon
<1>7. /\ st \in Statement /\ act.pc = hi /\ act.g \in DOMAIN module /\ s \in 1 .. Len(module[act.g].body)
      /\ ni = Len(st.args) /\ Ins(st) = st.args
      /\ \A i \in 1 .. ni : regs[ArgRegs[i]] = ReadOf(regs, act, st.args[i])
  BY <1>6, Zenon DEF CallHere
<1>8. Shown(regs, act, s, Env(regs, act))
  BY <1>7, MarkerShown
<1>9. Frame(regs, a, FALSE) = Frame(regs, act, TRUE)
  <2>1. SourceAt(a, FALSE) = s /\ EnvOf(regs, a, FALSE) = [v \in VRegs |-> ReadOf(regs, a, v)]
    BY <1>4, WaitView DEF InProgram
  <2>2. \A v \in VRegs : ReadOf(regs, a, v) = ReadOf(regs, act, v)
    <3>1. a.g = act.g /\ a.slots = act.slots /\ \A r \in CSR : regs[r] = regs[r]
      BY <1>4, Zenon
    <3>2. PICK R : R = regs
      OBVIOUS
    <3>3. \A v \in VRegs : ReadOf(R, a, v) = ReadOf(R, act, v)
      BY <3>1, <3>2, ReadsKept
    <3> QED
      BY <3>2, <3>3, Zenon
  <2>3. EnvOf(regs, a, FALSE) = Env(regs, act)
    BY <2>1, <2>2 DEF Env
  <2>4. Frame(regs, a, FALSE) = [g |-> act.g, at |-> s, env |-> Env(regs, act)]
    BY <1>4, <2>1, <2>3 DEF Frame
  <2> QED
    BY <1>8, <2>4 DEF Shown
<1>10. \A v \in VRegs : ReadOf(regs, e, v) = Junk
  <2>1. \A v \in VRegs : home[g][v] = Slot
    BY <1>1, <1>4, <1>7, NoKeeper DEF InProgram
  <2> QED
    BY <1>5, <2>1 DEF ReadOf
<1>11. st.args \in Seq(VRegs) /\ DOMAIN st.args = 1 .. Len(st.args) /\ Len(st.args) \in Nat
  BY <1>7, StatementParts, LenProperties
<1>12. Len(st.args) = Len(module[g].params)
  <2>1. st.k = "call" /\ st.callee.k = "function" /\ st.callee.n = g
    BY <1>4 DEF CallsFunction
  <2> QED
    BY <1>1, <1>7, <2>1, CalleeShape DEF InProgram
<1>13. PICK vals : vals = Passed(act, st.args)
  OBVIOUS
<1>14. \A i \in 1 .. Len(module[e.g].params) : vals[i] = regs[ArgRegs[i]]
  <2>1. \A i \in 1 .. Len(st.args) : st.args[i] \in VRegs
    BY <1>11, ElementOfSeq
  <2> QED
    BY <1>5, <1>7, <1>11, <1>12, <1>13, <2>1 DEF Passed, Env
<1>15. Shown(regs, e, 1, Source!Assign(Source!Fresh, module[e.g].params, vals))
  BY <1>4, <1>5, <1>10, <1>14, EntryShown DEF InProgram
<1>16. FunctionCalled(n, act, a, e, s, g)
  BY <1>1, <1>4, <1>5, <1>8, <1>9, <1>13, <1>15, Zenon DEF FunctionCalled
<1> QED
  BY <1>16

\* The program starts with nothing.
LEMMA EnterShown ==
  ASSUME Lowered, CodeInv, Executing, Enter
  PROVE  \E e \in Activations : stack' = <<e>> /\ regs' = regs /\ e.g = 1 /\ Shown(regs, e, 1, Source!Fresh)
<1>1. stage = "run" /\ regs = AtRest /\ regs' = regs
  BY EnterEffect DEF Enter
<1>2. PICK e \in Activations : EntersAt(e, 1) /\ stack' = <<e>> /\ \E b : TopAt(regs, e, 1, b)
  BY EnterEffect, Zenon
<1>3. PICK b : TopAt(regs, e, 1, b)
  BY <1>2
<1>4. e.g = 1 /\ e.pc = 1 /\ e.slots = [v \in VRegs |-> Junk]
  BY <1>2, Zenon DEF EntersAt
<1>5. 1 \in DOMAIN module
  BY <1>4, ActivationParts
<1>6. \A v \in VRegs : ReadOf(regs, e, v) = Junk
  <2>1. \A v \in VRegs : home[1][v] = Slot \/ home[1][v] \in Clobbered \cup CSR
    BY <1>5, RegisterSets DEF CodeInv, HomesApart
  <2> QED
    BY <1>1, <1>4, <2>1 DEF ReadOf, AtRest
<1>7. PICK fn \in Function : fn = module[1] /\ AssembledTo(code[1], fn)
  BY <1>1, <1>5, Program
<1>8. PICK ps \in Seq(VRegs) : ps = fn.params /\ Len(ps) <= 5
  BY <1>7 DEF Function, AssembledTo
<1>9. PICK vals : vals = [i \in 1 .. Len(ps) |-> Junk]
  OBVIOUS
<1>10. \A i \in 1 .. Len(ps) : i \in 1 .. 5 /\ vals[i] = Junk
  <2>1. PICK l \in Nat : l = Len(ps) /\ l <= 5
    BY <1>8, LenProperties
  <2> QED
    BY <1>9, <2>1
<1>11. \A i \in 1 .. Len(ps) : vals[i] = regs[ArgRegs[i]]
  BY <1>1, <1>10, Registers DEF AtRest
<1>12. Shown(regs, e, 1, Source!Assign(Source!Fresh, ps, vals))
  BY <1>1, <1>3, <1>4, <1>6, <1>7, <1>8, <1>11, EntryShown
<1>13. Source!Fresh = Source!Assign(Source!Fresh, ps, vals)
  <2>1. PICK F : F = Source!Fresh
    OBVIOUS
  <2>2. F = [v \in VRegs |-> Junk]
    BY <2>1 DEF Source!Fresh
  <2>3. \A i \in 1 .. Len(ps) : ps[i] \in VRegs
    BY <1>8, ElementOfSeq
  <2>4. \A i \in 1 .. Len(ps) : \A j \in 1 .. Len(ps) : ps[i] = ps[j] => i = j
    <3>1. module \in Modules
      BY TheFunction
    <3>2. IsInjective(ps)
      BY <1>5, <1>7, <1>8, <3>1, ModuleAssumption DEF WellFormed
    <3>3. DOMAIN ps = 1 .. Len(ps)
      BY <1>8, LenProperties
    <3> QED
      BY <3>2, <3>3 DEF IsInjective
  <2>5. Assigns(F, F, ps, vals)
    <3>1. \A i \in 1 .. Len(ps) : F[ps[i]] = vals[i]
      BY <1>10, <2>2, <2>3
    <3> QED
      BY <2>2, <2>4, <3>1 DEF Assigns
  <2> QED
    BY <1>8, <2>1, <2>5, Assigned
<1> QED
  BY <1>1, <1>2, <1>4, <1>12, <1>13

\* A return.
Returned(n, act, s) ==
  LET st == module[act.g].body[s]
  IN  /\ st.k = "ret" /\ Stmt = st /\ Top = n /\ stack' = SubSeq(stack, 1, n - 1)
      /\ stage' = IF n = 1 THEN "halt" ELSE "run"
      /\ Shown(regs, act, s, Env(regs, act))
      /\ Len(st.vals) \in Nat /\ DOMAIN st.vals = 1 .. Len(st.vals)
      /\ \A i \in 1 .. Len(st.vals) : i = 1 /\ regs["R0"] = Env(regs, act)[st.vals[i]]
      /\ regs'["R0"] = regs["R0"] /\ \A r \in CSR : regs'[r] = regs[r]

\* What a return gives is in R0, and the callee-saved registers are kept.
LEMMA ReturnShown ==
  ASSUME InProgram, Return, NEW n \in Nat \ {0}, NEW act \in Activations, NEW s, NEW b, NEW lo \in Nat,
         NEW hi \in Nat, NEW nf \in Nat, NEW ni \in Nat, Situated(n, act, s, b, lo, hi, nf, ni)
  PROVE  Returned(n, act, s)
<1>1. PICK st : st = module[act.g].body[s]
  OBVIOUS
<1>2. /\ st \in Statement /\ st.k = "ret" /\ Stmt = st /\ act.pc = hi /\ Top = n
      /\ ni = Len(st.vals) /\ \A i \in 1 .. ni : i = 1 /\ regs["R0"] = ReadOf(regs, act, st.vals[1])
      /\ regs'["R0"] = regs["R0"] /\ \A r \in CSR : regs'[r] = regs[r]
      /\ stack' = SubSeq(stack, 1, n - 1)
      /\ stage' = IF n = 1 THEN "halt" ELSE "run"
  <2>1. ReturnsFrom(n, act, s, hi, ni)
    BY ReturnEffect
  <2> QED
    BY <1>1, <2>1, Zenon DEF ReturnsFrom
<1>3. Shown(regs, act, s, Env(regs, act))
  BY <1>2, MarkerShown
<1>4. st.vals \in Seq(VRegs)
  BY <1>2, StatementParts DEF Ins
<1>5. DOMAIN st.vals = 1 .. Len(st.vals) /\ Len(st.vals) \in Nat
  BY <1>4, LenProperties
<1>6. \A i \in 1 .. Len(st.vals) : i = 1 /\ regs["R0"] = Env(regs, act)[st.vals[i]]
  <2>1. \A i \in 1 .. Len(st.vals) : st.vals[i] \in VRegs
    BY <1>4, ElementOfSeq
  <2> QED
    BY <1>2, <2>1 DEF Env
<1> QED
  BY <1>1, <1>2, <1>3, <1>5, <1>6, Zenon DEF Returned

\* The caller goes on with the results.
Resumes(n, act, c, x, vals) ==
  LET st == module[c.g].body[x]
  IN  /\ c = stack[n - 1] /\ CallsFunction(st, act.g)
      /\ Frame(regs, c, FALSE) = [g |-> c.g, at |-> x, env |-> Env(regs, c)]
      /\ Shown(regs', c, x + 1, Source!Assign(Env(regs, c), st.dst, vals))

\* The caller of an activation goes on behind its call with what is returned.
LEMMA ResumeShown ==
  ASSUME InProgram, NEW n \in Nat \ {0}, n = Len(stack), n # 1, NEW act \in Activations, act = stack[n],
         NEW s \in 1 .. Len(module[act.g].body), Returned(n, act, s)
  PROVE  \E c \in Activations : \E x : Resumes(n, act, c, x, Passed(act, module[act.g].body[s].vals))
<1>1. PICK m \in Nat \ {0} : m = n - 1 /\ n = m + 1
  OBVIOUS
<1>2. stack \in Seq(Activations) /\ m \in 1 .. n - 1 /\ m \in 1 .. n
  BY <1>1 DEF InProgram, Executing, RunOK
<1>3. PICK x, y : Waiting(stack[m], x, y, stack[m + 1].g)
  BY <1>2 DEF InProgram, Executing, RunOK
<1>4. PICK c \in Activations : c = stack[m]
  BY <1>2, ElementOfSeq
<1>5. Waiting(c, x, y, act.g)
  BY <1>1, <1>3, <1>4
<1>6. /\ c.g \in DOMAIN module /\ x \in 1 .. Len(module[c.g].body)
      /\ x + 1 \in 1 .. Len(module[c.g].body) /\ TopAt(regs', c, x + 1, y)
  BY <1>5, Resumed, Zenon
<1>7. PICK st : st = module[c.g].body[x]
  OBVIOUS
<1>8. CallsFunction(st, act.g) /\ c.pc = y[x] + 1
  BY <1>5, <1>7 DEF Waiting
<1>9. Frame(regs, c, FALSE) = [g |-> c.g, at |-> x, env |-> Env(regs, c)]
  BY <1>5, WaitView DEF InProgram, Frame, Env
<1>10. PICK ret : ret = module[act.g].body[s]
  OBVIOUS
<1>11. /\ ret.k = "ret" /\ Len(ret.vals) \in Nat /\ DOMAIN ret.vals = 1 .. Len(ret.vals)
       /\ \A i \in 1 .. Len(ret.vals) : i = 1 /\ regs["R0"] = Env(regs, act)[ret.vals[i]]
       /\ regs'["R0"] = regs["R0"] /\ \A r \in CSR : regs'[r] = regs[r]
  BY <1>10, Zenon DEF Returned
<1>12. Outs(st) = st.dst /\ Len(ret.vals) = Len(st.dst)
  <2>1. st.k = "call" /\ st.callee.k = "function" /\ st.callee.n = act.g
    BY <1>8 DEF CallsFunction
  <2>2. \A r \in 1 .. Len(module[act.g].body) : module[act.g].body[r].k = "ret" =>
                    Len(module[act.g].body[r].vals) = Len(st.dst)
    <3>1. /\ module[c.g].body[x].k = "call" /\ module[c.g].body[x].callee.k = "function"
          /\ module[c.g].body[x].callee.n = act.g
      BY <1>7, <2>1
    <3>2. PICK g \in DOMAIN module : g = c.g
      BY <1>6
    <3>3. LET t == module[g].body[x]
          IN  /\ t.callee.n \in DOMAIN module /\ Len(t.args) = Len(module[t.callee.n].params)
              /\ \A r \in 1 .. Len(module[t.callee.n].body) :
                   module[t.callee.n].body[r].k = "ret" =>
                     Len(module[t.callee.n].body[r].vals) = Len(t.dst)
      BY <1>6, <3>1, <3>2, CalleeShape DEF InProgram
    <3> QED
      BY <1>7, <3>1, <3>2, <3>3
  <2> QED
    BY <1>10, <1>11, <2>1, <2>2 DEF Outs
<1>13. PICK vals : vals = Passed(act, ret.vals)
  OBVIOUS
<1>14. \A i \in 1 .. Len(ret.vals) : vals[i] = regs'[RetRegs[i]]
  BY <1>11, <1>13, Registers DEF Passed
<1>15. \A v \in VRegs : Env(regs, c)[v] = ReadOf(regs', c, v)
  BY <1>11, ReadsKept DEF Env
<1>16. Shown(regs', c, x + 1, Source!Assign(Env(regs, c), Outs(module[c.g].body[x]), vals))
  <2>1. \A i \in 1 .. Len(Outs(module[c.g].body[x])) : vals[i] = regs'[RetRegs[i]]
    BY <1>7, <1>12, <1>14
  <2> QED
    BY <1>6, <1>8, <1>15, <2>1, AfterStatement
<1>17. Resumes(n, act, c, x, vals)
  BY <1>1, <1>4, <1>7, <1>8, <1>9, <1>12, <1>16, Zenon DEF Resumes
<1> QED
  BY <1>10, <1>13, <1>17

-----------------------------------------------------------------------------
(***************************************************************************)
(* The steps of the source.                                                *)
(***************************************************************************)

\* Where the source is.
SeenAt(n, g, s, env) ==
  /\ SourceStatus = "run" /\ Source!Top = n /\ Source!Cur = [g |-> g, at |-> s, env |-> env]
  /\ Source!Stmt = module[g].body[s]
  /\ SourceStack[n] = [g |-> g, at |-> s, env |-> env]
  /\ SourceStack = [d \in 1 .. n |-> SourceStack[d]]

\* The source is at the statement execution is at.
LEMMA SourceHere ==
  ASSUME InProgram, NEW n \in Nat \ {0}, n = Len(stack), NEW act \in Activations, act = stack[n],
         NEW s, NEW env, Shown(regs, act, s, env)
  PROVE  SeenAt(n, act.g, s, env)
<1>1. stack \in Seq(Activations) /\ stage = "run" /\ stack # << >>
  BY DEF InProgram, Executing, RunOK
<1>2. SourceStatus = "run"
  BY <1>1 DEF SourceStatus
<1>3. PICK V : V = SourceStack
  OBVIOUS
<1>4. Views(V, regs, stack, n)
  BY <1>1, <1>3, SourceView, ViewParts
<1>5. V = [d \in 1 .. n |-> V[d]] /\ Len(V) = n /\ V[n] = Frame(regs, stack[n], n = n)
  BY <1>4 DEF Views
<1>6. V[n] = [g |-> act.g, at |-> s, env |-> env]
  <2>1. (n = n) = TRUE
    OBVIOUS
  <2> QED
    BY <1>5, <2>1 DEF Shown
<1>7. Source!Top = n /\ Source!Cur = V[n]
  BY <1>3, <1>5 DEF Source!Top, Source!Cur
<1>8. Source!Stmt = module[act.g].body[s]
  BY <1>6, <1>7 DEF Source!Stmt
<1> QED
  BY <1>2, <1>3, <1>5, <1>6, <1>7, <1>8, Zenon DEF SeenAt

\* The activation on top changes, for the source.
LEMMA SourceReplaced ==
  ASSUME KeepersNotCalled, InProgram, NEW n \in Nat \ {0}, n = Len(stack), NEW act \in Activations, act = stack[n],
         NEW a \in Activations, Replaces(n, act, a), UNCHANGED <<module, code, home>>
  PROVE  SourceStack' = [SourceStack EXCEPT ![n] = Frame(regs', a, TRUE)]
<1>1. stack' = [stack EXCEPT ![n] = a] /\ (n = 1 \/ \A r \in CSR : regs'[r] = regs[r])
  BY CalledHasSlots DEF Replaces
<1>2. View(regs', stack') = [View(regs, stack) EXCEPT ![n] = Frame(regs', a, TRUE)]
  <2>1. PICK R2 : R2 = regs'
    OBVIOUS
  <2>2. n = 1 \/ \A r \in CSR : R2[r] = regs[r]
    BY <1>1, <2>1
  <2>3. TopBecomes(R2, n, a)
    BY <2>2, TopChanged
  <2> QED
    BY <1>1, <2>1, <2>3 DEF TopBecomes
<1> QED
  BY <1>2, SourceView

\* The program still runs.
LEMMA StillRunning ==
  ASSUME InProgram, NEW n \in Nat \ {0}, n = Len(stack), NEW a, stack' = [stack EXCEPT ![n] = a], stage' = stage
  PROVE  SourceStatus' = "run"
<1>1. stack \in Seq(Activations) /\ stage = "run"
  BY DEF InProgram, Executing, RunOK
<1>2. DOMAIN stack' = 1 .. n
  BY <1>1
<1>3. stack' # << >>
  BY <1>2
<1> QED
  BY <1>1, <1>3 DEF SourceStatus

\* The source goes to the next statement.
StepTo(g, s, old, e, x) ==
  [[g |-> g, at |-> s, env |-> old] EXCEPT !.at = x, !.env = e] = [g |-> g, at |-> x, env |-> e]

\* The record of the next statement.
LEMMA StepToRecord ==
  ASSUME NEW G, NEW S, NEW E, NEW g \in G, NEW s \in S, NEW x \in S, NEW old \in E, NEW e \in E
  PROVE  StepTo(g, s, old, e, x)
<1>1. PICK r \in [g : G, at : S, env : E] : r = [g |-> g, at |-> s, env |-> old]
  OBVIOUS
<1>2. r.g = g
  BY <1>1
<1>3. PICK q \in [g : G, at : S, env : E] : q = [r EXCEPT !.at = x, !.env = e]
  OBVIOUS
<1>4. q.g = g /\ q.at = x /\ q.env = e
  BY <1>2, <1>3
<1> QED
  BY <1>1, <1>3, <1>4 DEF StepTo

LEMMA StepRecord ==
  ASSUME NEW g, NEW s, NEW old, NEW e
  PROVE  Source!Step([g |-> g, at |-> s, env |-> old], e) = [g |-> g, at |-> s + 1, env |-> e]
<1>1. PICK x : x = s + 1
  OBVIOUS
<1>2. PICK G, S, E : G = {g} /\ S = {s, x} /\ E = {old, e}
  OBVIOUS
<1>3. g \in G /\ s \in S /\ x \in S /\ old \in E /\ e \in E
  BY <1>2
<1>4. PICK r : r = [g |-> g, at |-> s, env |-> old]
  OBVIOUS
<1>5. r.at = s
  BY <1>4
<1>6. StepTo(g, s, old, e, x)
  BY <1>3, StepToRecord
<1>7. [r EXCEPT !.at = x, !.env = e] = [g |-> g, at |-> x, env |-> e]
  BY <1>4, <1>6, Zenon DEF StepTo
<1> QED
  BY <1>1, <1>4, <1>5, <1>7, Zenon DEF Source!Step

\* A statement of the source that gives values to variables.
SourceComputes(n, act, s, dst, vals) ==
  /\ SeenAt(n, act.g, s, Env(regs, act)) /\ SourceStatus' = "run"
  /\ SourceStack' = [SourceStack EXCEPT ![n] = Source!Step(@, Source!Assign(@.env, dst, vals))]

\* A statement that computes does what the source says.
LEMMA ComputesStep ==
  ASSUME KeepersNotCalled, InProgram, NEW n \in Nat \ {0}, n = Len(stack), NEW act \in Activations, act = stack[n],
         NEW a \in Activations, NEW s, NEW dst, NEW vals, Computes(n, act, a, s, dst, vals),
         UNCHANGED <<module, code, home, stage>>
  PROVE  SourceComputes(n, act, s, dst, vals)
<1>1. /\ Shown(regs, act, s, Env(regs, act)) /\ Replaces(n, act, a) /\ a.g = act.g
      /\ Shown(regs', a, s + 1, Source!Assign(Env(regs, act), dst, vals))
  BY Zenon DEF Computes
<1>2. SeenAt(n, act.g, s, Env(regs, act))
  BY <1>1, SourceHere
<1>3. SourceStatus' = "run"
  BY <1>1, StillRunning DEF Replaces
<1>4. PICK e : e = Source!Assign(Env(regs, act), dst, vals)
  OBVIOUS
<1>5. Frame(regs', a, TRUE) = [g |-> act.g, at |-> s + 1, env |-> e]
  BY <1>1, <1>4, Zenon DEF Shown
<1>6. SourceStack' = [SourceStack EXCEPT ![n] = [g |-> act.g, at |-> s + 1, env |-> e]]
  BY <1>1, <1>5, SourceReplaced
<1>7. SourceStack[n] = [g |-> act.g, at |-> s, env |-> Env(regs, act)]
  BY <1>2, Zenon DEF SeenAt
<1>8. PICK f1 : f1 = SourceStack[n]
  OBVIOUS
<1>9. f1.env = Env(regs, act)
  BY <1>7, <1>8
<1>10. Source!Step(f1, Source!Assign(f1.env, dst, vals)) = [g |-> act.g, at |-> s + 1, env |-> e]
  <2>1. Source!Assign(f1.env, dst, vals) = e
    BY <1>4, <1>9
  <2>2. PICK old : old = Env(regs, act)
    OBVIOUS
  <2>3. f1 = [g |-> act.g, at |-> s, env |-> old]
    BY <1>7, <1>8, <2>2
  <2> QED
    BY <2>1, <2>3, StepRecord
<1>11. SourceStack' = [SourceStack EXCEPT ![n] = Source!Step(@, Source!Assign(@.env, dst, vals))]
  BY <1>6, <1>8, <1>10
<1> QED
  BY <1>2, <1>3, <1>11, Zenon DEF SourceComputes

\* Stacks of frames that grow and shrink.
LEMMA Extended ==
  ASSUME NEW n \in Nat, NEW V, V = [d \in 1 .. n |-> V[d]], NEW x
  PROVE  Append(V, x) = [d \in 1 .. n + 1 |-> IF d = n + 1 THEN x ELSE V[d]]
<1>1. PICK S : S = {V[d] : d \in 1 .. n} \cup {x}
  OBVIOUS
<1>2. V \in Seq(S) /\ x \in S
  <2>1. V \in [1 .. n -> S]
    BY <1>1
  <2> QED
    BY <1>1, <2>1
<1>3. Len(V) = n
  <2>1. DOMAIN V = 1 .. n
    OBVIOUS
  <2> QED
    BY <1>2, <2>1
<1>4. PICK t \in Seq(S) : t = Append(V, x)
  <2>1. Append(V, x) \in Seq(S)
    BY <1>2, AppendProperties, Zenon
  <2> QED
    BY <2>1
<1>5. Len(t) = n + 1 /\ DOMAIN t = 1 .. n + 1 /\ t[n + 1] = x /\ \A d \in 1 .. n : t[d] = V[d]
  BY <1>2, <1>3, <1>4
<1>6. t = [d \in 1 .. n + 1 |-> t[d]]
  BY <1>5
<1>7. \A d \in 1 .. n + 1 : t[d] = IF d = n + 1 THEN x ELSE V[d]
  BY <1>5
<1> QED
  BY <1>4, <1>6, <1>7

LEMMA Shortened ==
  ASSUME NEW n \in Nat \ {0}, NEW V, V = [d \in 1 .. n |-> V[d]]
  PROVE  SubSeq(V, 1, n - 1) = [d \in 1 .. n - 1 |-> V[d]]
<1>1. PICK S : S = {V[d] : d \in 1 .. n}
  OBVIOUS
<1>2. V \in Seq(S) /\ Len(V) = n
  <2>1. V \in [1 .. n -> S] /\ DOMAIN V = 1 .. n
    BY <1>1
  <2>2. V \in Seq(S)
    BY <2>1
  <2> QED
    BY <2>1, <2>2
<1>3. PICK t : t = SubSeq(V, 1, n - 1)
  OBVIOUS
<1>4. t = [d \in 1 .. n - 1 |-> V[d]]
  BY <1>2, <1>3
<1> QED
  BY <1>3, <1>4

\* LoadImm is an assignment.
LEMMA AssignmentStep ==
  ASSUME KeepersNotCalled, InProgram, ExecLoadImm
  PROVE  Source!Assignment
<1>1. PICK n \in Nat \ {0}, act \in Activations : \E s, b :
        \E lo \in Nat, hi \in Nat, nf \in Nat, ni \in Nat : Situated(n, act, s, b, lo, hi, nf, ni)
  BY Where
<1>2. PICK s, b : \E lo \in Nat, hi \in Nat, nf \in Nat, ni \in Nat : Situated(n, act, s, b, lo, hi, nf, ni)
  BY <1>1
<1>3. PICK lo \in Nat, hi \in Nat, nf \in Nat, ni \in Nat : Situated(n, act, s, b, lo, hi, nf, ni)
  BY <1>2
<1>4. n = Len(stack) /\ act = stack[n]
  BY <1>3, Zenon DEF Situated
<1>5. UNCHANGED <<module, code, home, stage, trace>>
  BY DEF ExecLoadImm, compiled
<1>6. PICK st : st = module[act.g].body[s]
  OBVIOUS
<1>7. st.k = "const" /\ \E a \in Activations : Computes(n, act, a, s, <<st.dst>>, <<st.val>>)
  BY <1>3, <1>6, LoadImmShown
<1>8. SourceComputes(n, act, s, <<st.dst>>, <<st.val>>)
  BY <1>4, <1>5, <1>7, ComputesStep
<1>9. /\ SourceStatus = "run" /\ Source!Top = n /\ Source!Stmt = st /\ SourceStatus' = "run"
      /\ SourceStack' = [SourceStack EXCEPT ![n] = Source!Step(@, Source!Assign(@.env, <<st.dst>>, <<st.val>>))]
  BY <1>6, <1>8, Zenon DEF SourceComputes, SeenAt
<1> QED
  BY <1>5, <1>7, <1>9, Zenon DEF Source!Assignment, Source!At

\* A call of the kernel shows it the arguments.
LEMMA KernelStep ==
  ASSUME KeepersNotCalled, InProgram, NEW w \in Values, CallKernel(w)
  PROVE  Source!CallKernel(w)
<1>1. PICK n \in Nat \ {0}, act \in Activations : \E s, b :
        \E lo \in Nat, hi \in Nat, nf \in Nat, ni \in Nat : Situated(n, act, s, b, lo, hi, nf, ni)
  BY Where
<1>2. PICK s, b : \E lo \in Nat, hi \in Nat, nf \in Nat, ni \in Nat : Situated(n, act, s, b, lo, hi, nf, ni)
  BY <1>1
<1>3. PICK lo \in Nat, hi \in Nat, nf \in Nat, ni \in Nat : Situated(n, act, s, b, lo, hi, nf, ni)
  BY <1>2
<1>4. n = Len(stack) /\ act = stack[n]
  BY <1>3, Zenon DEF Situated
<1>5. UNCHANGED <<module, code, home, stage>> /\ trace' = Seen(Stmt.callee, ArgRegs, Len(Stmt.args))
  BY DEF CallKernel, compiled
<1>6. PICK st : st = module[act.g].body[s]
  OBVIOUS
<1>7. PICK a \in Activations : KernelCalled(n, act, a, s, w)
  BY <1>3, CallKernelShown
<1>8. /\ st.k = "call" /\ st.callee.k # "function" /\ Stmt = st
      /\ Computes(n, act, a, s, st.dst, <<w>>)
      /\ DOMAIN st.args = 1 .. Len(st.args)
      /\ \A i \in 1 .. Len(st.args) : regs[ArgRegs[i]] = Env(regs, act)[st.args[i]]
  BY <1>6, <1>7, Zenon DEF KernelCalled
<1>9. SourceComputes(n, act, s, st.dst, <<w>>)
  BY <1>4, <1>5, <1>8, ComputesStep
<1>10. /\ SourceStatus = "run" /\ Source!Top = n /\ Source!Stmt = st /\ SourceStatus' = "run"
       /\ Source!Cur = [g |-> act.g, at |-> s, env |-> Env(regs, act)]
       /\ SourceStack' = [SourceStack EXCEPT ![n] = Source!Step(@, Source!Assign(@.env, st.dst, <<w>>))]
  BY <1>6, <1>9, Zenon DEF SourceComputes, SeenAt
<1>11. Source!ValuesOf(st.args) = [i \in 1 .. Len(st.args) |-> regs[ArgRegs[i]]]
  <2>1. Source!Cur.env = Env(regs, act)
    BY <1>10
  <2> QED
    BY <1>8, <2>1 DEF Source!ValuesOf
<1>12. Source!Shows(Source!Stmt.callee, Source!ValuesOf(Source!Stmt.args))
  BY <1>5, <1>8, <1>10, <1>11, Zenon DEF Source!Shows, Seen
<1> QED
  BY <1>5, <1>8, <1>10, <1>12, Zenon DEF Source!CallKernel, Source!At

\* A call of a function starts it with the values of the arguments.
LEMMA FunctionStep ==
  ASSUME KeepersNotCalled, InProgram, CallFunction
  PROVE  Source!Call
<1>1. PICK n \in Nat \ {0}, act \in Activations : \E s, b :
        \E lo \in Nat, hi \in Nat, nf \in Nat, ni \in Nat : Situated(n, act, s, b, lo, hi, nf, ni)
  BY Where
<1>2. PICK s, b : \E lo \in Nat, hi \in Nat, nf \in Nat, ni \in Nat : Situated(n, act, s, b, lo, hi, nf, ni)
  BY <1>1
<1>3. PICK lo \in Nat, hi \in Nat, nf \in Nat, ni \in Nat : Situated(n, act, s, b, lo, hi, nf, ni)
  BY <1>2
<1>4. n = Len(stack) /\ act = stack[n]
  BY <1>3, Zenon DEF Situated
<1>5. /\ UNCHANGED <<module, code, home, stage, regs, trace>> /\ stage = "run" /\ stack \in Seq(Activations)
  BY DEF CallFunction, compiled, InProgram, Executing, RunOK
<1>6. PICK st : st = module[act.g].body[s]
  OBVIOUS
<1>7. PICK g : \E a \in Activations : \E e \in Activations : FunctionCalled(n, act, a, e, s, g)
  BY <1>3, CallFunctionShown
<1>8. PICK a \in Activations, e \in Activations : FunctionCalled(n, act, a, e, s, g)
  BY <1>7
<1>9. PICK args : args = Passed(act, st.args)
  OBVIOUS
<1>10. PICK env : env = Source!Assign(Source!Fresh, module[g].params, args)
  OBVIOUS
<1>11. /\ CallsFunction(st, g) /\ stack' = Append([stack EXCEPT ![n] = a], e) /\ e.g = g
       /\ Shown(regs, act, s, Env(regs, act)) /\ Frame(regs, a, FALSE) = Frame(regs, act, TRUE)
       /\ Shown(regs, e, 1, env)
  BY <1>6, <1>8, <1>9, <1>10, Zenon DEF FunctionCalled
<1>12. SeenAt(n, act.g, s, Env(regs, act))
  BY <1>4, <1>11, SourceHere
<1>13. /\ SourceStatus = "run" /\ Source!Stmt = st /\ Source!Cur = [g |-> act.g, at |-> s, env |-> Env(regs, act)]
  BY <1>6, <1>12, Zenon DEF SeenAt
<1>14. Source!ValuesOf(st.args) = args
  <2>1. Source!Cur.env = Env(regs, act)
    BY <1>13
  <2> QED
    BY <1>9, <2>1 DEF Source!ValuesOf, Passed
<1>15. PICK K2 \in Seq(Activations) : K2 = stack' /\ PushedOn(K2, stack, n, a, e)
  BY <1>4, <1>5, <1>11, Pushed
<1>16. /\ Len(K2) = n + 1 /\ K2[n] = a /\ K2[n + 1] = e
       /\ \A d \in 1 .. n - 1 : K2[d] = stack[d]
  BY <1>15, Zenon DEF PushedOn
<1>17. PICK x : x = [g |-> g, at |-> 1, env |-> env]
  OBVIOUS
<1>18. Frame(regs, e, TRUE) = x
  BY <1>11, <1>17 DEF Shown
<1>19. PICK V : V = SourceStack
  OBVIOUS
<1>20. V = [d \in 1 .. n |-> V[d]] /\ \A d \in 1 .. n : V[d] = Frame(regs, stack[d], d = n)
  <2>1. Views(V, regs, stack, n)
    BY <1>4, <1>5, <1>19, SourceView, ViewParts
  <2> QED
    BY <2>1 DEF Views
<1>21. SourceStack' = [d \in 1 .. n + 1 |-> Frame(regs, K2[d], d = n + 1)]
  <2>1. SourceStack' = View(regs, K2)
    BY <1>5, <1>15, SourceView
  <2>2. PICK m \in Nat : m = n + 1
    OBVIOUS
  <2>3. View(regs, K2) = [d \in 1 .. m |-> Frame(regs, K2[d], d = m)]
    BY <1>16, <2>2, ViewParts
  <2> QED
    BY <2>1, <2>2, <2>3
<1>22. ASSUME NEW d \in 1 .. n + 1
       PROVE  Frame(regs, K2[d], d = n + 1) = IF d = n + 1 THEN x ELSE V[d]
  <2>1. CASE d = n + 1
    <3>1. (d = n + 1) = TRUE
      BY <2>1
    <3> QED
      BY <1>16, <1>18, <2>1, <3>1
  <2>2. CASE d = n
    <3>1. (d = n + 1) = FALSE /\ (d = n) = TRUE /\ d \in 1 .. n
      BY <2>2
    <3>2. V[d] = Frame(regs, stack[d], TRUE)
      BY <1>20, <3>1
    <3> QED
      BY <1>4, <1>11, <1>16, <2>2, <3>1, <3>2
  <2>3. CASE d # n /\ d # n + 1
    <3>1. (d = n + 1) = FALSE /\ (d = n) = FALSE /\ d \in 1 .. n - 1 /\ d \in 1 .. n
      BY <2>3
    <3>2. V[d] = Frame(regs, stack[d], FALSE)
      BY <1>20, <3>1
    <3> QED
      BY <1>16, <3>1, <3>2
  <2> QED
    BY <2>1, <2>2, <2>3
<1>23. SourceStack' = Append(V, x)
  <2>1. Append(V, x) = [d \in 1 .. n + 1 |-> IF d = n + 1 THEN x ELSE V[d]]
    BY <1>20, Extended
  <2> QED
    BY <1>21, <1>22, <2>1
<1>24. SourceStatus' = "run"
  <2>1. stack' # << >>
    BY <1>15, <1>16
  <2> QED
    BY <1>5, <2>1 DEF SourceStatus
<1>25. st.k = "call" /\ st.callee.k = "function" /\ st.callee.n = g
  BY <1>11 DEF CallsFunction
<1>26. SourceStack' = Append(SourceStack, [g |-> st.callee.n, at |-> 1,
          env |-> Source!Assign(Source!Fresh, module[st.callee.n].params, Source!ValuesOf(st.args))])
  BY <1>10, <1>14, <1>17, <1>19, <1>23, <1>25
<1> QED
  BY <1>5, <1>13, <1>24, <1>25, <1>26, Zenon DEF Source!Call, Source!At

\* A return from the entry ends the program and shows its result.
LEMMA ExitStep ==
  ASSUME InProgram, Return, NEW act \in Activations, Len(stack) = 1, act = stack[1], NEW s, Returned(1, act, s)
  PROVE  Source!Return
<1>1. PICK st : st = module[act.g].body[s]
  OBVIOUS
<1>2. /\ st.k = "ret" /\ Stmt = st /\ Top = 1 /\ stack' = SubSeq(stack, 1, 0) /\ stage' = "halt"
      /\ Shown(regs, act, s, Env(regs, act))
      /\ DOMAIN st.vals = 1 .. Len(st.vals)
      /\ \A i \in 1 .. Len(st.vals) : i = 1 /\ regs["R0"] = Env(regs, act)[st.vals[i]]
  <2>1. 1 - 1 = 0
    OBVIOUS
  <2> QED
    BY <1>1, <2>1, Zenon DEF Returned
<1>3. PICK n \in Nat \ {0} : n = 1
  OBVIOUS
<1>4. SeenAt(n, act.g, s, Env(regs, act))
  BY <1>2, <1>3, SourceHere
<1>5. /\ SourceStatus = "run" /\ Source!Stmt = st /\ Source!Cur = [g |-> act.g, at |-> s, env |-> Env(regs, act)]
      /\ Source!Top = 1
  BY <1>1, <1>3, <1>4, Zenon DEF SeenAt
<1>6. UNCHANGED <<module, code, home>> /\ trace' = Seen("exit", RetRegs, Len(st.vals))
  BY <1>2 DEF Return, compiled
<1>7. stack' = << >>
  BY <1>2 DEF InProgram, Executing, RunOK
<1>8. SourceStack' = << >>
  <2>1. View(regs', << >>) = << >>
    BY DEF View
  <2> QED
    BY <1>6, <1>7, <2>1, SourceView
<1>9. SourceStatus' = "halt"
  BY <1>2 DEF SourceStatus
<1>10. Source!ValuesOf(st.vals) = [i \in 1 .. Len(st.vals) |-> regs[RetRegs[i]]]
  <2>1. Source!Cur.env = Env(regs, act)
    BY <1>5
  <2>2. \A i \in 1 .. Len(st.vals) : RetRegs[i] = "R0"
    BY <1>2, Registers
  <2> QED
    BY <1>2, <2>1, <2>2 DEF Source!ValuesOf
<1>11. Source!Shows("exit", Source!ValuesOf(st.vals))
  BY <1>6, <1>10, Zenon DEF Source!Shows, Seen
<1> QED
  BY <1>2, <1>5, <1>6, <1>8, <1>9, <1>11, Zenon DEF Source!Return, Source!At

\* Any other return gives the caller the results.
LEMMA BackStep ==
  ASSUME KeepersNotCalled, InProgram, Return, NEW n \in Nat \ {0}, n = Len(stack), n # 1,
         NEW act \in Activations, act = stack[n], NEW s \in 1 .. Len(module[act.g].body), Returned(n, act, s)
  PROVE  Source!Return
<1>1. PICK ret : ret = module[act.g].body[s]
  OBVIOUS
<1>2. PICK vals : vals = Passed(act, ret.vals)
  OBVIOUS
<1>3. PICK c \in Activations : \E x : Resumes(n, act, c, x, vals)
  BY <1>1, <1>2, ResumeShown
<1>4. PICK x : Resumes(n, act, c, x, vals)
  BY <1>3
<1>5. PICK st : st = module[c.g].body[x]
  OBVIOUS
<1>6. PICK e : e = Source!Assign(Env(regs, c), st.dst, vals)
  OBVIOUS
<1>7. /\ c = stack[n - 1]
      /\ Frame(regs, c, FALSE) = [g |-> c.g, at |-> x, env |-> Env(regs, c)]
      /\ Shown(regs', c, x + 1, e)
  BY <1>4, <1>5, <1>6, Zenon DEF Resumes
<1>8. /\ ret.k = "ret" /\ Top = n /\ stack' = SubSeq(stack, 1, n - 1)
      /\ stage' = IF n = 1 THEN "halt" ELSE "run"
      /\ Shown(regs, act, s, Env(regs, act))
      /\ \A r \in CSR : regs'[r] = regs[r]
  BY <1>1, Zenon DEF Returned
<1>9. SeenAt(n, act.g, s, Env(regs, act))
  BY <1>8, SourceHere
<1>10. /\ SourceStatus = "run" /\ Source!Stmt = ret /\ Source!Top = n
       /\ Source!Cur = [g |-> act.g, at |-> s, env |-> Env(regs, act)]
  BY <1>1, <1>9, Zenon DEF SeenAt
<1>11. Source!ValuesOf(ret.vals) = vals
  <2>1. Source!Cur.env = Env(regs, act)
    BY <1>10
  <2> QED
    BY <1>2, <2>1 DEF Source!ValuesOf, Passed
<1>12. UNCHANGED <<module, code, home>> /\ trace' = trace
  BY <1>8 DEF Return, compiled
<1>13. PICK m \in Nat \ {0} : m = n - 1 /\ n = m + 1
  OBVIOUS
<1>14. stack \in Seq(Activations) /\ \A d \in 1 .. n - 1 : \E y, z : Waiting(stack[d], y, z, stack[d + 1].g)
  BY DEF InProgram, Executing, RunOK
<1>15. PICK K2 \in Seq(Activations) : K2 = stack' /\ Len(K2) = m /\ \A d \in 1 .. m : K2[d] = stack[d]
  <2>1. PICK K \in Seq(Activations) : K = stack /\ Len(K) = m + 1
    BY <1>13, <1>14
  <2>2. PICK K2 : K2 = SubSeq(K, 1, m)
    OBVIOUS
  <2>3. K2 \in Seq(Activations) /\ Len(K2) = m /\ \A d \in 1 .. m : K2[d] = K[d]
    BY <2>1, <2>2
  <2> QED
    BY <1>8, <1>13, <2>1, <2>2, <2>3
<1>16. PICK R2 : R2 = regs'
  OBVIOUS
<1>17. SourceStack' = [d \in 1 .. m |-> Frame(R2, K2[d], d = m)]
  <2>1. SourceStack' = View(R2, K2)
    BY <1>12, <1>15, <1>16, SourceView
  <2> QED
    BY <1>15, <2>1, ViewParts
<1>18. PICK V : V = SourceStack
  OBVIOUS
<1>19. V = [d \in 1 .. n |-> V[d]] /\ \A d \in 1 .. n : V[d] = Frame(regs, stack[d], d = n)
  <2>1. Views(V, regs, stack, n)
    BY <1>14, <1>18, SourceView, ViewParts
  <2> QED
    BY <2>1 DEF Views
<1>20. V[m] = [g |-> c.g, at |-> x, env |-> Env(regs, c)]
  <2>1. m \in 1 .. n /\ (m = n) = FALSE
    BY <1>13
  <2> QED
    BY <1>7, <1>13, <1>19, <2>1
<1>21. Frame(R2, c, TRUE) = [g |-> c.g, at |-> x + 1, env |-> e]
  BY <1>7, <1>16, Zenon DEF Shown
<1>22. ASSUME NEW d \in 1 .. m, d # m PROVE Frame(R2, K2[d], d = m) = V[d]
  <2>1. (d = m) = FALSE /\ (d = n) = FALSE /\ d \in 1 .. n - 1 /\ d \in 1 .. n /\ n \in Nat
    BY <1>13, <1>22
  <2>2. PICK y, z : Waiting(stack[d], y, z, stack[d + 1].g)
    BY <1>14, <2>1
  <2>3. PICK w \in Activations : w = stack[d]
    BY <1>14, <2>1, ElementOfSeq
  <2>4. \A r \in CSR : R2[r] = regs[r]
    BY <1>8, <1>16
  <2>5. Frame(R2, w, FALSE) = Frame(regs, w, FALSE)
    BY <2>2, <2>3, <2>4, WaitingKept
  <2> QED
    BY <1>15, <1>19, <2>1, <2>3, <2>5
<1>23. PICK y : y = [g |-> c.g, at |-> x + 1, env |-> e]
  OBVIOUS
<1>24. Frame(R2, K2[m], m = m) = y
  <2>1. (m = m) = TRUE /\ m \in 1 .. m /\ K2[m] = c
    BY <1>7, <1>13, <1>15
  <2> QED
    BY <1>21, <1>23, <2>1
<1>25. SourceStack' = [SubSeq(V, 1, n - 1) EXCEPT ![n - 1] = y]
  <2>1. PICK W : W = SubSeq(V, 1, n - 1)
    OBVIOUS
  <2>2. W = [d \in 1 .. m |-> V[d]]
    BY <1>13, <1>19, <2>1, Shortened
  <2>3. [W EXCEPT ![m] = y] = [d \in 1 .. m |-> IF d = m THEN y ELSE V[d]]
    BY <2>2
  <2>4. \A d \in 1 .. m : Frame(R2, K2[d], d = m) = IF d = m THEN y ELSE V[d]
    BY <1>22, <1>24
  <2> QED
    BY <1>13, <1>17, <2>1, <2>3, <2>4
<1>26. Source!Step(V[m], Source!Assign(V[m].env, st.dst, vals)) = y
  <2>1. PICK old, h : old = Env(regs, c) /\ h = V[m]
    OBVIOUS
  <2>2. h = [g |-> c.g, at |-> x, env |-> old]
    BY <1>20, <2>1
  <2>3. h.env = old
    BY <2>2
  <2>4. Source!Step(h, e) = y
    BY <1>23, <2>2, StepRecord
  <2> QED
    BY <1>6, <2>1, <2>3, <2>4
<1>27. module[V[m].g].body[V[m].at] = st
  <2>1. V[m].g = c.g /\ V[m].at = x
    BY <1>20
  <2> QED
    BY <1>5, <2>1
<1>28. SourceStatus' = "run"
  <2>1. stack' # << >>
    BY <1>15
  <2> QED
    BY <1>8, <2>1 DEF SourceStatus
<1>29. LET caller == SourceStack[n - 1]
           call == module[caller.g].body[caller.at]
       IN  SourceStack' = [SubSeq(SourceStack, 1, n - 1) EXCEPT
                             ![n - 1] = Source!Step(caller, Source!Assign(caller.env, call.dst, vals))]
  BY <1>13, <1>18, <1>25, <1>26, <1>27
<1>30. n > 1
  BY <1>13
<1> QED
  BY <1>8, <1>10, <1>11, <1>12, <1>28, <1>29, <1>30, Zenon DEF Source!Return, Source!At

\* Every return is one of the two.
LEMMA ReturnsStep ==
  ASSUME KeepersNotCalled, InProgram, Return
  PROVE  Source!Return
<1>1. PICK n \in Nat \ {0}, act \in Activations : \E s, b :
        \E lo \in Nat, hi \in Nat, nf \in Nat, ni \in Nat : Situated(n, act, s, b, lo, hi, nf, ni)
  BY Where
<1>2. PICK s, b : \E lo \in Nat, hi \in Nat, nf \in Nat, ni \in Nat : Situated(n, act, s, b, lo, hi, nf, ni)
  BY <1>1
<1>3. PICK lo \in Nat, hi \in Nat, nf \in Nat, ni \in Nat : Situated(n, act, s, b, lo, hi, nf, ni)
  BY <1>2
<1>4. n = Len(stack) /\ act = stack[n] /\ s \in 1 .. Len(module[act.g].body)
  BY <1>3, TopSituated, Zenon
<1>5. Returned(n, act, s)
  BY <1>3, ReturnShown
<1>6. CASE n = 1
  BY <1>4, <1>5, <1>6, ExitStep
<1>7. CASE n # 1
  BY <1>4, <1>5, <1>7, BackStep
<1> QED
  BY <1>6, <1>7

\* The first activation is the entry, with nothing in its variables.
LEMMA StartStep ==
  ASSUME Lowered, CodeInv, Executing, Enter
  PROVE  Source!Start
<1>1. stage = "run" /\ stack = << >> /\ UNCHANGED <<module, code, home, stage, trace>>
  BY DEF Enter, compiled
<1>2. PICK e \in Activations : stack' = <<e>> /\ regs' = regs /\ e.g = 1 /\ Shown(regs, e, 1, Source!Fresh)
  BY EnterShown
<1>3. SourceStatus = "compile" /\ SourceStatus' = "run"
  <2>1. <<e>> # << >>
    OBVIOUS
  <2> QED
    BY <1>1, <1>2, <2>1 DEF SourceStatus
<1>4. \A g \in DOMAIN module : Source!Supported(module[g])
  BY <1>1 DEF Lowered, RejectsExactly
<1>5. PICK F : F = Source!Fresh
  OBVIOUS
<1>6. Frame(regs, e, TRUE) = [g |-> 1, at |-> 1, env |-> F]
  BY <1>2, <1>5 DEF Shown
<1>7. SourceStack' = <<[g |-> 1, at |-> 1, env |-> F]>>
  <2>0. <<e>> \in Seq(Activations) /\ Len(<<e>>) = 1 /\ <<e>>[1] = e
    OBVIOUS
  <2>1. PICK K2 \in Seq(Activations) : K2 = <<e>> /\ 1 = Len(K2) /\ K2[1] = e
    BY <2>0
  <2>11. PICK m \in Nat : m = 1 /\ m = Len(K2) /\ K2[m] = e
    BY <2>1
  <2>2. SourceStack' = View(regs, K2)
    BY <1>1, <1>2, <2>1, SourceView
  <2>3. View(regs, K2) = [d \in 1 .. m |-> Frame(regs, K2[d], d = m)]
    <3>1. K2 \in Seq(Activations) /\ m \in Nat /\ m = Len(K2)
      BY <2>11
    <3> QED
      BY <3>1, ViewParts
  <2>4. PICK x : x = [g |-> 1, at |-> 1, env |-> F]
    OBVIOUS
  <2>5. \A d \in 1 .. m : Frame(regs, K2[d], d = m) = x
    <3>1. (m = m) = TRUE
      OBVIOUS
    <3>2. Frame(regs, K2[m], m = m) = x
      BY <1>6, <2>11, <2>4, <3>1
    <3>3. \A d \in 1 .. m : d = m
      BY <2>11
    <3> QED
      BY <3>2, <3>3
  <2>6. <<x>> = [d \in 1 .. 1 |-> x]
    OBVIOUS
  <2> QED
    BY <2>11, <2>2, <2>3, <2>4, <2>5, <2>6
<1> QED
  BY <1>1, <1>3, <1>4, <1>5, <1>7 DEF Source!Start

\* Copies are nothing to the source.
LEMMA CopyStep ==
  ASSUME KeepersNotCalled, InProgram, ExecCopyFrom \/ ExecCopyTo
  PROVE  UNCHANGED <<module, SourceStatus, SourceStack, trace>>
<1>1. PICK n \in Nat \ {0}, act \in Activations : \E s, b :
        \E lo \in Nat, hi \in Nat, nf \in Nat, ni \in Nat : Situated(n, act, s, b, lo, hi, nf, ni)
  BY Where
<1>2. PICK s, b : \E lo \in Nat, hi \in Nat, nf \in Nat, ni \in Nat : Situated(n, act, s, b, lo, hi, nf, ni)
  BY <1>1
<1>3. PICK lo \in Nat, hi \in Nat, nf \in Nat, ni \in Nat : Situated(n, act, s, b, lo, hi, nf, ni)
  BY <1>2
<1>4. n = Len(stack) /\ act = stack[n] /\ TopAt(regs, act, s, b) /\ Spot(code[act.g], module[act.g], b, s, lo, hi, nf, ni)
  BY <1>3, TopSituated, Zenon
<1>5. UNCHANGED <<module, code, home, stage, trace>>
  BY DEF ExecCopyFrom, ExecCopyTo, compiled
<1>6. PICK a \in Activations : Replaces(n, act, a) /\ Frame(regs', a, TRUE) = Frame(regs, act, TRUE)
  <2>1. CASE ExecCopyFrom
    BY <1>3, <2>1, CopyFromSame
  <2>2. CASE ExecCopyTo
    BY <1>3, <2>2, CopyToSame
  <2> QED
    BY <2>1, <2>2
<1>7. PICK env : Shown(regs, act, s, env)
  BY <1>4, TopFrame DEF InProgram
<1>8. SeenAt(n, act.g, s, env)
  BY <1>4, <1>7, SourceHere
<1>9. SourceStack = [d \in 1 .. n |-> SourceStack[d]] /\ SourceStack[n] = Frame(regs, act, TRUE)
      /\ SourceStatus = "run"
  BY <1>7, <1>8, Zenon DEF SeenAt, Shown
<1>10. SourceStack' = [SourceStack EXCEPT ![n] = Frame(regs', a, TRUE)]
  BY <1>4, <1>5, <1>6, SourceReplaced
<1>11. SourceStack' = SourceStack
  <2>1. PICK V, y : V = SourceStack /\ y = Frame(regs, act, TRUE)
    OBVIOUS
  <2>2. V = [d \in 1 .. n |-> V[d]] /\ V[n] = y
    BY <1>9, <2>1
  <2>3. [V EXCEPT ![n] = y] = V
    BY <2>2
  <2> QED
    BY <1>6, <1>10, <2>1, <2>3
<1>12. SourceStatus' = "run"
  BY <1>4, <1>5, <1>6, StillRunning DEF Replaces
<1> QED
  BY <1>5, <1>9, <1>11, <1>12

\* Nothing runs, nothing is seen of the source.
LEMMA NotRunning ==
  /\ stack = << >> => /\ SourceStack = << >>
                      /\ SourceStatus = IF stage \in {"rejected", "halt"} THEN stage ELSE "compile"
  /\ stack' = << >> => /\ SourceStack' = << >>
                       /\ SourceStatus' = IF stage' \in {"rejected", "halt"} THEN stage' ELSE "compile"
BY DEF SourceStack, SourceStatus

\* To compile is nothing to the source, unless the module is rejected.
LEMMA CompilesStep ==
  ASSUME CallInv, CallInv', LowerNext \/ \E h \in [VRegs -> HomeRegs \cup {Slot}] : AllocateHomes(h)
  PROVE  Source!Reject \/ UNCHANGED <<module, SourceStatus, SourceStack, trace>>
<1>1. stack = << >> /\ stack' = << >> /\ trace' = trace /\ module' = module
  BY CompilingStep
<1>2. stage \in {"lower", "frame"} /\ stage' # "halt"
  <2>1. CASE LowerNext
    <3>1. stage = "lower"
      BY <2>1 DEF LowerNext
    <3> QED
      BY <2>1, <3>1, Zenon DEF LowerNext, LowerFormalArguments, LowerConst, LowerCall, LowerReturn, Unreached,
                               Reject, NextOne
  <2>2. CASE \E h \in [VRegs -> HomeRegs \cup {Slot}] : AllocateHomes(h)
    BY <2>2 DEF AllocateHomes
  <2> QED
    BY <2>1, <2>2
<1>3. SourceStack = << >> /\ SourceStack' = << >> /\ SourceStatus = "compile"
      /\ SourceStatus' = IF stage' = "rejected" THEN "rejected" ELSE "compile"
  BY <1>1, <1>2, NotRunning
<1>4. ASSUME stage' = "rejected" PROVE \E g \in DOMAIN module : ~Source!Supported(module[g])
  <2>1. RejectsExactly'
    BY DEF CallInv, Lowered
  <2> QED
    BY <1>1, <1>4, <2>1 DEF RejectsExactly
<1>5. CASE stage' = "rejected"
  BY <1>1, <1>3, <1>4, <1>5 DEF Source!Reject
<1>6. CASE stage' # "rejected"
  BY <1>1, <1>3, <1>6
<1> QED
  BY <1>5, <1>6

\* The source starts as well.
LEMMA SourceInit == Init => Source!Init
BY NotRunning DEF Init, Source!Init

\* Every step is a step of the source or nothing to it.
LEMMA SourceStep ==
  ASSUME KeepersNotCalled
  PROVE  CallInv /\ CallInv' /\ [Next]_vars => [Source!Next]_<<module, SourceStatus, SourceStack, trace>>
<1> SUFFICES ASSUME CallInv, CallInv', [Next]_vars
             PROVE  Source!Next \/ UNCHANGED <<module, SourceStatus, SourceStack, trace>>
  BY Zenon
<1>1. CASE LowerNext \/ \E h \in [VRegs -> HomeRegs \cup {Slot}] : AllocateHomes(h)
  BY <1>1, CompilesStep DEF Source!Next
<1>2. CASE Enter
  BY <1>2, StartStep DEF CallInv, Source!Next
<1>3. CASE ExecLoadImm
  <2>1. InProgram
    BY <1>3, InProgramWhen DEF ExecLoadImm, Running
  <2> QED
    BY <1>3, <2>1, AssignmentStep DEF Source!Next
<1>4. CASE ExecCopyFrom \/ ExecCopyTo
  <2>1. InProgram
    BY <1>4, InProgramWhen DEF ExecCopyFrom, ExecCopyTo, Running
  <2> QED
    BY <1>4, <2>1, CopyStep
<1>5. CASE CallFunction
  <2>1. InProgram
    BY <1>5, InProgramWhen DEF CallFunction, Running
  <2> QED
    BY <1>5, <2>1, FunctionStep DEF Source!Next
<1>6. CASE \E w \in Values : CallKernel(w)
  <2>1. PICK w \in Values : CallKernel(w)
    BY <1>6
  <2>2. InProgram
    BY <2>1, InProgramWhen DEF CallKernel, Running
  <2> QED
    BY <2>1, <2>2, KernelStep DEF Source!Next
<1>7. CASE Return
  <2>1. InProgram
    BY <1>7, InProgramWhen DEF Return, Running
  <2> QED
    BY <1>7, <2>1, ReturnsStep DEF Source!Next
<1>8. CASE UNCHANGED vars
  <2>1. UNCHANGED <<module, code, home, stage, regs, stack, trace>>
    BY <1>8 DEF vars
  <2>2. SourceStack' = SourceStack
    BY <2>1, SourceView
  <2>3. SourceStatus' = SourceStatus
    BY <2>1 DEF SourceStatus
  <2> QED
    BY <2>1, <2>2, <2>3
<1> QED
  BY <1>1, <1>2, <1>3, <1>4, <1>5, <1>6, <1>7, <1>8, Zenon DEF Next

\* Compiled code does what its source does, for every module and every choice of
\* homes, provided that a function whose variables are in callee-saved registers
\* is not called by compiled code: what LowerCall copies to R1 to R5 is what
\* LowerFormalArguments copies from them, what LowerReturn leaves in R0 is what
\* LowerCallResult takes, no copy that is needed is deleted, the kernel
\* sees the arguments of the source, and the variables that live across calls
\* keep their values.
THEOREM SourceImplemented ==
  ASSUME KeepersNotCalled
  PROVE  Spec => SourceRefined
BY CallInvInit, CallInvStep, SourceInit, SourceStep, PTL DEF Spec, SourceRefined, Source!Spec
===============================================================================
