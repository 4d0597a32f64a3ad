---------------------------- MODULE BPFFrameProofs ----------------------------
(***************************************************************************)
(* The frame pointer stays where it was, the code is well typed and it     *)
(* accesses the addresses of the source, for every source, allocation and  *)
(* layout.                                                                 *)
(*                                                                         *)
(* The addresses: the code is what the source, the allocation and the      *)
(* layout make it (Made), instruction by instruction (At, Line); so the    *)
(* run is, between any two instructions, at a place in the selected code   *)
(* where registers and slots hold the values of the virtual registers      *)
(* (Running), and the virtual registers those of the source (Reached).     *)
(***************************************************************************)
EXTENDS BPFFrame, SequenceLemmas, FiniteSetTheorems

-----------------------------------------------------------------------------
(***************************************************************************)
(* Finite sets as sequences.                                               *)
(***************************************************************************)

\* At most four things.
LEMMA AtMostFour ==
  ASSUME NEW a, NEW b, NEW c, NEW d, NEW S \in SUBSET {a, b, c, d}
  PROVE  IsFiniteSet(S)
<1>1. IsFiniteSet({a})
  BY FS_Singleton
<1>2. IsFiniteSet({a} \cup {b})
  BY <1>1, FS_AddElement
<1>3. IsFiniteSet(({a} \cup {b}) \cup {c})
  BY <1>2, FS_AddElement
<1>4. IsFiniteSet((({a} \cup {b}) \cup {c}) \cup {d})
  BY <1>3, FS_AddElement
<1>5. (({a} \cup {b}) \cup {c}) \cup {d} = {a, b, c, d}
  OBVIOUS
<1> QED
  BY <1>4, <1>5, FS_Subset

\* SetToSeq lists every element, and nothing else.
LEMMA Listed ==
  ASSUME NEW S, IsFiniteSet(S)
  PROVE  /\ SetToSeq(S) \in Seq(S)
         /\ \A e \in S : \E n \in 1 .. Len(SetToSeq(S)) : SetToSeq(S)[n] = e
<1> DEFINE c == Cardinality(S)
<1>1. c \in Nat /\ ExistsBijection(1 .. c, S)
  BY FS_CardinalityType
<1>2. PICK g \in Bijection(1 .. c, S) : TRUE
  BY <1>1 DEF ExistsBijection
<1>3. g \in [1 .. c -> S] /\ IsInjective(g)
  BY <1>2 DEF Bijection, Injection
<1>4. PICK q : q = SetToSeq(S)
  OBVIOUS
<1>5. q \in [1 .. c -> S] /\ IsInjective(q)
  BY <1>3, <1>4 DEF SetToSeq
<1>6. q \in Injection(1 .. c, S)
  BY <1>5 DEF Injection
<1>7. IsFiniteSet(1 .. c) /\ Cardinality(1 .. c) = c
  BY <1>1, FS_Interval
<1>8. q \in Surjection(1 .. c, S)
  BY <1>6, <1>7, FS_Injection
<1>9. q \in Seq(S) /\ Len(q) = c
  BY <1>1, <1>5
<1> QED
  BY <1>4, <1>8, <1>9 DEF Surjection

\* So does every sequence of SetToSeqs.
LEMMA ListedInOrder ==
  ASSUME NEW S, IsFiniteSet(S), NEW q \in SetToSeqs(S)
  PROVE  /\ q \in Seq(S)
         /\ \A e \in S : \E n \in 1 .. Len(q) : q[n] = e
<1> DEFINE c == Cardinality(S)
<1>1. c \in Nat
  BY FS_CardinalityType
<1>2. q \in [1 .. c -> S] /\ IsInjective(q)
  BY DEF SetToSeqs, IsInjective
<1>3. q \in Injection(1 .. c, S)
  BY <1>2 DEF Injection
<1>4. IsFiniteSet(1 .. c) /\ Cardinality(1 .. c) = c
  BY <1>1, FS_Interval
<1>5. q \in Surjection(1 .. c, S)
  BY <1>3, <1>4, FS_Injection
<1>6. q \in Seq(S) /\ Len(q) = c
  BY <1>1, <1>2
<1> QED
  BY <1>5, <1>6 DEF Surjection

-----------------------------------------------------------------------------
(***************************************************************************)
(* Instructions, over the registers D that they write or store and the     *)
(* registers U that they read.                                             *)
(***************************************************************************)
Indices == Objects \cup Slots \cup {NoFI}

Insns(D, U) ==
  { i \in [op : {"MOV_rr", "ADD_ri", "ADD_rr", "LD_imm64", "LDD", "STD", "access"},
           rd : D \cup {NoReg}, rs : U \cup {NoReg}, fi : Indices, imm : Int] :
      /\ i.op # "access" => i.rd \in D
      /\ i.op # "LD_imm64" => i.fi # NoFI \/ i.rs \in U }

\* What the register allocator may use.
Allocatable == PhysRegs \ getReservedRegs

\* The registers of the code before and after allocation.
InsnsNow == IF stage \in {"select", "allocate"} THEN Insns(VRegs, VRegs) ELSE Insns(Allocatable, PhysRegs)

Words == 0 .. WordMod - 1

(***************************************************************************)
(* The inductive invariant: no instruction writes a reserved register, and *)
(* what eliminateFrameIndex has passed has no frame index.                 *)
(***************************************************************************)
FrameInv ==
  /\ source \in Programs
  /\ code \in Seq(InsnsNow)
  /\ assigned \in [VRegs -> PhysRegs \cup {NoReg}] /\ spilled \subseteq VRegs
  /\ objectOffset \in [Objects \cup Slots -> Int]
  /\ I \in 1 .. Len(code) + 1
  /\ stage \in {"select", "allocate", "layout"} => I = 1
  /\ \A n \in 1 .. Len(code) :
       stage \in {"run", "halt"} \/ (stage = "eliminate" /\ n < I) => code[n].fi = NoFI
  /\ regs \in [PhysRegs -> Words]
  /\ \A a \in DOMAIN mem : mem[a] \in Words
  /\ stage \in {"select", "allocate", "layout", "eliminate", "run", "halt"}

LEMMA FrameInvGives == FrameInv => TypeOK
<1> SUFFICES ASSUME FrameInv PROVE TypeOK
  OBVIOUS
<1>1. DOMAIN code = 1 .. Len(code)
  BY DEF FrameInv
<1>2. ASSUME NEW n \in DOMAIN code
      PROVE  /\ code[n].fi \in Objects \cup Slots \cup {NoFI}
             /\ stage \in {"run", "halt"} =>
                  code[n].fi = NoFI /\ {code[n].rd, code[n].rs} \subseteq PhysRegs \cup {NoReg}
  <2>1. code[n] \in InsnsNow
    BY DEF FrameInv
  <2> QED
    BY <1>1, <2>1 DEF FrameInv, InsnsNow, Insns, Indices, Allocatable
<1> QED
  BY <1>2 DEF FrameInv, TypeOK, Words

LEMMA FrameInit == Init => FrameInv
BY FrameAssumption DEF Init, FrameInv, Words, VRegs

-----------------------------------------------------------------------------
\* Selection makes instructions over virtual registers.
LEMMA SelectedInsns ==
  ASSUME NEW i \in Source
  PROVE  Selected(i) \in Seq(Insns(VRegs, VRegs))
<1>1. /\ i.k \in {"take", "access"} /\ i.fi \in Objects \cup {NoFI} /\ i.off \in Int
      /\ i.reg \in {"ptr", "obj", NoReg} /\ (i.k = "take" => i.fi # NoFI)
      /\ (i.fi = NoFI <=> i.reg # NoReg)
  BY DEF Source
<1>2. SelectAddr(i).folded \in BOOLEAN /\ SelectAddr(i).off \in Int
  BY <1>1 DEF SelectAddr
<1>3. {"ptr", "obj", "sum", "imm"} = VRegs
  BY DEF VRegs
<1> DEFINE J == Insns(VRegs, VRegs)
<1>4. ASSUME NEW v \in VRegs, NEW w \in VRegs, NEW f \in Objects \cup {NoFI}, NEW n \in Int
      PROVE  /\ f # NoFI => MoveFI(v, f) \in J
             /\ Move(v, w) \in J /\ LoadImm(v, n) \in J /\ AddReg(v, w) \in J
             /\ Access(w, f, n) \in J
             /\ f # NoFI => Access(NoReg, f, n) \in J
  BY DEF Insns, Indices, MoveFI, Move, LoadImm, AddReg, Access, Insn
<1> HIDE DEF J
<1>5. CASE i.k = "take"
  <2>1. Selected(i) = <<MoveFI("obj", i.fi)>>
    BY <1>5 DEF Selected
  <2>2. MoveFI("obj", i.fi) \in J
    BY <1>1, <1>3, <1>4, <1>5
  <2> QED
    BY <2>1, <2>2 DEF J
<1>6. CASE i.k = "access" /\ SelectAddr(i).folded
  <2>1. Selected(i) = <<Access(i.reg, i.fi, SelectAddr(i).off)>>
    BY <1>6 DEF Selected
  <2>2. Access(i.reg, i.fi, SelectAddr(i).off) \in J
    BY <1>1, <1>2, <1>3, <1>4
  <2> QED
    BY <2>1, <2>2 DEF J
<1>7. CASE i.k = "access" /\ ~SelectAddr(i).folded
  <2>1. Selected(i) = << IF i.fi # NoFI THEN MoveFI("sum", i.fi) ELSE Move("sum", i.reg),
                         LoadImm("imm", i.off), AddReg("sum", "imm"),
                         Access("sum", NoFI, SelectAddr(i).off) >>
    BY <1>7 DEF Selected
  <2>2. (IF i.fi # NoFI THEN MoveFI("sum", i.fi) ELSE Move("sum", i.reg)) \in J
    BY <1>1, <1>3, <1>4
  <2>3. LoadImm("imm", i.off) \in J /\ AddReg("sum", "imm") \in J
        /\ Access("sum", NoFI, SelectAddr(i).off) \in J
    BY <1>1, <1>2, <1>3, <1>4
  <2> QED
    BY <2>1, <2>2, <2>3 DEF J
<1> QED
  BY <1>1, <1>5, <1>6, <1>7

\* The instructions before layout have no other constraints.
LEMMA SelectStep == FrameInv /\ SelectCode => FrameInv'
<1> SUFFICES ASSUME FrameInv, SelectCode PROVE FrameInv'
  OBVIOUS
<1>1. /\ code' = FlattenSeq([n \in DOMAIN source |-> Selected(source[n])])
      /\ stage = "select" /\ stage' = "allocate"
      /\ UNCHANGED <<source, assigned, spilled, objectOffset, I, regs, mem, trace>>
  BY DEF SelectCode
<1>2. source \in Seq(Source)
  BY ProgramsAssumption DEF FrameInv
<1>3. PICK parts : parts = [n \in DOMAIN source |-> Selected(source[n])]
  OBVIOUS
<1>4. parts \in Seq(Seq(Insns(VRegs, VRegs)))
  <2>1. DOMAIN source = 1 .. Len(source) /\ Len(source) \in Nat
    BY <1>2
  <2>2. ASSUME NEW n \in DOMAIN source PROVE Selected(source[n]) \in Seq(Insns(VRegs, VRegs))
    BY <1>2, SelectedInsns
  <2>3. parts \in [1 .. Len(source) -> Seq(Insns(VRegs, VRegs))]
    BY <1>3, <2>1, <2>2
  <2> QED
    BY <2>1, <2>3
<1>5. code' \in Seq(InsnsNow')
  <2>1. code' = FlattenSeq(parts)
    BY <1>1, <1>3
  <2>2. InsnsNow' = Insns(VRegs, VRegs)
    BY <1>1 DEF InsnsNow
  <2> QED
    BY <1>4, <2>1, <2>2, FlattenSeqType
<1>6. I' = 1 /\ Len(code') \in Nat
  BY <1>1, <1>5 DEF FrameInv
<1> QED
  BY <1>1, <1>5, <1>6 DEF FrameInv

-----------------------------------------------------------------------------
\* Allocation replaces virtual registers by allocatable ones, and the spills
\* it adds have them too.
LEMMA RewrittenInsns ==
  ASSUME NEW i \in Insns(VRegs, VRegs), NEW a \in [VRegs -> Allocatable], NEW s \in SUBSET VRegs
  PROVE  Rewritten(i, a, s) \in Seq(Insns(Allocatable, PhysRegs))
<1> DEFINE J == Insns(Allocatable, PhysRegs)
           phys(v) == IF v \in VRegs THEN a[v] ELSE v
           loads == {Load(a[v], Slot(v)) : v \in Uses(i) \cap s}
           stores == {Store(a[v], Slot(v)) : v \in Defs(i) \cap s}
           e == [i EXCEPT !.rd = phys(@), !.rs = phys(@)]
<1>1. Allocatable \subseteq PhysRegs
  BY DEF Allocatable
<1>2. \A v \in VRegs : Slot(v) \in Slots /\ Slot(v) # NoFI
  BY IndexAssumption DEF Slots
<1>3. ASSUME NEW v \in VRegs
      PROVE  Load(a[v], Slot(v)) \in J /\ Store(a[v], Slot(v)) \in J
  BY <1>1, <1>2, <1>3 DEF Insns, Indices, Load, Store, Insn
<1>4. loads \subseteq J /\ stores \subseteq J
  BY <1>3 DEF Uses, Defs
<1>5. IsFiniteSet(loads)
  <2>1. loads \subseteq {Load(a["ptr"], Slot("ptr")), Load(a["obj"], Slot("obj")),
                         Load(a["sum"], Slot("sum")), Load(a["imm"], Slot("imm"))}
    BY DEF Uses, VRegs
  <2> QED
    BY <2>1, AtMostFour
<1>6. IsFiniteSet(stores)
  <2>1. stores \subseteq {Store(a["ptr"], Slot("ptr")), Store(a["obj"], Slot("obj")),
                          Store(a["sum"], Slot("sum")), Store(a["imm"], Slot("imm"))}
    BY DEF Defs, VRegs
  <2> QED
    BY <2>1, AtMostFour
<1>7. e \in J
  <2>1. /\ i \in [op : {"MOV_rr", "ADD_ri", "ADD_rr", "LD_imm64", "LDD", "STD", "access"},
                  rd : VRegs \cup {NoReg}, rs : VRegs \cup {NoReg}, fi : Indices, imm : Int]
        /\ i.op # "access" => i.rd \in VRegs
        /\ i.op # "LD_imm64" => i.fi # NoFI \/ i.rs \in VRegs
    BY DEF Insns
  <2>2. \A v \in VRegs : phys(v) \in Allocatable
    OBVIOUS
  <2>3. \A v \in VRegs \cup {NoReg} : phys(v) \in Allocatable \cup {NoReg}
    OBVIOUS
  <2> HIDE DEF phys
  <2>4. e.op = i.op /\ e.rd = phys(i.rd) /\ e.rs = phys(i.rs) /\ e.fi = i.fi /\ e.imm = i.imm
    BY <2>1
  <2>5. e \in [op : {"MOV_rr", "ADD_ri", "ADD_rr", "LD_imm64", "LDD", "STD", "access"},
               rd : Allocatable \cup {NoReg}, rs : PhysRegs \cup {NoReg}, fi : Indices, imm : Int]
    BY <1>1, <2>1, <2>3
  <2> HIDE DEF e
  <2> QED
    BY <1>1, <2>1, <2>2, <2>4, <2>5 DEF Insns
<1> HIDE DEF loads, stores, e, J
<1>8. SetToSeq(loads) \in Seq(J) /\ SetToSeq(stores) \in Seq(J)
  <2>1. SetToSeq(loads) \in Seq(loads) /\ SetToSeq(stores) \in Seq(stores)
    BY <1>5, <1>6, Listed
  <2> QED
    BY <1>4, <2>1
<1>9. Rewritten(i, a, s) = SetToSeq(loads) \o <<e>> \o SetToSeq(stores)
  BY DEF Rewritten, loads, stores, e, phys
<1>10. PICK m \in Seq(J) : m = <<e>>
  BY <1>7, Singleton
<1> QED
  BY <1>8, <1>9, <1>10, ConcatThree DEF J

LEMMA AllocateStep ==
  ASSUME FrameInv, NEW a \in [VRegs -> PhysRegs \ getReservedRegs], NEW s \in SUBSET VRegs,
         AllocateRegisters(a, s)
  PROVE  FrameInv'
<1> DEFINE J == Insns(Allocatable, PhysRegs)
<1>1. /\ stage = "allocate" /\ stage' = "layout" /\ assigned' = a /\ spilled' = s
      /\ code' = (IF "ptr" \in s THEN <<Store(a["ptr"], Slot("ptr"))>> ELSE << >>)
                   \o FlattenSeq([n \in DOMAIN code |-> Rewritten(code[n], a, s)])
      /\ UNCHANGED <<source, objectOffset, I, regs, mem, trace>>
  BY DEF AllocateRegisters
<1>2. a \in [VRegs -> Allocatable]
  BY DEF Allocatable
<1>3. PICK parts : parts = [n \in DOMAIN code |-> Rewritten(code[n], a, s)]
  OBVIOUS
<1>4. parts \in Seq(Seq(J))
  <2>1. code \in Seq(Insns(VRegs, VRegs))
    BY <1>1 DEF FrameInv, InsnsNow
  <2>2. DOMAIN code = 1 .. Len(code) /\ Len(code) \in Nat
    BY <2>1
  <2>3. ASSUME NEW n \in DOMAIN code PROVE Rewritten(code[n], a, s) \in Seq(J)
    BY <1>2, <2>1, RewrittenInsns
  <2>4. parts \in [1 .. Len(code) -> Seq(J)]
    BY <1>3, <2>2, <2>3
  <2> QED
    BY <2>2, <2>4
<1>5. PICK h : h = IF "ptr" \in s THEN <<Store(a["ptr"], Slot("ptr"))>> ELSE << >>
  OBVIOUS
<1>6. h \in Seq(J)
  <2>1. CASE "ptr" \in s
    <3>1. a["ptr"] \in Allocatable /\ Slot("ptr") \in Slots /\ Slot("ptr") # NoFI
      BY <1>2, IndexAssumption DEF Slots, VRegs
    <3>2. Store(a["ptr"], Slot("ptr")) \in J
      BY <3>1 DEF Insns, Indices, Store, Insn
    <3> HIDE DEF J
    <3> QED
      BY <1>5, <2>1, <3>2
  <2>2. CASE "ptr" \notin s
    BY <1>5, <2>2
  <2> QED
    BY <2>1, <2>2
<1> HIDE DEF J
<1>7. FlattenSeq(parts) \in Seq(J)
  BY <1>4, FlattenSeqType
<1>8. code' = h \o FlattenSeq(parts)
  BY <1>1, <1>3, <1>5
<1>9. code' \in Seq(J)
  BY <1>6, <1>7, <1>8
<1>10. InsnsNow' = J
  BY <1>1 DEF InsnsNow, J
<1>11. I' = 1 /\ Len(code') \in Nat
  BY <1>1, <1>9 DEF FrameInv
<1>12. assigned' \in [VRegs -> PhysRegs \cup {NoReg}]
  BY <1>1
<1>13. code' \in Seq(InsnsNow')
  BY <1>9, <1>10
<1> QED
  BY <1>1, <1>11, <1>12, <1>13 DEF FrameInv

\* Every index that is used is in the order of the layout, and gets its place.
LEMMA LayOutStep ==
  ASSUME FrameInv, NEW o \in SetToSeqs(UsedIndices \cap Objects),
         NEW s \in SetToSeqs(UsedIndices \cap Slots), LayOutFrame(o \o s)
  PROVE  FrameInv'
<1>1. /\ stage = "layout" /\ stage' = "eliminate"
      /\ objectOffset' = [f \in Objects \cup Slots |->
           IF f \in UsedIndices THEN -Align * (CHOOSE n \in DOMAIN (o \o s) : (o \o s)[n] = f) ELSE 0]
      /\ UNCHANGED <<source, code, assigned, spilled, I, regs, mem, trace>>
  BY DEF LayOutFrame
<1>2. Len(code) \in Nat /\ DOMAIN code = 1 .. Len(code)
  BY DEF FrameInv
<1>3. IsFiniteSet(UsedIndices)
  <2> DEFINE h == [n \in 1 .. Len(code) |-> code[n].fi]
             T == {code[n].fi : n \in 1 .. Len(code)}
  <2>1. h \in Surjection(1 .. Len(code), T)
    BY DEF Surjection
  <2>2. IsFiniteSet(1 .. Len(code))
    BY <1>2, FS_Interval
  <2>3. UsedIndices \subseteq T
    BY <1>2 DEF UsedIndices
  <2> HIDE DEF h, T
  <2>4. IsFiniteSet(T)
    BY <2>1, <2>2, FS_Surjection
  <2> QED
    BY <2>3, <2>4, FS_Subset
<1>4. IsFiniteSet(UsedIndices \cap Objects) /\ IsFiniteSet(UsedIndices \cap Slots)
  BY <1>3, FS_Subset
<1>5. /\ o \in Seq(UsedIndices \cap Objects) /\ s \in Seq(UsedIndices \cap Slots)
      /\ \A e \in UsedIndices \cap Objects : \E n \in 1 .. Len(o) : o[n] = e
      /\ \A e \in UsedIndices \cap Slots : \E n \in 1 .. Len(s) : s[n] = e
  <2>1. /\ o \in Seq(UsedIndices \cap Objects)
        /\ \A e \in UsedIndices \cap Objects : \E n \in 1 .. Len(o) : o[n] = e
    <3>1. IsFiniteSet(UsedIndices \cap Objects)
      BY <1>4
    <3> QED
      BY <3>1, ListedInOrder, ZenonT(30)
  <2>2. /\ s \in Seq(UsedIndices \cap Slots)
        /\ \A e \in UsedIndices \cap Slots : \E n \in 1 .. Len(s) : s[n] = e
    <3>1. IsFiniteSet(UsedIndices \cap Slots)
      BY <1>4
    <3> QED
      BY <3>1, ListedInOrder, ZenonT(30)
  <2> QED
    BY <2>1, <2>2
<1>6. PICK t : t = o \o s
  OBVIOUS
<1>7. /\ Len(o) \in Nat /\ Len(s) \in Nat /\ DOMAIN t = 1 .. Len(o) + Len(s)
      /\ \A n \in 1 .. Len(o) + Len(s) : t[n] = IF n <= Len(o) THEN o[n] ELSE s[n - Len(o)]
  BY <1>5, <1>6
<1>8. ASSUME NEW f \in UsedIndices \cap (Objects \cup Slots)
      PROVE  \E n \in DOMAIN t : t[n] = f
  <2>1. CASE f \in Objects
    <3>1. PICK n \in 1 .. Len(o) : o[n] = f
      BY <1>5, <2>1
    <3> QED
      BY <1>7, <3>1
  <2>2. CASE f \in Slots
    <3>1. PICK n \in 1 .. Len(s) : s[n] = f
      BY <1>5, <2>2
    <3>2. n + Len(o) \in DOMAIN t /\ ~(n + Len(o) <= Len(o)) /\ (n + Len(o)) - Len(o) = n
      BY <1>7
    <3> QED
      BY <1>7, <3>1, <3>2
  <2> QED
    BY <2>1, <2>2
<1>9. ASSUME NEW f \in UsedIndices \cap (Objects \cup Slots)
      PROVE  -Align * (CHOOSE n \in DOMAIN t : t[n] = f) \in Int
  <2>1. (CHOOSE n \in DOMAIN t : t[n] = f) \in DOMAIN t
    BY <1>8
  <2>2. PICK k : k = CHOOSE n \in DOMAIN t : t[n] = f
    OBVIOUS
  <2>3. k \in Int
    BY <1>7, <2>1, <2>2
  <2> QED
    BY <2>2, <2>3 DEF Align
<1>10. objectOffset' \in [Objects \cup Slots -> Int]
  BY <1>1, <1>6, <1>9
<1>11. I' = 1 /\ code' = code /\ InsnsNow' = InsnsNow /\ I' \in 1 .. Len(code') + 1
  BY <1>1, <1>2 DEF FrameInv, InsnsNow
<1>12. stage' = "eliminate" /\ UNCHANGED <<source, assigned, spilled, regs, mem>>
  BY <1>1
<1>13. \A n \in 1 .. Len(code') : ~(n < I')
  BY <1>2, <1>11
<1> QED
  BY <1>10, <1>11, <1>12, <1>13 DEF FrameInv

-----------------------------------------------------------------------------
\* eliminateFrameIndex replaces an instruction by one or two without an index.
LEMMA ReplacedInsns ==
  ASSUME NEW J, code \in Seq(J), I \in 1 .. Len(code),
         \A n \in 1 .. I - 1 : code[n].fi = NoFI,
         NEW w \in Seq(J), Len(w) > 0, w[1].fi = NoFI, code' = Replaced(w)
  PROVE  /\ code' \in Seq(J) /\ I + 1 \in 1 .. Len(code') + 1
         /\ \A n \in 1 .. I : code'[n].fi = NoFI
<1>1. PICK r \in Seq(J) : r = Splice(code, I - 1, I, w) /\ Replacing(r, code, I, w)
  BY SpliceOne
<1>2. code' = r
  BY <1>1 DEF Replaced, Splice
<1>3. /\ Len(r) = (Len(code) - 1) + Len(w)
      /\ \A n \in 1 .. I - 1 : r[n] = code[n]
      /\ r[(I - 1) + 1] = w[1]
  BY <1>1 DEF Replacing
<1>4. PICK l \in Nat, k \in Nat : l = Len(code) /\ k = Len(w) /\ k > 0 /\ I \in 1 .. l
  OBVIOUS
<1>5. (I - 1) + 1 = I
  BY <1>4
<1>6. \A n \in 1 .. I : n \in 1 .. I - 1 \/ n = I
  BY <1>4
<1>7. \A n \in 1 .. I : r[n].fi = NoFI
  BY <1>3, <1>5, <1>6
<1>8. I + 1 \in 1 .. Len(r) + 1
  BY <1>3, <1>4
<1> QED
  BY <1>2, <1>7, <1>8

LEMMA ToIntType ==
  ASSUME NEW n \in Int
  PROVE  ToInt(n) \in Int
<1>1. PICK w \in Nat \ {0} : w = ImmMod
  BY FrameAssumption
<1>2. n % w \in Int
  OBVIOUS
<1> QED
  BY <1>1, <1>2 DEF ToInt

LEMMA EliminateStep == FrameInv /\ eliminateFrameIndex => FrameInv'
<1> SUFFICES ASSUME FrameInv, eliminateFrameIndex PROVE FrameInv'
  OBVIOUS
<1> DEFINE J == Insns(Allocatable, PhysRegs)
           i == code[I]
<1>1. /\ stage = "eliminate" /\ I <= Len(code) /\ i.fi # NoFI /\ I' = I + 1
      /\ EliminateInMove(i) \/ EliminateInAddress(i)
      /\ UNCHANGED <<source, assigned, spilled, objectOffset, regs, mem, trace, stage>>
  BY DEF eliminateFrameIndex
<1>2. /\ code \in Seq(J) /\ I \in 1 .. Len(code)
      /\ \A n \in 1 .. I - 1 : code[n].fi = NoFI
  BY <1>1 DEF FrameInv, InsnsNow
<1>3. i \in J
  BY <1>2
<1>4. R10 \in PhysRegs /\ getFrameRegister = R10
  BY FrameAssumption DEF getFrameRegister
<1>5. objectOffset[i.fi] \in Int /\ i.imm \in Int
  BY <1>1, <1>3 DEF FrameInv, Insns, Indices
<1>6. i.op # "access" => i.rd \in Allocatable
  BY <1>3 DEF Insns
<1>7. \E w \in Seq(J) : Len(w) > 0 /\ w[1].fi = NoFI /\ code' = Replaced(w)
  <2>1. CASE EliminateInMove(i)
    <3> DEFINE a == [i EXCEPT !.rs = getFrameRegister, !.fi = NoFI]
               b == AddImm(i.rd, ToInt(objectOffset[i.fi]))
    <3>1. i.op = "MOV_rr" /\ code' = Replaced(<<a, b>>)
      BY <2>1 DEF EliminateInMove
    <3>2. a \in J /\ a.fi = NoFI
      BY <1>3, <1>4 DEF Insns, Indices
    <3>3. ToInt(objectOffset[i.fi]) \in Int
      BY <1>5, ToIntType
    <3>4. b \in J
      BY <1>6, <3>1, <3>3 DEF AddImm, Insn, Insns, Indices, Allocatable
    <3> HIDE DEF a, b, J
    <3>5. <<a, b>> \in Seq(J) /\ Len(<<a, b>>) = 2 /\ <<a, b>>[1] = a
      BY <3>2, <3>4
    <3>6. PICK w \in Seq(J) : w = <<a, b>> /\ Len(w) = 2 /\ w[1] = a
      BY <3>5
    <3>7. code' = Replaced(w) /\ w[1].fi = NoFI
      BY <3>1, <3>2, <3>6
    <3> QED
      BY <3>6, <3>7
  <2>2. CASE EliminateInAddress(i)
    <3> DEFINE n == ToInt(objectOffset[i.fi] + i.imm)
               a == [i EXCEPT !.rs = getFrameRegister, !.fi = NoFI, !.imm = n]
    <3>1. code' = Replaced(<<a>>)
      BY <2>2 DEF EliminateInAddress
    <3>2. n \in Int
      BY <1>5, ToIntType
    <3> HIDE DEF n
    <3>3. a \in J /\ a.fi = NoFI
      BY <1>3, <1>4, <3>2 DEF Insns, Indices
    <3> HIDE DEF a, J
    <3>4. <<a>> \in Seq(J) /\ Len(<<a>>) = 1 /\ <<a>>[1] = a
      BY <3>3
    <3>5. PICK w \in Seq(J) : w = <<a>> /\ Len(w) = 1 /\ w[1] = a
      BY <3>4
    <3>6. code' = Replaced(w) /\ w[1].fi = NoFI
      BY <3>1, <3>3, <3>5
    <3> QED
      BY <3>5, <3>6
  <2> QED
    BY <1>1, <2>1, <2>2
<1>8. PICK w \in Seq(J) : Len(w) > 0 /\ w[1].fi = NoFI /\ code' = Replaced(w)
  BY <1>7
<1> HIDE DEF J
<1>9. /\ code' \in Seq(J) /\ I + 1 \in 1 .. Len(code') + 1
      /\ \A n \in 1 .. I : code'[n].fi = NoFI
  BY <1>2, <1>8, ReplacedInsns
<1>10. InsnsNow' = J /\ I \in Nat
  BY <1>1, <1>2 DEF InsnsNow, J
<1>11. \A n \in 1 .. Len(code') : n < I' => code'[n].fi = NoFI
  BY <1>1, <1>2, <1>9, <1>10
<1> QED
  BY <1>1, <1>9, <1>10, <1>11 DEF FrameInv

LEMMA NextInstructionStep == FrameInv /\ NextInstruction => FrameInv'
<1> SUFFICES ASSUME FrameInv, NextInstruction PROVE FrameInv'
  OBVIOUS
<1>1. /\ stage = "eliminate" /\ I <= Len(code) /\ code[I].fi = NoFI /\ I' = I + 1
      /\ UNCHANGED <<source, code, assigned, spilled, objectOffset, regs, mem, trace, stage>>
  BY DEF NextInstruction, compiled
<1>2. I' \in 1 .. Len(code) + 1 /\ InsnsNow' = InsnsNow
  BY <1>1 DEF FrameInv, InsnsNow
<1>3. ASSUME NEW n \in 1 .. Len(code), n < I' PROVE code[n].fi = NoFI
  BY <1>1, <1>3 DEF FrameInv
<1> QED
  BY <1>1, <1>2, <1>3 DEF FrameInv

LEMMA EliminationDoneStep == FrameInv /\ EliminationDone => FrameInv'
<1> SUFFICES ASSUME FrameInv, EliminationDone PROVE FrameInv'
  OBVIOUS
<1>1. /\ stage = "eliminate" /\ I > Len(code) /\ I' = 1 /\ stage' = "run"
      /\ regs' = [regs EXCEPT ![R10] = FP0, ![assigned["ptr"]] = Ptr0]
      /\ UNCHANGED <<source, code, assigned, spilled, objectOffset, mem, trace>>
  BY DEF EliminationDone, compiled
<1>2. regs' \in [PhysRegs -> Words]
  BY <1>1, FrameAssumption DEF FrameInv, Words
<1>3. I' \in 1 .. Len(code) + 1 /\ InsnsNow' = InsnsNow
  BY <1>1 DEF FrameInv, InsnsNow
<1>4. \A n \in 1 .. Len(code) : code[n].fi = NoFI
  BY <1>1 DEF FrameInv
<1> QED
  BY <1>1, <1>2, <1>3, <1>4 DEF FrameInv

-----------------------------------------------------------------------------
LEMMA WordOf ==
  ASSUME NEW n \in Int
  PROVE  n % WordMod \in Words
<1>1. PICK w \in Nat \ {0} : w = WordMod
  BY FrameAssumption
<1>2. n % w \in 0 .. w - 1
  OBVIOUS
<1> QED
  BY <1>1, <1>2 DEF Words

\* An instruction of the compiled function: the registers it names are there,
\* and the one it writes is not reserved.
LEMMA Executed ==
  ASSUME FrameInv, stage = "run", I <= Len(code)
  PROVE  LET i == code[I]
         IN  /\ i.op \in {"STD", "access"} \/ i.rd \in Allocatable
             /\ i.op # "access" => regs[i.rd] \in Words
             /\ i.op \notin {"STD", "access"} => Result(i) \in Words
<1> DEFINE i == code[I]
<1>1. I \in 1 .. Len(code) /\ code \in Seq(Insns(Allocatable, PhysRegs)) /\ code[I].fi = NoFI
  BY DEF FrameInv, InsnsNow
<1>2. i \in Insns(Allocatable, PhysRegs)
  BY <1>1
<1> HIDE DEF i
<1>3. /\ i.op \in {"MOV_rr", "ADD_ri", "ADD_rr", "LD_imm64", "LDD", "STD", "access"}
      /\ i.op # "access" => i.rd \in Allocatable
      /\ i.op # "LD_imm64" => i.rs \in PhysRegs
      /\ i.imm \in Int
  BY <1>1, <1>2 DEF i, Insns
<1>4. Allocatable \subseteq PhysRegs /\ Words \subseteq Int /\ 0 \in Words
  BY FrameAssumption DEF Allocatable, Words
<1>5. \A r \in PhysRegs : regs[r] \in Words
  BY DEF FrameInv
<1>6. ASSUME i.op = "MOV_rr" PROVE Result(i) \in Words
  BY <1>3, <1>5, <1>6 DEF Result
<1>7. ASSUME i.op = "ADD_ri" PROVE Result(i) \in Words
  <2>1. regs[i.rd] \in Words /\ i.imm \in Int
    BY <1>3, <1>4, <1>5, <1>7
  <2>2. Result(i) = (regs[i.rd] + i.imm) % WordMod
    BY <1>7 DEF Result
  <2>3. PICK x \in Int, y \in Int : x = regs[i.rd] /\ y = i.imm
    BY <1>4, <2>1
  <2> QED
    <3>1. x + y \in Int
      OBVIOUS
    <3> QED
      BY <2>2, <2>3, <3>1, WordOf
<1>8. ASSUME i.op = "ADD_rr" PROVE Result(i) \in Words
  <2>1. regs[i.rd] \in Words /\ regs[i.rs] \in Words
    BY <1>3, <1>4, <1>5, <1>8
  <2>2. Result(i) = (regs[i.rd] + regs[i.rs]) % WordMod
    BY <1>8 DEF Result
  <2>3. PICK x \in Int, y \in Int : x = regs[i.rd] /\ y = regs[i.rs]
    BY <1>4, <2>1
  <2> QED
    <3>1. x + y \in Int
      OBVIOUS
    <3> QED
      BY <2>2, <2>3, <3>1, WordOf
<1>9. ASSUME i.op = "LD_imm64" PROVE Result(i) \in Words
  <2>1. Result(i) = i.imm % WordMod
    BY <1>9 DEF Result
  <2> QED
    BY <1>3, <2>1, WordOf
<1>10. ASSUME i.op = "LDD" PROVE Result(i) \in Words
  <2>1. Result(i) = IF Address(i) \in DOMAIN mem THEN mem[Address(i)] ELSE 0
    BY <1>10 DEF Result
  <2>2. \A a \in DOMAIN mem : mem[a] \in Words
    BY DEF FrameInv
  <2> QED
    BY <1>4, <2>1, <2>2
<1>11. i.op \notin {"STD", "access"} => Result(i) \in Words
  BY <1>3, <1>6, <1>7, <1>8, <1>9, <1>10
<1> QED
  BY <1>3, <1>4, <1>5, <1>11 DEF i

LEMMA ExecuteStep == FrameInv /\ Execute => FrameInv'
<1> SUFFICES ASSUME FrameInv, Execute PROVE FrameInv'
  OBVIOUS
<1> DEFINE i == code[I]
<1>1. /\ stage = "run" /\ I <= Len(code) /\ I' = I + 1
      /\ regs' = IF i.op \in {"STD", "access"} THEN regs ELSE [regs EXCEPT ![i.rd] = Result(i)]
      /\ mem' = IF i.op = "STD"
                THEN [a \in DOMAIN mem \cup {Address(i)} |->
                        IF a = Address(i) THEN regs[i.rd] ELSE mem[a]]
                ELSE mem
      /\ UNCHANGED <<source, code, assigned, spilled, objectOffset, stage>>
  BY DEF Execute, compiled
<1>2. /\ i.op # "access" => regs[i.rd] \in Words
      /\ i.op \notin {"STD", "access"} => Result(i) \in Words
  BY <1>1, Executed
<1> HIDE DEF i
<1>3. regs' \in [PhysRegs -> Words]
  BY <1>1, <1>2 DEF FrameInv
<1>4. \A a \in DOMAIN mem' : mem'[a] \in Words
  BY <1>1, <1>2 DEF FrameInv
<1>5. I' \in 1 .. Len(code) + 1 /\ InsnsNow' = InsnsNow
  BY <1>1 DEF FrameInv, InsnsNow
<1> QED
  BY <1>1, <1>3, <1>4, <1>5 DEF FrameInv

LEMMA ReturnStep == FrameInv /\ Return => FrameInv'
BY DEF FrameInv, Return, compiled, InsnsNow

LEMMA FrameStep == FrameInv /\ [Next]_vars => FrameInv'
<1> SUFFICES ASSUME FrameInv, [Next]_vars PROVE FrameInv'
  OBVIOUS
<1>1. CASE UNCHANGED vars
  BY <1>1 DEF vars, FrameInv, InsnsNow
<1> QED
  BY <1>1, SelectStep, AllocateStep, LayOutStep, EliminateStep, NextInstructionStep,
     EliminationDoneStep, ExecuteStep, ReturnStep DEF Next

LEMMA FrameInvariant == Spec => []FrameInv
BY FrameInit, FrameStep, PTL DEF Spec

\* The function and its execution are well typed: after elimination no frame
\* index is left and every register is a physical one.
THEOREM FrameTypeCorrect == Spec => []TypeOK
BY FrameInvariant, FrameInvGives, PTL

LEMMA FramePointerUnwritten ==
  ASSUME FrameInv, Execute
  PROVE  regs'[R10] = regs[R10]
<1> DEFINE i == code[I]
<1>1. /\ stage = "run" /\ I <= Len(code)
      /\ regs' = IF i.op \in {"STD", "access"} THEN regs ELSE [regs EXCEPT ![i.rd] = Result(i)]
  BY DEF Execute
<1>2. i.op \in {"STD", "access"} \/ i.rd \in Allocatable
  BY <1>1, Executed
<1> HIDE DEF i
<1> QED
  BY <1>1, <1>2, FrameAssumption DEF FrameInv, Allocatable, getReservedRegs

\* No instruction that compilation makes, whatever the source and whatever
\* the allocator does with what is not reserved, writes R10.
THEOREM FramePointerKept == Spec => FramePointerStays
<1>1. FrameInv /\ [Next]_vars => [stage = "run" => regs'[R10] = regs[R10]]_vars
  <2> SUFFICES ASSUME FrameInv, [Next]_vars, stage = "run"
               PROVE  regs'[R10] = regs[R10] \/ UNCHANGED vars
    OBVIOUS
  <2>1. CASE Execute
    BY <2>1, FramePointerUnwritten
  <2>2. CASE Return
    BY <2>2 DEF Return
  <2> QED
    BY <2>1, <2>2 DEF Next, SelectCode, AllocateRegisters, LayOutFrame, eliminateFrameIndex,
                      NextInstruction, EliminationDone
<1> QED
  BY <1>1, FrameInvariant, PTL DEF Spec, FramePointerStays

-----------------------------------------------------------------------------
(***************************************************************************)
(* What the code is, as a function of the source, the allocation and the   *)
(* layout.                                                                 *)
(***************************************************************************)

\* The objects the source uses, and their number.
UsedObjects == {source[m].fi : m \in DOMAIN source} \ {NoFI}
Places      == Cardinality(UsedObjects)

SelectedParts == [n \in DOMAIN source |-> Selected(source[n])]
SelectedCode  == FlattenSeq(SelectedParts)

\* The spill of the argument, and each instruction with its reloads and spills.
Arrival   == IF "ptr" \in spilled THEN <<Store(assigned["ptr"], Slot("ptr"))>> ELSE << >>
Units     == [n \in DOMAIN SelectedCode |-> Rewritten(SelectedCode[n], assigned, spilled)]
Allocated == Arrival \o FlattenSeq(Units)

\* What eliminateFrameIndex makes of an instruction.
Eliminated(i) ==
  IF i.fi = NoFI THEN <<i>>
  ELSE IF i.op = "MOV_rr"
       THEN <<[i EXCEPT !.rs = R10, !.fi = NoFI], AddImm(i.rd, ToInt(objectOffset[i.fi]))>>
       ELSE <<[i EXCEPT !.rs = R10, !.fi = NoFI, !.imm = ToInt(objectOffset[i.fi] + i.imm)]>>

FinalParts == [n \in DOMAIN Allocated |-> Eliminated(Allocated[n])]
FinalCode  == FlattenSeq(FinalParts)

\* The instructions of selected code.
Chosen ==
  { i \in Insns(VRegs, VRegs) :
      /\ i.op \in {"MOV_rr", "ADD_rr", "LD_imm64", "access"}
      /\ i.fi \in UsedObjects \cup {NoFI}
      /\ i.op = "ADD_rr" => i.rd = "sum" /\ i.rs = "imm" /\ i.fi = NoFI
      /\ i.op = "LD_imm64" => i.rs = NoReg /\ i.fi = NoFI
      /\ i.op \in {"MOV_rr", "access"} => (i.fi = NoFI <=> i.rs \in VRegs)
      /\ i.op = "access" => i.rd = NoReg
      /\ i.op = "access" /\ i.fi # NoFI => \A k \in 1 .. Places : isInt32(i.imm - Align * k) }

\* The instructions with registers, before elimination.
Allotted ==
  { i \in Insns(Allocatable, PhysRegs) :
      /\ i.fi \in UsedObjects \cup Slots \cup {NoFI}
      /\ i.op \in {"ADD_rr", "LD_imm64"} => i.fi = NoFI
      /\ i.op \in {"LDD", "STD"} => i.fi \in Slots /\ i.imm = 0
      /\ i.op \in {"MOV_rr", "access"} => i.fi \notin Slots
      /\ i.op = "access" /\ i.fi # NoFI => \A k \in 1 .. Places : isInt32(i.imm - Align * k)
      /\ i.op # "ADD_ri" }

LEMMA SourceTyped ==
  ASSUME FrameInv
  PROVE  /\ source \in Seq(Source) /\ SSA(source)
         /\ Len(source) \in Nat /\ DOMAIN source = 1 .. Len(source)
         /\ IsFiniteSet(UsedObjects) /\ Places \in Nat
         /\ UsedObjects \subseteq Objects
<1>1. source \in Seq(Source) /\ SSA(source)
  BY ProgramsAssumption DEF FrameInv
<1>2. Len(source) \in Nat /\ DOMAIN source = 1 .. Len(source)
  BY <1>1, LenProperties
<1>3. UsedObjects \subseteq Objects
  <2>1. \A n \in DOMAIN source : source[n].fi \in Objects \cup {NoFI}
    BY <1>1, <1>2 DEF Source
  <2> QED
    BY <2>1 DEF UsedObjects
<1>4. IsFiniteSet(UsedObjects)
  <2> DEFINE h == [n \in DOMAIN source |-> source[n].fi]
             T == {source[n].fi : n \in DOMAIN source}
  <2>1. h \in Surjection(DOMAIN source, T)
    BY DEF Surjection
  <2>2. IsFiniteSet(DOMAIN source)
    BY <1>2, FS_Interval
  <2>3. UsedObjects \subseteq T
    BY DEF UsedObjects
  <2> HIDE DEF h, T
  <2>4. IsFiniteSet(T)
    BY <2>1, <2>2, FS_Surjection
  <2> QED
    BY <2>3, <2>4, FS_Subset
<1>5. Places \in Nat
  BY <1>4, FS_CardinalityType DEF Places
<1> QED
  BY <1>1, <1>2, <1>3, <1>4, <1>5

\* Selection: an object with a constant folded stays within an int, wherever it is.
LEMMA ChosenInsns ==
  ASSUME FrameInv, FramesFit, NEW m \in DOMAIN source
  PROVE  Selected(source[m]) \in Seq(Chosen) /\ Len(Selected(source[m])) > 0
<1> DEFINE i == source[m]
<1>0. i \in Source
  BY SourceTyped
<1>1. /\ i.k \in {"take", "access"} /\ i.fi \in Objects \cup {NoFI} /\ i.off \in Int
      /\ i.reg \in {"ptr", "obj", NoReg} /\ (i.k = "take" => i.fi # NoFI)
      /\ (i.fi = NoFI <=> i.reg # NoReg)
  BY <1>0 DEF Source
<1>2. i.fi \in UsedObjects \cup {NoFI}
  BY DEF UsedObjects
<1>3. {"ptr", "obj", "sum", "imm"} = VRegs /\ NoReg \notin VRegs
  BY FrameAssumption DEF VRegs
<1>4. i.fi # NoFI /\ isInt32(i.off) => \A k \in 1 .. Places : isInt32(i.off - Align * k)
  BY DEF FramesFit, FrameInv, Places, UsedObjects
<1>5. UsedObjects \cup {NoFI} \subseteq Indices
  BY SourceTyped DEF Indices
<1> HIDE DEF i
<1>6. ASSUME NEW v \in VRegs, NEW w \in VRegs, NEW f \in UsedObjects, NEW n \in Int
      PROVE  /\ MoveFI(v, f) \in Chosen /\ Move(v, w) \in Chosen /\ LoadImm(v, n) \in Chosen
             /\ AddReg("sum", "imm") \in Chosen /\ Access(w, NoFI, n) \in Chosen
             /\ (\A k \in 1 .. Places : isInt32(n - Align * k)) => Access(NoReg, f, n) \in Chosen
  <2>1. f # NoFI /\ f \in Indices /\ NoFI \in Indices
    BY <1>5 DEF UsedObjects, Indices
  <2>2. NoReg \notin VRegs /\ "sum" \in VRegs /\ "imm" \in VRegs
    BY <1>3
  <2> QED
    BY <2>1, <2>2 DEF Chosen, Insns, MoveFI, Move, LoadImm, AddReg, Access, Insn
<1> DEFINE J == Chosen
<1>7. ASSUME NEW v \in VRegs, NEW w \in VRegs, NEW n \in Int
      PROVE  /\ Move(v, w) \in Chosen /\ LoadImm(v, n) \in Chosen
             /\ AddReg("sum", "imm") \in Chosen /\ Access(w, NoFI, n) \in Chosen
  <2>1. NoFI \in Indices
    BY DEF Indices
  <2>2. NoReg \notin VRegs /\ "sum" \in VRegs /\ "imm" \in VRegs
    BY <1>3
  <2> QED
    BY <2>1, <2>2 DEF Chosen, Insns, Move, LoadImm, AddReg, Access, Insn
<1>8. CASE i.k = "take"
  <2>1. Selected(i) = <<MoveFI("obj", i.fi)>>
    BY <1>8 DEF Selected
  <2>2. MoveFI("obj", i.fi) \in Chosen
    BY <1>1, <1>2, <1>3, <1>6, <1>8
  <2> QED
    BY <2>1, <2>2 DEF i
<1>9. CASE i.k = "access" /\ isInt32(i.off)
  <2>1. Selected(i) = <<Access(i.reg, i.fi, i.off)>>
    BY <1>9 DEF Selected, SelectAddr
  <2>2. Access(i.reg, i.fi, i.off) \in Chosen
    <3>1. CASE i.fi = NoFI
      BY <1>1, <1>3, <1>7, <3>1
    <3>2. CASE i.fi # NoFI
      BY <1>1, <1>2, <1>3, <1>4, <1>6, <1>9, <3>2
    <3> QED
      BY <3>1, <3>2
  <2> QED
    BY <2>1, <2>2 DEF i
<1>10. CASE i.k = "access" /\ ~isInt32(i.off)
  <2>1. Selected(i) = << IF i.fi # NoFI THEN MoveFI("sum", i.fi) ELSE Move("sum", i.reg),
                         LoadImm("imm", i.off), AddReg("sum", "imm"), Access("sum", NoFI, 0) >>
    BY <1>10 DEF Selected, SelectAddr
  <2>2. (IF i.fi # NoFI THEN MoveFI("sum", i.fi) ELSE Move("sum", i.reg)) \in Chosen
    <3>1. CASE i.fi = NoFI
      BY <1>1, <1>3, <1>7, <3>1
    <3>2. CASE i.fi # NoFI
      BY <1>1, <1>2, <1>3, <1>6, <3>2
    <3> QED
      BY <3>1, <3>2
  <2>3. LoadImm("imm", i.off) \in Chosen /\ AddReg("sum", "imm") \in Chosen
        /\ Access("sum", NoFI, 0) \in Chosen
    BY <1>1, <1>3, <1>7
  <2> QED
    BY <2>1, <2>2, <2>3 DEF i
<1> QED
  BY <1>1, <1>8, <1>9, <1>10 DEF i

LEMMA SelectedTyped ==
  ASSUME FrameInv, FramesFit
  PROVE  /\ SelectedParts \in Seq(Seq(Chosen)) /\ Len(SelectedParts) = Len(source)
         /\ SelectedCode \in Seq(Chosen)
         /\ Len(SelectedCode) \in Nat /\ DOMAIN SelectedCode = 1 .. Len(SelectedCode)
<1>1. Len(source) \in Nat /\ DOMAIN source = 1 .. Len(source)
  BY SourceTyped
<1>2. SelectedParts \in [1 .. Len(source) -> Seq(Chosen)]
  BY <1>1, ChosenInsns DEF SelectedParts
<1>3. SelectedParts \in Seq(Seq(Chosen)) /\ Len(SelectedParts) = Len(source)
  BY <1>1, <1>2
<1>4. SelectedCode \in Seq(Chosen)
  BY <1>3, FlattenSeqType DEF SelectedCode
<1> QED
  BY <1>3, <1>4, LenProperties

\* Definitions that depend on what compilation has fixed only.
LEMMA SameCode ==
  ASSUME UNCHANGED <<source, assigned, spilled, objectOffset>>
  PROVE  /\ SelectedParts' = SelectedParts /\ SelectedCode' = SelectedCode
         /\ Units' = Units /\ Arrival' = Arrival /\ Allocated' = Allocated
         /\ FinalParts' = FinalParts /\ FinalCode' = FinalCode
         /\ SourceTrace' = SourceTrace /\ UsedObjects' = UsedObjects /\ Places' = Places
<1>1. /\ UsedObjects' = UsedObjects /\ Places' = Places
      /\ SelectedCode' = SelectedCode /\ SelectedParts' = SelectedParts
  BY DEF SelectedCode, SelectedParts, UsedObjects, Places
<1>2. SourceTrace' = SourceTrace
  BY DEF SourceTrace, Accessed, Base
<1>3. Allocated' = Allocated /\ Units' = Units /\ Arrival' = Arrival
  BY DEF Allocated, Units, Arrival, SelectedCode, SelectedParts
<1>4. FinalCode' = FinalCode /\ FinalParts' = FinalParts
  BY DEF FinalCode, FinalParts, Eliminated, Allocated, Units, Arrival, SelectedCode, SelectedParts
<1> QED
  BY <1>1, <1>2, <1>3, <1>4

\* What AllocateRegisters gives.
Allotment ==
  /\ assigned \in [VRegs -> Allocatable] /\ spilled \subseteq VRegs
  /\ \A v, w \in VRegs : assigned[v] = assigned[w] => MayShare(spilled, v, w)

InPlace(i) == [i EXCEPT !.rd = IF @ \in VRegs THEN assigned[@] ELSE @,
                        !.rs = IF @ \in VRegs THEN assigned[@] ELSE @]

\* The instruction i after n reloads, with its spills behind it.
Around(i, u, n) ==
  /\ n \in 0 .. Len(u) - 1
  /\ \A j \in 1 .. n : \E v \in Uses(i) \cap spilled : u[j] = Load(assigned[v], Slot(v))
  /\ \A v \in Uses(i) \cap spilled : \E j \in 1 .. n : u[j] = Load(assigned[v], Slot(v))
  /\ u[n + 1] = InPlace(i)
  /\ \A j \in n + 2 .. Len(u) : \E v \in Defs(i) \cap spilled : u[j] = Store(assigned[v], Slot(v))
  /\ \A v \in Defs(i) \cap spilled : \E j \in n + 2 .. Len(u) : u[j] = Store(assigned[v], Slot(v))

LEMMA SpillsAllotted ==
  ASSUME Allotment, NEW v \in VRegs
  PROVE  /\ Load(assigned[v], Slot(v)) \in Allotted /\ Store(assigned[v], Slot(v)) \in Allotted
         /\ Slot(v) \in Slots /\ Slot(v) # NoFI
<1>1. Slot(v) \in Slots /\ Slot(v) # NoFI
  BY IndexAssumption DEF Slots
<1>2. assigned[v] \in Allocatable /\ assigned[v] \in PhysRegs
  BY DEF Allotment, Allocatable
<1> QED
  BY <1>1, <1>2 DEF Allotted, Insns, Indices, Load, Store, Insn

LEMMA InPlaceAllotted ==
  ASSUME FrameInv, Allotment, NEW i \in Chosen
  PROVE  InPlace(i) \in Allotted
<1>1. /\ i \in [op : {"MOV_rr", "ADD_ri", "ADD_rr", "LD_imm64", "LDD", "STD", "access"},
                rd : VRegs \cup {NoReg}, rs : VRegs \cup {NoReg}, fi : Indices, imm : Int]
      /\ i.op # "access" => i.rd \in VRegs
      /\ i.op # "LD_imm64" => i.fi # NoFI \/ i.rs \in VRegs
      /\ i.op \in {"MOV_rr", "ADD_rr", "LD_imm64", "access"}
      /\ i.fi \in UsedObjects \cup {NoFI}
      /\ i.op \in {"ADD_rr", "LD_imm64"} => i.fi = NoFI
      /\ i.op = "access" /\ i.fi # NoFI => \A k \in 1 .. Places : isInt32(i.imm - Align * k)
  BY DEF Chosen, Insns
<1> DEFINE phys(v) == IF v \in VRegs THEN assigned[v] ELSE v
           e == InPlace(i)
<1>2. /\ \A v \in VRegs : phys(v) \in Allocatable
      /\ \A v \in VRegs \cup {NoReg} : phys(v) \in Allocatable \cup {NoReg}
      /\ Allocatable \subseteq PhysRegs
  BY DEF Allotment, Allocatable
<1>3. e = [i EXCEPT !.rd = phys(@), !.rs = phys(@)]
  BY DEF InPlace
<1> HIDE DEF phys
<1>4. e.op = i.op /\ e.rd = phys(i.rd) /\ e.rs = phys(i.rs) /\ e.fi = i.fi /\ e.imm = i.imm
  BY <1>1, <1>3
<1>5. e \in [op : {"MOV_rr", "ADD_ri", "ADD_rr", "LD_imm64", "LDD", "STD", "access"},
             rd : Allocatable \cup {NoReg}, rs : PhysRegs \cup {NoReg}, fi : Indices, imm : Int]
  BY <1>1, <1>2, <1>3
<1> HIDE DEF e
<1>6. e \in Insns(Allocatable, PhysRegs)
  BY <1>1, <1>2, <1>4, <1>5 DEF Insns
<1>7. i.fi \notin Slots
  BY <1>1, SourceTyped, IndexAssumption
<1>8. /\ e.fi \in UsedObjects \cup Slots \cup {NoFI}
      /\ e.op \in {"ADD_rr", "LD_imm64"} => e.fi = NoFI
      /\ e.op \in {"LDD", "STD"} => e.fi \in Slots /\ e.imm = 0
      /\ e.op \in {"MOV_rr", "access"} => e.fi \notin Slots
      /\ e.op = "access" /\ e.fi # NoFI => \A k \in 1 .. Places : isInt32(e.imm - Align * k)
      /\ e.op # "ADD_ri"
  BY <1>1, <1>4, <1>7
<1>9. e \in Allotted
  BY <1>6, <1>8 DEF Allotted
<1> QED
  BY <1>9 DEF e

\* A rewritten instruction: its reloads, itself in registers, its spills.
LEMMA RewrittenAround ==
  ASSUME FrameInv, Allotment, NEW i \in Chosen
  PROVE  /\ Rewritten(i, assigned, spilled) \in Seq(Allotted)
         /\ Len(Rewritten(i, assigned, spilled)) > 0
         /\ \E n : Around(i, Rewritten(i, assigned, spilled), n)
<1> DEFINE loads == {Load(assigned[v], Slot(v)) : v \in Uses(i) \cap spilled}
           stores == {Store(assigned[v], Slot(v)) : v \in Defs(i) \cap spilled}
           e == InPlace(i)
<1>1. loads \subseteq Allotted /\ stores \subseteq Allotted /\ e \in Allotted
  BY SpillsAllotted, InPlaceAllotted DEF Uses, Defs
<1>2. IsFiniteSet(loads)
  <2>1. loads \subseteq {Load(assigned["ptr"], Slot("ptr")), Load(assigned["obj"], Slot("obj")),
                         Load(assigned["sum"], Slot("sum")), Load(assigned["imm"], Slot("imm"))}
    BY DEF Uses, VRegs
  <2> QED
    BY <2>1, AtMostFour
<1>3. IsFiniteSet(stores)
  <2>1. stores \subseteq {Store(assigned["ptr"], Slot("ptr")), Store(assigned["obj"], Slot("obj")),
                          Store(assigned["sum"], Slot("sum")), Store(assigned["imm"], Slot("imm"))}
    BY DEF Defs, VRegs
  <2> QED
    BY <2>1, AtMostFour
<1>4. Rewritten(i, assigned, spilled) = SetToSeq(loads) \o <<e>> \o SetToSeq(stores)
  BY DEF Rewritten, InPlace
<1>5. /\ \A x \in loads : \E v \in Uses(i) \cap spilled : x = Load(assigned[v], Slot(v))
      /\ \A v \in Uses(i) \cap spilled : Load(assigned[v], Slot(v)) \in loads
      /\ \A x \in stores : \E v \in Defs(i) \cap spilled : x = Store(assigned[v], Slot(v))
      /\ \A v \in Defs(i) \cap spilled : Store(assigned[v], Slot(v)) \in stores
  OBVIOUS
<1> HIDE DEF loads, stores, e
<1>6. PICK x \in Seq(loads) : x = SetToSeq(loads) /\ \A z \in loads : \E n \in 1 .. Len(x) : x[n] = z
  BY <1>2, Listed
<1>7. PICK y \in Seq(stores) : y = SetToSeq(stores) /\ \A z \in stores : \E n \in 1 .. Len(y) : y[n] = z
  BY <1>3, Listed
<1>8. PICK m \in Seq(Allotted) : m = <<e>> /\ Len(m) = 1 /\ m[1] = e
  BY <1>1, Singleton
<1>9. x \in Seq(Allotted) /\ y \in Seq(Allotted)
  BY <1>1, <1>6, <1>7
<1>10. PICK p \in Nat, q \in Nat : p = Len(x) /\ q = Len(y)
  BY LenProperties
<1>11. PICK u \in Seq(Allotted) :
          /\ u = x \o m \o y /\ Len(u) = p + 1 + q
          /\ \A n \in 1 .. p + 1 + q :
               u[n] = IF n <= p THEN x[n] ELSE IF n <= p + 1 THEN m[n - p] ELSE y[n - (p + 1)]
  <2>1. /\ x \o m \o y \in Seq(Allotted) /\ Len(x \o m \o y) = Len(x) + Len(m) + Len(y)
        /\ \A n \in 1 .. Len(x) + Len(m) + Len(y) :
             (x \o m \o y)[n] = IF n <= Len(x) THEN x[n]
                               ELSE IF n <= Len(x) + Len(m) THEN m[n - Len(x)]
                               ELSE y[n - (Len(x) + Len(m))]
    BY <1>9, ConcatThree
  <2>2. Len(x) = p /\ Len(m) = 1 /\ Len(y) = q
    BY <1>8, <1>10
  <2>3. PICK w \in Seq(Allotted) : w = x \o m \o y
    BY <2>1, Zenon
  <2>4. /\ Len(w) = p + 1 + q
        /\ \A n \in 1 .. p + 1 + q :
             w[n] = IF n <= p THEN x[n] ELSE IF n <= p + 1 THEN m[n - p] ELSE y[n - (p + 1)]
    BY <2>1, <2>2, <2>3, Zenon
  <2> QED
    BY <2>3, <2>4, Zenon
<1>12. p \in 0 .. Len(u) - 1
  BY <1>10, <1>11
<1>13. /\ \A n \in 1 .. p : u[n] = x[n] /\ x[n] \in loads
       /\ u[p + 1] = e
       /\ \A n \in p + 2 .. p + 1 + q : u[n] = y[n - (p + 1)] /\ y[n - (p + 1)] \in stores
  <2>1. ASSUME NEW n \in 1 .. p PROVE u[n] = x[n] /\ x[n] \in loads
    <3>1. n \in 1 .. p + 1 + q /\ n <= p /\ n \in 1 .. Len(x)
      BY <1>10
    <3> QED
      BY <1>11, <3>1, ElementOfSeq
  <2>2. u[p + 1] = e
    <3>1. p + 1 \in 1 .. p + 1 + q /\ ~(p + 1 <= p) /\ p + 1 <= p + 1 /\ (p + 1) - p = 1
      OBVIOUS
    <3>2. u[p + 1] = m[(p + 1) - p]
      BY <1>11, <3>1, Zenon
    <3> QED
      BY <1>8, <3>1, <3>2, Zenon
  <2>3. ASSUME NEW n \in p + 2 .. p + 1 + q
        PROVE u[n] = y[n - (p + 1)] /\ y[n - (p + 1)] \in stores
    <3>1. n \in 1 .. p + 1 + q /\ ~(n <= p) /\ ~(n <= p + 1) /\ n - (p + 1) \in 1 .. Len(y)
      BY <1>10
    <3> QED
      BY <1>11, <3>1, ElementOfSeq
  <2> QED
    BY <2>1, <2>2, <2>3
<1>14. ASSUME NEW v \in Uses(i) \cap spilled
       PROVE \E j \in 1 .. p : u[j] = Load(assigned[v], Slot(v))
  <2>1. PICK n \in 1 .. p : x[n] = Load(assigned[v], Slot(v))
    BY <1>5, <1>6, <1>10
  <2> QED
    BY <1>13, <2>1
<1>15. ASSUME NEW v \in Defs(i) \cap spilled
       PROVE \E j \in p + 2 .. p + 1 + q : u[j] = Store(assigned[v], Slot(v))
  <2>1. PICK n \in 1 .. q : y[n] = Store(assigned[v], Slot(v))
    BY <1>5, <1>7, <1>10
  <2>2. n + (p + 1) \in p + 2 .. p + 1 + q /\ (n + (p + 1)) - (p + 1) = n
    OBVIOUS
  <2> QED
    BY <1>13, <2>1, <2>2
<1>16. Around(i, u, p)
  <2>1. /\ \A j \in 1 .. p : \E v \in Uses(i) \cap spilled : u[j] = Load(assigned[v], Slot(v))
        /\ \A j \in p + 2 .. Len(u) : \E v \in Defs(i) \cap spilled : u[j] = Store(assigned[v], Slot(v))
    BY <1>5, <1>11, <1>13
  <2> QED
    BY <1>11, <1>12, <1>13, <1>14, <1>15, <2>1 DEF Around, e
<1>17. u = Rewritten(i, assigned, spilled) /\ Len(u) > 0
  BY <1>4, <1>6, <1>7, <1>8, <1>11
<1> QED
  BY <1>16, <1>17

-----------------------------------------------------------------------------
\* Where each part ends.
SelEnd   == CHOOSE b : Ends(SelectedCode, SelectedParts, b)
UnitEnd  == CHOOSE b : Ends(FlattenSeq(Units), Units, b)
FinalEnd == CHOOSE b : Ends(FinalCode, FinalParts, b)

\* The j-th instruction of the unit k, and the line at which it starts.
At(k, j) == Len(Arrival) + UnitEnd[k - 1] + j
Line(n)  == FinalEnd[n - 1] + 1

LEMMA SelectedEnds ==
  ASSUME FrameInv, FramesFit
  PROVE  Ends(SelectedCode, SelectedParts, SelEnd)
<1>1. \E b : Ends(SelectedCode, SelectedParts, b)
  BY SelectedTyped, FlattenSeqEnds DEF SelectedCode
<1> QED
  BY <1>1 DEF SelEnd

\* The allocated code, unit by unit.
LEMMA UnitsTyped ==
  ASSUME FrameInv, FramesFit, Allotment
  PROVE  /\ Units \in Seq(Seq(Allotted)) /\ Len(Units) = Len(SelectedCode)
         /\ FlattenSeq(Units) \in Seq(Allotted) /\ Arrival \in Seq(Allotted)
         /\ Allocated \in Seq(Allotted)
         /\ Len(Allocated) = Len(Arrival) + Len(FlattenSeq(Units))
         /\ Ends(FlattenSeq(Units), Units, UnitEnd)
         /\ \A k \in 1 .. Len(SelectedCode) :
              /\ SelectedCode[k] \in Chosen
              /\ Units[k] \in Seq(Allotted) /\ Len(Units[k]) > 0
              /\ \E n : Around(SelectedCode[k], Units[k], n)
<1>1. PICK K \in Nat : K = Len(SelectedCode) /\ DOMAIN SelectedCode = 1 .. K
  BY SelectedTyped
<1>2. ASSUME NEW k \in 1 .. K
      PROVE  /\ SelectedCode[k] \in Chosen
             /\ Units[k] = Rewritten(SelectedCode[k], assigned, spilled)
  BY <1>1, SelectedTyped DEF Units
<1>3. ASSUME NEW k \in 1 .. K
      PROVE  /\ Units[k] \in Seq(Allotted) /\ Len(Units[k]) > 0
             /\ \E n : Around(SelectedCode[k], Units[k], n)
  BY <1>2, RewrittenAround
<1>4. Units \in Seq(Seq(Allotted)) /\ Len(Units) = K
  <2>1. Units \in [1 .. K -> Seq(Allotted)]
    BY <1>1, <1>2, <1>3 DEF Units
  <2> QED
    BY <2>1
<1>5. FlattenSeq(Units) \in Seq(Allotted) /\ Ends(FlattenSeq(Units), Units, UnitEnd)
  <2>1. \E b : Ends(FlattenSeq(Units), Units, b)
    BY <1>4, FlattenSeqEnds
  <2> QED
    BY <1>4, <2>1, FlattenSeqType DEF UnitEnd
<1>6. Arrival \in Seq(Allotted)
  <2>1. CASE "ptr" \in spilled
    <3>1. Store(assigned["ptr"], Slot("ptr")) \in Allotted
      BY SpillsAllotted DEF VRegs
    <3> QED
      BY <2>1, <3>1 DEF Arrival
  <2>2. CASE "ptr" \notin spilled
    BY <2>2 DEF Arrival
  <2> QED
    BY <2>1, <2>2
<1>7. Allocated \in Seq(Allotted) /\ Len(Allocated) = Len(Arrival) + Len(FlattenSeq(Units))
  <2> PICK y \in Seq(Allotted) : y = FlattenSeq(Units)
    BY <1>5
  <2> QED
    BY <1>6 DEF Allocated
<1> QED
  BY <1>1, <1>2, <1>3, <1>4, <1>5, <1>6, <1>7

\* The instructions of a unit follow each other, and so do the units.
LEMMA AtUnit ==
  ASSUME FrameInv, FramesFit, Allotment
  PROVE  /\ At(1, 1) = Len(Arrival) + 1 /\ Len(Arrival) \in Nat /\ Len(Allocated) \in Nat
         /\ At(Len(SelectedCode) + 1, 1) = Len(Allocated) + 1
         /\ \A k \in 1 .. Len(SelectedCode) :
              /\ At(k, Len(Units[k]) + 1) = At(k + 1, 1)
              /\ \A j \in Int : At(k, j) \in Int /\ At(k, j + 1) = At(k, j) + 1
              /\ \A j \in 1 .. Len(Units[k]) :
                   At(k, j) \in 1 .. Len(Allocated) /\ Allocated[At(k, j)] = Units[k][j]
         /\ \A n \in 1 .. Len(Arrival) : Allocated[n] = Arrival[n]
<1>1. PICK K \in Nat : K = Len(SelectedCode) /\ K = Len(Units)
  BY SelectedTyped, UnitsTyped
<1>2. PICK f \in Seq(Allotted) : f = FlattenSeq(Units) /\ Allocated = Arrival \o f
  BY UnitsTyped DEF Allocated
<1>3. PICK h \in Nat, F \in Nat : h = Len(Arrival) /\ F = Len(f) /\ Len(Allocated) = h + F
  BY <1>2, UnitsTyped, LenProperties
<1>4. /\ UnitEnd \in [0 .. K -> Nat] /\ UnitEnd[0] = 0 /\ UnitEnd[K] = F
      /\ \A n \in 1 .. K :
           /\ UnitEnd[n] = UnitEnd[n - 1] + Len(Units[n])
           /\ \A j \in 1 .. Len(Units[n]) : f[UnitEnd[n - 1] + j] = Units[n][j]
  BY <1>1, <1>2, <1>3, UnitsTyped DEF Ends
<1>5. \A n \in 0 .. K : UnitEnd[n] \in 0 .. F
  BY <1>1, <1>2, <1>3, UnitsTyped, EndsInOrder
<1>6. /\ \A n \in 1 .. h : Allocated[n] = Arrival[n]
      /\ \A n \in 1 .. F : Allocated[h + n] = f[n]
  <2>1. \A n \in 1 .. Len(Arrival) + Len(f) : (Arrival \o f)[n] = IF n <= Len(Arrival) THEN Arrival[n] ELSE f[n - Len(Arrival)]
    BY UnitsTyped, ConcatProperties
  <2>2. ASSUME NEW n \in 1 .. h PROVE Allocated[n] = Arrival[n]
    BY <1>2, <1>3, <2>1
  <2>3. ASSUME NEW n \in 1 .. F PROVE Allocated[h + n] = f[n]
    <3>1. h + n \in 1 .. h + F /\ ~(h + n <= h) /\ (h + n) - h = n
      OBVIOUS
    <3> QED
      BY <1>2, <1>3, <2>1, <3>1
  <2> QED
    BY <2>2, <2>3
<1>7. ASSUME NEW k \in 1 .. K
      PROVE  /\ At(k, Len(Units[k]) + 1) = At(k + 1, 1)
             /\ \A j \in Int : At(k, j) \in Int /\ At(k, j + 1) = At(k, j) + 1
             /\ \A j \in 1 .. Len(Units[k]) :
                  At(k, j) \in 1 .. Len(Allocated) /\ Allocated[At(k, j)] = Units[k][j]
  <2>1. PICK L \in Nat : L = Len(Units[k])
    BY <1>1, UnitsTyped
  <2>2. PICK lo \in Nat, hi \in Nat : lo = UnitEnd[k - 1] /\ hi = UnitEnd[k] /\ hi = lo + L /\ hi <= F
    <3>1. k - 1 \in 0 .. K /\ k \in 0 .. K
      BY <1>1
    <3> QED
      BY <1>4, <1>5, <2>1, <3>1
  <2>3. (k + 1) - 1 = k
    OBVIOUS
  <2>4. At(k, L + 1) = At(k + 1, 1)
    <3>1. At(k, L + 1) = h + lo + (L + 1) /\ At(k + 1, 1) = h + hi + 1
      BY <1>3, <2>2, <2>3 DEF At
    <3>2. h + lo + (L + 1) = h + hi + 1
      <4>1. hi = lo + L
        BY <2>2
      <4> QED
        BY <4>1
    <3> QED
      BY <3>1, <3>2
  <2>5. ASSUME NEW j \in 1 .. L PROVE At(k, j) \in 1 .. h + F /\ Allocated[At(k, j)] = Units[k][j]
    <3>1. lo + j \in 1 .. F /\ h + lo + j = h + (lo + j) /\ h + (lo + j) \in 1 .. h + F
      <4>1. hi = lo + L /\ hi <= F
        BY <2>2
      <4> QED
        BY <4>1
    <3>2. f[lo + j] = Units[k][j]
      BY <1>4, <2>1, <2>2
    <3> QED
      BY <1>3, <1>6, <2>2, <3>1, <3>2 DEF At
  <2>6. \A j \in Int : At(k, j) \in Int /\ At(k, j + 1) = At(k, j) + 1
    BY <1>3, <2>2 DEF At
  <2> QED
    BY <1>3, <2>1, <2>4, <2>5, <2>6
<1>8. At(1, 1) = h + 1
  <2>1. 1 - 1 = 0
    OBVIOUS
  <2>2. At(1, 1) = h + 0 + 1
    BY <1>3, <1>4, <2>1 DEF At
  <2> QED
    BY <1>3, <2>2
<1>9. At(K + 1, 1) = h + F + 1
  <2>1. (K + 1) - 1 = K
    OBVIOUS
  <2> QED
    BY <1>3, <1>4, <2>1 DEF At
<1> QED
  BY <1>1, <1>3, <1>6, <1>7, <1>8, <1>9

\* The final code, an instruction of allocated code after the other.
LEMMA FinalTyped ==
  ASSUME FrameInv, FramesFit, Allotment
  PROVE  /\ FinalParts \in Seq(Seq(Insns(Allocatable, PhysRegs)))
         /\ Len(FinalParts) = Len(Allocated)
         /\ FinalCode \in Seq(Insns(Allocatable, PhysRegs))
         /\ Ends(FinalCode, FinalParts, FinalEnd)
         /\ \A n \in 1 .. Len(Allocated) :
              /\ Allocated[n] \in Allotted /\ FinalParts[n] = Eliminated(Allocated[n])
              /\ Len(FinalParts[n]) = IF Allocated[n].fi # NoFI /\ Allocated[n].op = "MOV_rr"
                                      THEN 2 ELSE 1
<1> DEFINE J == Insns(Allocatable, PhysRegs)
<1>1. PICK A \in Nat : A = Len(Allocated) /\ DOMAIN Allocated = 1 .. A
  BY UnitsTyped
<1>2. ASSUME NEW i \in Allotted
      PROVE  /\ Eliminated(i) \in Seq(J)
             /\ Len(Eliminated(i)) = IF i.fi # NoFI /\ i.op = "MOV_rr" THEN 2 ELSE 1
  <2>1. /\ i \in J
        /\ i \in [op : {"MOV_rr", "ADD_ri", "ADD_rr", "LD_imm64", "LDD", "STD", "access"},
                  rd : Allocatable \cup {NoReg}, rs : PhysRegs \cup {NoReg}, fi : Indices, imm : Int]
        /\ i.op # "access" => i.rd \in Allocatable
        /\ i.op # "LD_imm64" => i.fi # NoFI \/ i.rs \in PhysRegs
    BY DEF Allotted, Insns
  <2>2. CASE i.fi = NoFI
    <3>1. Eliminated(i) = <<i>>
      BY <2>2 DEF Eliminated
    <3> QED
      BY <2>1, <2>2, <3>1
  <2>3. CASE i.fi # NoFI
    <3>1. i.fi \in Objects \cup Slots /\ objectOffset[i.fi] \in Int /\ i.imm \in Int
      BY <2>1, <2>3 DEF Indices, FrameInv
    <3>2. PICK x \in Int, y \in Int : x = ToInt(objectOffset[i.fi]) /\ y = ToInt(objectOffset[i.fi] + i.imm)
      BY <3>1, ToIntType
    <3>3. R10 \in PhysRegs
      BY FrameAssumption
    <3> DEFINE a == [i EXCEPT !.rs = R10, !.fi = NoFI]
               b == AddImm(i.rd, x)
               c == [i EXCEPT !.rs = R10, !.fi = NoFI, !.imm = y]
    <3>4. a \in J /\ c \in J
      BY <2>1, <3>2, <3>3 DEF Insns, Indices
    <3>5. i.op = "MOV_rr" => b \in J
      BY <2>1, <3>2 DEF AddImm, Insn, Insns, Indices, Allocatable
    <3>6. Eliminated(i) = IF i.op = "MOV_rr" THEN <<a, b>> ELSE <<c>>
      BY <2>3, <3>2 DEF Eliminated
    <3> HIDE DEF a, b, c, J
    <3>7. CASE i.op = "MOV_rr"
      BY <2>3, <3>4, <3>5, <3>6, <3>7
    <3>8. CASE i.op # "MOV_rr"
      BY <2>3, <3>4, <3>6, <3>8
    <3> QED
      BY <3>7, <3>8
  <2> QED
    BY <2>2, <2>3
<1> HIDE DEF J
<1>3. ASSUME NEW n \in 1 .. A
      PROVE  Allocated[n] \in Allotted /\ FinalParts[n] = Eliminated(Allocated[n])
  BY <1>1, UnitsTyped DEF FinalParts
<1>4. FinalParts \in Seq(Seq(J)) /\ Len(FinalParts) = A
  <2>1. FinalParts \in [1 .. A -> Seq(J)]
    BY <1>1, <1>2, <1>3 DEF FinalParts
  <2> QED
    BY <2>1
<1>5. FinalCode \in Seq(J) /\ \E b : Ends(FinalCode, FinalParts, b)
  BY <1>4, FlattenSeqType, FlattenSeqEnds DEF FinalCode
<1>6. Ends(FinalCode, FinalParts, FinalEnd)
  BY <1>5 DEF FinalEnd
<1>7. ASSUME NEW n \in 1 .. A
      PROVE  Len(FinalParts[n]) = IF Allocated[n].fi # NoFI /\ Allocated[n].op = "MOV_rr" THEN 2 ELSE 1
  BY <1>2, <1>3
<1> QED
  BY <1>1, <1>3, <1>4, <1>5, <1>6, <1>7 DEF J

\* What is at the lines of an instruction.
LEMMA Lines ==
  ASSUME FrameInv, FramesFit, Allotment
  PROVE  /\ Line(1) = 1 /\ Line(Len(Allocated) + 1) = Len(FinalCode) + 1
         /\ \A n \in 1 .. Len(Allocated) :
              /\ Line(n) \in 1 .. Len(FinalCode)
              /\ Line(n + 1) = Line(n) + Len(FinalParts[n])
              /\ \A j \in 1 .. Len(FinalParts[n]) :
                   /\ Line(n) + j - 1 \in 1 .. Len(FinalCode)
                   /\ FinalCode[Line(n) + j - 1] = FinalParts[n][j]
<1>1. PICK A \in Nat : A = Len(Allocated) /\ A = Len(FinalParts)
  BY AtUnit, FinalTyped
<1>2. PICK F \in Nat : F = Len(FinalCode)
  BY FinalTyped
<1>3. /\ FinalEnd \in [0 .. A -> Nat] /\ FinalEnd[0] = 0 /\ FinalEnd[A] = F
      /\ \A n \in 1 .. A :
           /\ FinalEnd[n] = FinalEnd[n - 1] + Len(FinalParts[n])
           /\ \A j \in 1 .. Len(FinalParts[n]) : FinalCode[FinalEnd[n - 1] + j] = FinalParts[n][j]
  BY <1>1, <1>2, FinalTyped DEF Ends
<1>4. \A n \in 0 .. A : FinalEnd[n] \in 0 .. F
  BY <1>1, <1>2, FinalTyped, EndsInOrder
<1>5. ASSUME NEW n \in 1 .. A
      PROVE  /\ Line(n) \in 1 .. F /\ Line(n + 1) = Line(n) + Len(FinalParts[n])
             /\ \A j \in 1 .. Len(FinalParts[n]) :
                  Line(n) + j - 1 \in 1 .. F /\ FinalCode[Line(n) + j - 1] = FinalParts[n][j]
  <2>1. PICK L \in 1 .. 2 : L = Len(FinalParts[n])
    <3>1. Len(FinalParts[n]) = 1 \/ Len(FinalParts[n]) = 2
      BY <1>1, FinalTyped
    <3> QED
      BY <3>1
  <2>2. PICK lo \in Nat, hi \in Nat : lo = FinalEnd[n - 1] /\ hi = FinalEnd[n] /\ hi = lo + L /\ hi <= F
    <3>1. n - 1 \in 0 .. A /\ n \in 0 .. A
      BY <1>1
    <3>2. FinalEnd[n - 1] \in Nat /\ FinalEnd[n] \in Nat /\ FinalEnd[n] <= F
      BY <1>2, <1>3, <1>4, <3>1
    <3> QED
      BY <1>3, <2>1, <3>1, <3>2
  <2>3. (n + 1) - 1 = n
    OBVIOUS
  <2>4. Line(n) = lo + 1 /\ Line(n + 1) = hi + 1
    BY <2>2, <2>3 DEF Line
  <2>5. ASSUME NEW j \in 1 .. L
        PROVE  Line(n) + j - 1 \in 1 .. F /\ FinalCode[Line(n) + j - 1] = FinalParts[n][j]
    <3>1. Line(n) + j - 1 = lo + j /\ lo + j \in 1 .. F
      BY <2>2, <2>4
    <3>2. FinalCode[lo + j] = FinalParts[n][j]
      BY <1>3, <2>1, <2>2
    <3> QED
      BY <3>1, <3>2
  <2>6. Line(n) \in 1 .. F /\ Line(n + 1) = Line(n) + L
    <3>1. lo + 1 \in 1 .. F /\ hi + 1 = (lo + 1) + L
      BY <2>2
    <3> QED
      BY <2>4, <3>1, Zenon
  <2> QED
    BY <2>1, <2>5, <2>6
<1>6. Line(1) = 1
  <2>1. 1 - 1 = 0
    OBVIOUS
  <2> QED
    BY <1>3, <2>1 DEF Line
<1>7. Line(A + 1) = F + 1
  <2>1. (A + 1) - 1 = A
    OBVIOUS
  <2> QED
    BY <1>3, <2>1 DEF Line
<1> QED
  BY <1>1, <1>2, <1>5, <1>6, <1>7

\* Division with remainder has one solution.
LEMMA RemainderUnique ==
  ASSUME NEW a \in Int, NEW m \in Nat \ {0}, NEW q \in Int, NEW r \in 0 .. m - 1,
         a = (m * q) + r
  PROVE  a % m = r
OBVIOUS

LEMMA RemainderExists ==
  ASSUME NEW a \in Int, NEW m \in Nat \ {0}
  PROVE  \E q \in Int, r \in 0 .. m - 1 : a = (m * q) + r /\ a % m = r
<1>1. a \div m \in Int /\ a % m \in 0 .. m - 1 /\ a = (m * (a \div m)) + (a % m)
  OBVIOUS
<1> QED
  BY <1>1

\* The remainder of a sum, from the remainders.
LEMMA RemainderOfSum ==
  ASSUME NEW x \in Int, NEW y \in Int, NEW m \in Nat \ {0}
  PROVE  /\ ((x % m) + y) % m = (x + y) % m
         /\ ((x % m) + (y % m)) % m = (x + y) % m
<1>1. PICK q \in Int, r \in 0 .. m - 1 : x = (m * q) + r /\ x % m = r
  BY RemainderExists
<1>2. PICK p \in Int, s \in 0 .. m - 1 : y = (m * p) + s /\ y % m = s
  BY RemainderExists
<1>3. ASSUME NEW k \in Int, NEW z \in Int
      PROVE  ((m * k) + z) % m = z % m
  <2>1. PICK c \in Int, d \in 0 .. m - 1 : z = (m * c) + d /\ z % m = d
    BY RemainderExists
  <2>2. (m * k) + z = (m * (k + c)) + d /\ k + c \in Int /\ (m * k) + z \in Int
    BY <2>1
  <2> QED
    BY <2>1, <2>2, RemainderUnique
<1>4. r + y \in Int /\ r + s \in Int /\ q + p \in Int
      /\ x + y = (m * q) + (r + y) /\ x + y = (m * (q + p)) + (r + s)
  BY <1>1, <1>2
<1>5. (x + y) % m = (r + y) % m
  <2>1. ((m * q) + (r + y)) % m = (r + y) % m
    BY <1>3, <1>4
  <2> QED
    BY <1>4, <2>1
<1>6. (x + y) % m = (r + s) % m
  <2>1. ((m * (q + p)) + (r + s)) % m = (r + s) % m
    BY <1>3, <1>4
  <2> QED
    BY <1>4, <2>1
<1> QED
  BY <1>1, <1>2, <1>5, <1>6

\* Two numbers that are not far apart have different remainders.
LEMMA RemaindersDiffer ==
  ASSUME NEW a \in Int, NEW x \in Int, NEW y \in Int, NEW m \in Nat \ {0}, x < y, y - x < m
  PROVE  (a + x) % m # (a + y) % m
<1>1. PICK q \in Int, r \in 0 .. m - 1 : a + x = (m * q) + r /\ (a + x) % m = r
  <2>1. a + x \in Int
    OBVIOUS
  <2> QED
    BY <2>1, RemainderExists
<1>2. PICK p \in Int, s \in 0 .. m - 1 : a + y = (m * p) + s /\ (a + y) % m = s
  <2>1. a + y \in Int
    OBVIOUS
  <2> QED
    BY <2>1, RemainderExists
<1>3. ASSUME r = s PROVE FALSE
  <2>1. y - x = m * (p - q)
    BY <1>1, <1>2, <1>3
  <2>2. CASE p <= q
    <3>1. q - p \in Nat /\ m * (q - p) \in Nat /\ m * (p - q) = -(m * (q - p))
      BY <2>2
    <3> QED
      BY <2>1, <3>1
  <2>3. CASE p > q
    <3>1. (p - q) - 1 \in Nat /\ m * ((p - q) - 1) \in Nat /\ m * (p - q) = m * ((p - q) - 1) + m
      BY <2>3
    <3> QED
      BY <2>1, <3>1
  <2> QED
    BY <2>2, <2>3
<1> QED
  BY <1>1, <1>2, <1>3

\* What an int can hold.
LEMMA IntRange ==
  ASSUME NEW z \in Int
  PROVE  isInt32(z) <=> -ImmMod <= 2 * z /\ 2 * z < ImmMod
<1>1. PICK w \in Nat \ {0} : w = ImmMod
  BY FrameAssumption
<1>2. PICK q \in Int, r \in 0 .. w - 1 : z = (w * q) + r /\ z % w = r
  BY RemainderExists
<1>3. ToInt(z) = IF 2 * r < w THEN r ELSE r - w
  BY <1>1, <1>2 DEF ToInt
<1>4. ASSUME ToInt(z) = z PROVE -w <= 2 * z /\ 2 * z < w
  BY <1>3, <1>4
<1>5. ASSUME -w <= 2 * z, 2 * z < w PROVE ToInt(z) = z
  <2>1. CASE z >= 0
    <3>1. z \in 0 .. w - 1 /\ z = (w * 0) + z
      BY <1>5, <2>1
    <3>2. r = z
      BY <1>2, <3>1, RemainderUnique
    <3> QED
      BY <1>3, <1>5, <3>2
  <2>2. CASE z < 0
    <3>1. z + w \in 0 .. w - 1 /\ z = (w * (-1)) + (z + w)
      BY <1>5, <2>2
    <3>2. r = z + w
      BY <1>2, <3>1, RemainderUnique
    <3> QED
      BY <1>3, <1>5, <3>2
  <2> QED
    BY <2>1, <2>2
<1> QED
  BY <1>1, <1>4, <1>5 DEF isInt32

LEMMA VRegsFinite == IsFiniteSet(VRegs) /\ Cardinality(VRegs) \in Nat
<1>1. VRegs \subseteq {"ptr", "obj", "sum", "imm"}
  BY DEF VRegs
<1>2. IsFiniteSet(VRegs)
  BY <1>1, AtMostFour
<1> QED
  BY <1>2, FS_CardinalityType

\* The offsets of the frame are ints, and none of them wraps around.
LEMMA OffsetsFit ==
  ASSUME FrameInv, FramesFit, NEW k \in 0 .. Places + Cardinality(VRegs)
  PROVE  isInt32(-Align * k) /\ Align * k < WordMod
<1>1. PICK N \in Nat : N = Places + Cardinality(VRegs)
  BY SourceTyped, VRegsFinite
<1>2. isInt32(-Align * N)
  BY <1>1 DEF FramesFit, FrameInv, Places, UsedObjects
<1>3. PICK w \in Nat \ {0} : w = ImmMod
  BY FrameAssumption
<1>4. PICK W \in Nat : W = WordMod /\ w <= W
  BY <1>3, FrameAssumption
<1>5. k \in Nat /\ k <= N /\ -Align * N \in Int /\ -Align * k \in Int /\ Align = 8
  BY <1>1 DEF Align
<1>6. -w <= 2 * (-Align * N)
  BY <1>2, <1>3, <1>5, IntRange
<1>7. -w <= 2 * (-Align * k) /\ 2 * (-Align * k) < w
  BY <1>5, <1>6
<1>8. isInt32(-Align * k)
  BY <1>3, <1>5, <1>7, IntRange
<1> QED
  BY <1>4, <1>5, <1>7, <1>8

-----------------------------------------------------------------------------
\* Every object and slot that the code uses has a place of its own.
Placed(place) ==
  /\ place \in [Objects \cup Slots -> 0 .. Places + Cardinality(VRegs)]
  /\ \A f \in Objects \cup Slots : objectOffset[f] = -Align * place[f]
  /\ \A n \in DOMAIN Allocated : Allocated[n].fi # NoFI =>
       /\ Allocated[n].fi \in Objects => place[Allocated[n].fi] \in 1 .. Places
       /\ \A g \in Objects \cup Slots : g # Allocated[n].fi => place[g] # place[Allocated[n].fi]

LaidOut == \E place : Placed(place)

\* The code while indices are eliminated: those of the first m - 1 are.
Mixed(c, m) ==
  /\ m \in 1 .. Len(Allocated) + 1
  /\ Len(c) + 1 = Line(m) + ((Len(Allocated) + 1) - m)
  /\ \A n \in 1 .. Line(m) - 1 : c[n] = FinalCode[n]
  /\ \A n \in m .. Len(Allocated) : c[Line(m) + (n - m)] = Allocated[n]

Partway(m) ==
  /\ Mixed(code, m)
  /\ I = Line(m) \/ (I = Line(m) - 1 /\ code[I].fi = NoFI)

Made ==
  /\ stage = "allocate" => code = SelectedCode
  /\ stage \in {"layout", "eliminate", "run", "halt"} => Allotment
  /\ stage = "layout" => code = Allocated
  /\ stage \in {"eliminate", "run", "halt"} => LaidOut
  /\ stage = "eliminate" => \E m : Partway(m)
  /\ stage \in {"run", "halt"} => code = FinalCode
  /\ stage \in {"select", "allocate", "layout", "eliminate"} => trace = << >>

LEMMA SameEnds ==
  ASSUME UNCHANGED <<source, assigned, spilled, objectOffset>>
  PROVE  /\ FinalEnd' = FinalEnd /\ UnitEnd' = UnitEnd /\ SelEnd' = SelEnd
         /\ Allotment' = Allotment /\ LaidOut' = LaidOut
         /\ \A n : Line(n)' = Line(n)
<1>1. FinalEnd' = FinalEnd /\ UnitEnd' = UnitEnd /\ SelEnd' = SelEnd
  BY SameCode DEF FinalEnd, UnitEnd, SelEnd
<1>2. Allotment' = Allotment
  BY DEF Allotment
<1>3. LaidOut' = LaidOut
  BY SameCode DEF LaidOut, Placed
<1>4. \A n : Line(n)' = Line(n)
  BY <1>1 DEF Line
<1> QED
  BY <1>1, <1>2, <1>3, <1>4

LEMMA MadeInit == Init => Made
BY DEF Init, Made

\* Every step of the compilation makes the code that Made says.
LEMMA SelectMakes == FrameInv /\ Made /\ SelectCode => Made'
<1> SUFFICES ASSUME Made, SelectCode PROVE Made'
  OBVIOUS
<1>1. /\ code' = FlattenSeq([n \in DOMAIN source |-> Selected(source[n])])
      /\ stage' = "allocate" /\ source' = source /\ trace' = trace /\ stage = "select"
  BY DEF SelectCode
<1>2. code' = SelectedCode'
  BY <1>1 DEF SelectedCode, SelectedParts
<1> QED
  BY <1>1, <1>2 DEF Made

LEMMA AllocateMakes ==
  ASSUME FrameInv, Made, NEW a \in [VRegs -> PhysRegs \ getReservedRegs], NEW s \in SUBSET VRegs,
         AllocateRegisters(a, s)
  PROVE  Made'
<1>1. /\ stage = "allocate" /\ stage' = "layout" /\ assigned' = a /\ spilled' = s
      /\ \A v, w \in VRegs : a[v] = a[w] => MayShare(s, v, w)
      /\ code' = (IF "ptr" \in s THEN <<Store(a["ptr"], Slot("ptr"))>> ELSE << >>)
                   \o FlattenSeq([n \in DOMAIN code |-> Rewritten(code[n], a, s)])
      /\ UNCHANGED <<source, objectOffset, I, regs, mem, trace>>
  BY DEF AllocateRegisters
<1>2. code = SelectedCode /\ SelectedCode' = SelectedCode
  BY <1>1 DEF Made, SelectedCode, SelectedParts
<1>3. Units' = [n \in DOMAIN code |-> Rewritten(code[n], a, s)]
  BY <1>1, <1>2 DEF Units
<1>4. Arrival' = IF "ptr" \in s THEN <<Store(a["ptr"], Slot("ptr"))>> ELSE << >>
  BY <1>1 DEF Arrival
<1>5. code' = Allocated'
  BY <1>1, <1>3, <1>4 DEF Allocated
<1>6. Allotment'
  BY <1>1 DEF Allotment, Allocatable
<1> QED
  BY <1>1, <1>5, <1>6 DEF Made

\* A sequence of SetToSeqs has the length of its set.
LEMMA ListedOnce ==
  ASSUME NEW S, IsFiniteSet(S), NEW q \in SetToSeqs(S)
  PROVE  q \in Seq(S) /\ Len(q) = Cardinality(S)
<1>1. Cardinality(S) \in Nat
  BY FS_CardinalityType
<1>2. q \in [1 .. Cardinality(S) -> S]
  BY DEF SetToSeqs
<1> QED
  BY <1>1, <1>2

LEMMA FirstLine == FrameInv /\ FramesFit /\ Allotment => Line(1) = 1
BY Lines

\* The layout: used objects at the first places, slots behind them, no two at one.
LEMMA LayOutMakes ==
  ASSUME FrameInv, FramesFit, Made, NEW o \in SetToSeqs(UsedIndices \cap Objects),
         NEW s \in SetToSeqs(UsedIndices \cap Slots), LayOutFrame(o \o s)
  PROVE  Made'
<1>1. /\ stage = "layout" /\ stage' = "eliminate"
      /\ objectOffset' = [f \in Objects \cup Slots |->
           IF f \in UsedIndices THEN -Align * (CHOOSE n \in DOMAIN (o \o s) : (o \o s)[n] = f) ELSE 0]
      /\ UNCHANGED <<source, code, assigned, spilled, I, regs, mem, trace>>
  BY DEF LayOutFrame
<1>2. code = Allocated /\ Allotment /\ trace = << >>
  BY <1>1 DEF Made
<1>3. PICK A \in Nat : A = Len(Allocated) /\ DOMAIN Allocated = 1 .. A
  BY <1>2, UnitsTyped
<1>4. UsedIndices = {Allocated[n].fi : n \in 1 .. A} \ {NoFI}
  BY <1>2, <1>3 DEF UsedIndices
<1>5. UsedIndices \subseteq UsedObjects \cup Slots
  <2>1. ASSUME NEW n \in 1 .. A PROVE Allocated[n].fi \in UsedObjects \cup Slots \cup {NoFI}
    BY <1>2, <1>3, FinalTyped DEF Allotted
  <2> QED
    BY <1>4, <2>1
<1>6. IsFiniteSet(Slots) /\ Cardinality(Slots) \in Nat /\ Cardinality(Slots) <= Cardinality(VRegs)
  <2> DEFINE h == [v \in VRegs |-> Slot(v)]
  <2>1. h \in Surjection(VRegs, Slots)
    BY DEF Surjection, Slots
  <2> HIDE DEF h
  <2> QED
    BY <2>1, VRegsFinite, FS_Surjection, FS_CardinalityType
<1>7. PICK p \in Nat, q \in Nat : /\ p = Len(o) /\ q = Len(s) /\ p <= Places /\ q <= Cardinality(VRegs)
                                  /\ o \in Seq(UsedIndices \cap Objects) /\ s \in Seq(UsedIndices \cap Slots)
                                  /\ \A e \in UsedIndices \cap Objects : \E n \in 1 .. p : o[n] = e
                                  /\ \A e \in UsedIndices \cap Slots : \E n \in 1 .. q : s[n] = e
  <2>1. UsedIndices \cap Objects \subseteq UsedObjects /\ UsedIndices \cap Slots \subseteq Slots
    BY <1>5, IndexAssumption
  <2>2. /\ IsFiniteSet(UsedIndices \cap Objects) /\ Cardinality(UsedIndices \cap Objects) <= Places
        /\ IsFiniteSet(UsedIndices \cap Slots) /\ Cardinality(UsedIndices \cap Slots) <= Cardinality(Slots)
    BY <1>6, <2>1, SourceTyped, FS_Subset DEF Places
  <2>3. /\ o \in Seq(UsedIndices \cap Objects) /\ s \in Seq(UsedIndices \cap Slots)
        /\ \A e \in UsedIndices \cap Objects : \E n \in 1 .. Len(o) : o[n] = e
        /\ \A e \in UsedIndices \cap Slots : \E n \in 1 .. Len(s) : s[n] = e
    <3>1. /\ o \in Seq(UsedIndices \cap Objects)
          /\ \A e \in UsedIndices \cap Objects : \E n \in 1 .. Len(o) : o[n] = e
      <4>1. IsFiniteSet(UsedIndices \cap Objects)
        BY <2>2
      <4> QED
        BY <4>1, ListedInOrder, ZenonT(30)
    <3>2. /\ s \in Seq(UsedIndices \cap Slots)
          /\ \A e \in UsedIndices \cap Slots : \E n \in 1 .. Len(s) : s[n] = e
      <4>1. IsFiniteSet(UsedIndices \cap Slots)
        BY <2>2
      <4> QED
        BY <4>1, ListedInOrder, ZenonT(30)
    <3> QED
      BY <3>1, <3>2
  <2>4. Len(o) = Cardinality(UsedIndices \cap Objects) /\ Len(s) = Cardinality(UsedIndices \cap Slots)
    BY <2>2, ListedOnce
  <2>5. Len(o) \in Nat /\ Len(s) \in Nat
    BY <2>3, LenProperties
  <2>6. Len(s) <= Cardinality(VRegs)
    BY <1>6, <2>2, <2>4, <2>5, VRegsFinite
  <2> QED
    BY <2>2, <2>3, <2>4, <2>5, <2>6, ZenonT(30)
<1>8. PICK t : /\ t = o \o s /\ DOMAIN t = 1 .. p + q
               /\ \A n \in 1 .. p + q : t[n] = IF n <= p THEN o[n] ELSE s[n - p]
  <2>1. /\ DOMAIN (o \o s) = 1 .. Len(o) + Len(s)
        /\ \A n \in 1 .. Len(o) + Len(s) :
             (o \o s)[n] = IF n <= Len(o) THEN o[n] ELSE s[n - Len(o)]
    BY <1>7
  <2>2. Len(o) = p /\ Len(s) = q
    BY <1>7, Zenon
  <2>3. PICK w : w = o \o s
    OBVIOUS
  <2>4. /\ DOMAIN w = 1 .. p + q
        /\ \A n \in 1 .. p + q : w[n] = IF n <= p THEN o[n] ELSE s[n - p]
    BY <2>1, <2>2, <2>3, Zenon
  <2> QED
    BY <2>3, <2>4, Zenon
<1>9. ASSUME NEW n \in 1 .. p + q
      PROVE  /\ n <= p => t[n] \in Objects /\ t[n] \in UsedIndices
             /\ ~(n <= p) => t[n] \in Slots /\ t[n] \in UsedIndices
  <2>1. CASE n <= p
    <3>1. n \in 1 .. Len(o)
      BY <1>7, <2>1
    <3>2. o[n] \in UsedIndices \cap Objects
      BY <1>7, <3>1, ElementOfSeq
    <3> QED
      BY <1>8, <2>1, <3>2
  <2>2. CASE ~(n <= p)
    <3>1. n - p \in 1 .. Len(s)
      BY <1>7, <2>2
    <3>2. s[n - p] \in UsedIndices \cap Slots
      BY <1>7, <3>1, ElementOfSeq
    <3> QED
      BY <1>8, <2>2, <3>2
  <2> QED
    BY <2>1, <2>2
<1>10. ASSUME NEW f \in UsedIndices PROVE \E n \in 1 .. p + q : t[n] = f
  <2>1. f \in Objects \/ f \in Slots
    BY <1>5, SourceTyped
  <2>2. CASE f \in Objects
    <3>1. PICK n \in 1 .. p : o[n] = f
      BY <1>7, <2>2
    <3>2. n \in 1 .. p + q /\ n <= p
      BY <1>7
    <3> QED
      BY <1>8, <3>1, <3>2
  <2>3. CASE f \in Slots
    <3>1. PICK n \in 1 .. q : s[n] = f
      BY <1>7, <2>3
    <3>2. n + p \in 1 .. p + q /\ ~(n + p <= p) /\ (n + p) - p = n
      BY <1>7
    <3> QED
      BY <1>8, <3>1, <3>2
  <2> QED
    BY <2>1, <2>2, <2>3
<1> DEFINE place == [f \in Objects \cup Slots |->
                       IF f \in UsedIndices THEN CHOOSE n \in 1 .. p + q : t[n] = f ELSE 0]
<1>11. ASSUME NEW f \in Objects \cup Slots, f \in UsedIndices
       PROVE place[f] \in 1 .. p + q /\ t[place[f]] = f
  BY <1>10, <1>11
<1>12. \A f \in Objects \cup Slots : f \notin UsedIndices => place[f] = 0
  OBVIOUS
<1>13. \A f \in Objects \cup Slots : objectOffset'[f] = -Align * place[f]
  <2>1. ASSUME NEW f \in Objects \cup Slots, f \in UsedIndices PROVE objectOffset'[f] = -Align * place[f]
    BY <1>1, <1>8, <2>1
  <2>2. ASSUME NEW f \in Objects \cup Slots, f \notin UsedIndices PROVE objectOffset'[f] = -Align * place[f]
    <3>1. -Align * 0 = 0
      <4>1. \A a \in Int : -a * 0 = 0
        OBVIOUS
      <4>2. Align \in Int
        BY DEF Align
      <4> QED
        BY <4>1, <4>2
    <3> QED
      BY <1>1, <1>12, <2>2, <3>1
  <2> QED
    BY <2>1, <2>2
<1>14. DOMAIN place = Objects \cup Slots /\ place = [f \in DOMAIN place |-> place[f]]
  OBVIOUS
<1> HIDE DEF place
<1>15. place \in [Objects \cup Slots -> 0 .. Places + Cardinality(VRegs)]
  <2>1. \A n \in 1 .. p + q : n \in 0 .. Places + Cardinality(VRegs)
    BY <1>7, SourceTyped, VRegsFinite
  <2>2. 0 \in 0 .. Places + Cardinality(VRegs)
    BY SourceTyped, VRegsFinite
  <2>3. \A f \in Objects \cup Slots : place[f] \in 0 .. Places + Cardinality(VRegs)
    BY <1>11, <1>12, <2>1, <2>2
  <2> QED
    BY <1>14, <2>3
<1>16. ASSUME NEW f \in UsedIndices
       PROVE  /\ f \in Objects => place[f] \in 1 .. Places
              /\ \A g \in Objects \cup Slots : g # f => place[g] # place[f]
  <2>1. f \in Objects \cup Slots
    BY <1>5, SourceTyped
  <2>2. place[f] \in 1 .. p + q /\ t[place[f]] = f
    BY <1>11, <2>1
  <2>3. ASSUME f \in Objects PROVE place[f] \in 1 .. Places
    <3>1. place[f] <= p
      BY <1>9, <2>2, <2>3, IndexAssumption
    <3> QED
      BY <1>7, <2>2, <3>1, SourceTyped
  <2>4. ASSUME NEW g \in Objects \cup Slots, g # f PROVE place[g] # place[f]
    <3>1. place[f] # 0
      BY <2>2
    <3>2. g \in UsedIndices => t[place[g]] = g
      BY <1>11
    <3> QED
      BY <1>12, <2>2, <2>4, <3>1, <3>2
  <2> QED
    BY <2>3, <2>4
<1>17. Allocated' = Allocated /\ Places' = Places
  BY <1>1 DEF Allocated, Units, Arrival, SelectedCode, SelectedParts, Places, UsedObjects
<1>18. ASSUME NEW n \in DOMAIN Allocated, Allocated[n].fi # NoFI
       PROVE  Allocated[n].fi \in UsedIndices
  BY <1>3, <1>4, <1>18
<1>19. PICK b : b = place
  OBVIOUS
<1>20. LaidOut'
  <2>1. Placed(b)'
    BY <1>13, <1>15, <1>16, <1>17, <1>18, <1>19 DEF Placed
  <2> QED
    BY <2>1 DEF LaidOut
<1>21. Allotment'
  BY <1>1, <1>2 DEF Allotment
<1>22. I' = 1 /\ code' = Allocated'
  BY <1>1, <1>2, <1>17 DEF FrameInv
<1>23. \E m : Partway(m)'
  <2>1. FrameInv' /\ FramesFit'
    BY LayOutStep DEF FramesFit
  <2>2. (Line(1) = 1)'
    BY <1>21, <2>1, FirstLine, PTL
  <2>3. (Mixed(code, 1))'
    <3>1. \A n \in 1 .. A : code'[1 + (n - 1)] = Allocated'[n]
      <4>1. \A n \in 1 .. A : 1 + (n - 1) = n
        OBVIOUS
      <4> QED
        BY <1>22, <4>1
    <3>2. 1 .. 1 - 1 = {} /\ 1 \in 1 .. A + 1 /\ A + 1 = 1 + ((A + 1) - 1)
      BY <1>3
    <3> QED
      BY <1>3, <1>17, <1>22, <2>2, <3>1, <3>2 DEF Mixed
  <2>4. Partway(1)'
    BY <1>22, <2>2, <2>3 DEF Partway
  <2> QED
    BY <2>4
<1> QED
  BY <1>1, <1>2, <1>20, <1>21, <1>23 DEF Made

-----------------------------------------------------------------------------
\* One more instruction is through.
LEMMA OneMoreEliminated ==
  ASSUME FrameInv, FramesFit, Allotment, NEW m \in 1 .. Len(Allocated),
         Mixed(code, m), NEW r, r \in Seq(Insns(Allocatable, PhysRegs)), Line(m) \in 1 .. Len(code),
         Replacing(r, code, Line(m), FinalParts[m])
  PROVE  Mixed(r, m + 1)
<1> DEFINE w == FinalParts[m]
<1>1. PICK A \in Nat, F \in Nat, L \in 1 .. 2 : A = Len(Allocated) /\ F = Len(FinalCode) /\ L = Len(w)
  <2>1. Len(w) = 1 \/ Len(w) = 2
    BY FinalTyped
  <2> QED
    BY <2>1, AtUnit, FinalTyped, LenProperties
<1>2. PICK x \in 1 .. F : x = Line(m) /\ Line(m + 1) = x + L
  BY <1>1, Lines
<1>3. PICK c \in Nat : c = Len(code) /\ c + 1 = x + ((A + 1) - m) /\ x <= c /\ m \in 1 .. A
  BY <1>1, <1>2 DEF Mixed, FrameInv
<1>4. /\ \A n \in 1 .. x - 1 : code[n] = FinalCode[n]
      /\ \A n \in m .. A : code[x + (n - m)] = Allocated[n]
  BY <1>1, <1>2 DEF Mixed
<1>5. /\ Len(r) = (c - 1) + L
      /\ \A n \in 1 .. x - 1 : r[n] = code[n]
      /\ \A n \in 1 .. L : r[(x - 1) + n] = w[n]
      /\ \A n \in x + 1 .. c : r[(n - 1) + L] = code[n]
  BY <1>1, <1>2, <1>3 DEF Replacing
<1>6. \A j \in 1 .. L : FinalCode[x + j - 1] = w[j]
  BY <1>1, <1>2, Lines
<1>7. ASSUME NEW n \in 1 .. (x + L) - 1 PROVE r[n] = FinalCode[n]
  <2>1. CASE n <= x - 1
    BY <1>4, <1>5, <2>1
  <2>2. CASE n > x - 1
    <3>1. n - (x - 1) \in 1 .. L /\ (x - 1) + (n - (x - 1)) = n /\ x + (n - (x - 1)) - 1 = n
      BY <2>2
    <3>2. PICK j \in 1 .. L : j = n - (x - 1)
      BY <3>1
    <3>3. r[(x - 1) + j] = w[j] /\ FinalCode[x + j - 1] = w[j]
      BY <1>5, <1>6, Zenon
    <3>4. (x - 1) + j = n /\ x + j - 1 = n
      BY <3>1, <3>2
    <3> QED
      BY <3>3, <3>4, Zenon
  <2> QED
    BY <1>2, <2>1, <2>2
<1>8. ASSUME NEW n \in m + 1 .. A PROVE r[(x + L) + (n - (m + 1))] = Allocated[n]
  <2>1. /\ n \in m .. A /\ x + (n - m) \in x + 1 .. c
        /\ ((x + (n - m)) - 1) + L = (x + L) + (n - (m + 1))
    <3>1. m \in 1 .. A /\ c + 1 = x + ((A + 1) - m)
      BY <1>3
    <3> QED
      BY <3>1
  <2> QED
    BY <1>4, <1>5, <2>1
<1>9. Len(r) + 1 = (x + L) + ((A + 1) - (m + 1))
  <2>1. m \in 1 .. A /\ c + 1 = x + ((A + 1) - m) /\ Len(r) = (c - 1) + L
    BY <1>3, <1>5
  <2>2. ((c - 1) + L) + 1 = (x + L) + ((A + 1) - (m + 1))
    BY <2>1
  <2> QED
    BY <2>1, <2>2
<1>10. m + 1 \in 1 .. A + 1
  BY <1>1
<1> QED
  BY <1>1, <1>2, <1>7, <1>8, <1>9, <1>10 DEF Mixed

\* What eliminateFrameIndex and the loop around it look at.
LEMMA PartwayAt ==
  ASSUME FrameInv, FramesFit, Allotment, NEW m, Partway(m), I <= Len(code)
  PROVE  \/ I = Line(m) - 1 /\ code[I].fi = NoFI
         \/ m \in 1 .. Len(Allocated) /\ I = Line(m) /\ code[I] = Allocated[m]
<1>1. PICK A \in Nat : A = Len(Allocated)
  BY AtUnit
<1>2. m \in 1 .. A + 1 /\ Len(code) + 1 = Line(m) + ((A + 1) - m) /\ Len(code) \in Nat
  BY <1>1 DEF Partway, Mixed, FrameInv
<1>3. Line(m) \in Int
  <2>1. m = A + 1 \/ m \in 1 .. A
    BY <1>2
  <2>2. Len(FinalCode) \in Nat
    BY FinalTyped
  <2> QED
    BY <1>1, <2>1, <2>2, Lines
<1>4. CASE I = Line(m)
  <2>1. m \in 1 .. A
    BY <1>2, <1>3, <1>4
  <2>2. Line(m) + (m - m) = Line(m) /\ m \in m .. A
    BY <1>3, <2>1
  <2>3. code[Line(m) + (m - m)] = Allocated[m]
    BY <1>1, <2>2 DEF Partway, Mixed
  <2> QED
    BY <1>1, <1>4, <2>1, <2>2, <2>3
<1> QED
  BY <1>4 DEF Partway

\* The splice of eliminateFrameIndex, and the loop's step over an instruction
\* that stays, which replaces it by itself.
LEMMA ReplacedMixed ==
  ASSUME FrameInv, FramesFit, Made, stage = "eliminate", NEW m \in 1 .. Len(Allocated),
         Mixed(code, m), I = Line(m), I <= Len(code), code[I] = Allocated[m],
         \/ code' = Replaced(FinalParts[m])
         \/ code' = code /\ Allocated[m].fi = NoFI
  PROVE  Mixed(code', m + 1)
<1> DEFINE J == Insns(Allocatable, PhysRegs)
<1>1. Allotment
  BY DEF Made
<1>2. code \in Seq(J) /\ I \in 1 .. Len(code)
  BY DEF FrameInv, InsnsNow
<1>3. PICK w \in Seq(J) : w = FinalParts[m]
  BY <1>1, FinalTyped
<1>4. \E r \in Seq(J) : r = code' /\ Replacing(r, code, I, w)
  <2>1. CASE code' = Replaced(FinalParts[m])
    <3>1. PICK r \in Seq(J) : r = Splice(code, I - 1, I, w) /\ Replacing(r, code, I, w)
      BY <1>2, SpliceOne
    <3>2. code' = r
      BY <1>3, <2>1, <3>1 DEF Replaced, Splice
    <3> QED
      BY <3>1, <3>2
  <2>2. CASE code' = code /\ Allocated[m].fi = NoFI
    <3>1. FinalParts[m] = <<code[I]>>
      BY <1>1, <2>2, FinalTyped DEF Eliminated
    <3>2. Len(w) = 1 /\ w[1] = code[I]
      BY <1>3, <3>1
    <3>3. PICK c \in Nat : c = Len(code)
      BY <1>2, LenProperties
    <3>4. I \in Nat /\ c = (c - 1) + 1 /\ (I - 1) + 1 = I /\ \A n \in 1 .. 1 : n = 1
      BY <1>2, <3>3
    <3>5. \A n \in 1 .. Len(w) : code[(I - 1) + n] = w[n]
      BY <3>2, <3>4
    <3>6. \A n \in I + 1 .. c : (n - 1) + 1 = n
      BY <3>4
    <3>7. Replacing(code, code, I, w)
      BY <3>2, <3>3, <3>4, <3>5, <3>6 DEF Replacing
    <3> QED
      BY <1>2, <2>2, <3>7
  <2> QED
    BY <2>1, <2>2
<1>5. PICK r \in Seq(J) : r = code' /\ Replacing(r, code, I, w)
  BY <1>4
<1>6. Line(m) \in 1 .. Len(code) /\ Replacing(r, code, Line(m), FinalParts[m])
  BY <1>2, <1>3, <1>5
<1>7. Mixed(r, m + 1)
  BY <1>1, <1>6, OneMoreEliminated
<1> QED
  BY <1>5, <1>7

LEMMA SameMixed ==
  ASSUME UNCHANGED <<source, assigned, spilled, objectOffset>>
  PROVE  \A m : Partway(m)' <=> /\ Mixed(code', m)
                                /\ I' = Line(m) \/ (I' = Line(m) - 1 /\ code'[I'].fi = NoFI)
<1>1. ASSUME NEW m
      PROVE Partway(m)' <=> /\ Mixed(code', m)
                            /\ I' = Line(m) \/ (I' = Line(m) - 1 /\ code'[I'].fi = NoFI)
  <2>1. Line(m)' = Line(m) /\ Allocated' = Allocated /\ FinalCode' = FinalCode
    BY SameCode, SameEnds
  <2>2. Mixed(code, m)' <=> Mixed(code', m)
    BY <2>1 DEF Mixed
  <2> QED
    BY <2>1, <2>2 DEF Partway
<1> QED
  BY <1>1

LEMMA EliminateMakes == FrameInv /\ FramesFit /\ Made /\ eliminateFrameIndex => Made'
<1> SUFFICES ASSUME FrameInv, FramesFit, Made, eliminateFrameIndex PROVE Made'
  OBVIOUS
<1> DEFINE i == code[I]
<1>1. /\ stage = "eliminate" /\ I <= Len(code) /\ i.fi # NoFI /\ I' = I + 1
      /\ EliminateInMove(i) \/ EliminateInAddress(i)
      /\ UNCHANGED <<source, assigned, spilled, objectOffset, regs, mem, trace, stage>>
  BY DEF eliminateFrameIndex
<1>2. Allotment /\ LaidOut /\ trace = << >>
  BY <1>1 DEF Made
<1>3. PICK m : Partway(m)
  BY <1>1 DEF Made
<1>4. m \in 1 .. Len(Allocated) /\ I = Line(m) /\ i = Allocated[m] /\ Mixed(code, m)
  BY <1>1, <1>2, <1>3, PartwayAt DEF Partway
<1>5. FinalParts[m] = Eliminated(i) /\ i \in Allotted
  BY <1>2, <1>4, FinalTyped
<1>6. i.op = "MOV_rr" =>
        FinalParts[m] = <<[i EXCEPT !.rs = getFrameRegister, !.fi = NoFI],
                          AddImm(i.rd, ToInt(objectOffset[i.fi]))>>
      /\ code' = Replaced(FinalParts[m])
  BY <1>1, <1>5 DEF EliminateInMove, EliminateInAddress, Eliminated, getFrameRegister
<1>7. i.op # "MOV_rr" => code' = Replaced(FinalParts[m])
  BY <1>1, <1>5 DEF EliminateInMove, EliminateInAddress, Eliminated, getFrameRegister
<1> HIDE DEF i
<1>8. code' = Replaced(FinalParts[m])
  BY <1>6, <1>7
<1>9. Mixed(code', m + 1)
  BY <1>1, <1>4, <1>8, ReplacedMixed DEF i
<1>10. Line(m) \in Nat /\ Line(m + 1) = Line(m) + Len(FinalParts[m])
       /\ Len(FinalParts[m]) = IF i.op = "MOV_rr" THEN 2 ELSE 1
  BY <1>1, <1>2, <1>4, Lines, FinalTyped
<1>11. CASE i.op # "MOV_rr"
  <2>1. I' = Line(m + 1)
    BY <1>1, <1>4, <1>10, <1>11
  <2>2. Partway(m + 1)'
    BY <1>1, <1>9, <2>1, SameMixed
  <2> QED
    BY <1>1, <1>2, <2>2, SameEnds DEF Made
<1>12. CASE i.op = "MOV_rr"
  <2>1. I' = Line(m + 1) - 1 /\ I' = Line(m) + 2 - 1
    BY <1>1, <1>4, <1>10, <1>12
  <2>2. code'[I'] = FinalCode[I'] /\ FinalCode[I'] = FinalParts[m][2]
    <3>1. FinalCode[Line(m) + 2 - 1] = FinalParts[m][2]
      <4>1. 2 \in 1 .. Len(FinalParts[m])
        BY <1>10, <1>12
      <4> QED
        BY <1>2, <1>4, <4>1, Lines
    <3>2. I' \in 1 .. Line(m + 1) - 1
      BY <1>10, <1>12, <2>1
    <3> QED
      BY <1>9, <2>1, <3>1, <3>2 DEF Mixed
  <2>3. FinalParts[m][2].fi = NoFI
    <3>1. FinalParts[m][2] = AddImm(i.rd, ToInt(objectOffset[i.fi]))
      BY <1>6, <1>12
    <3> QED
      BY <3>1 DEF AddImm, Insn
  <2>4. Partway(m + 1)'
    BY <1>1, <1>9, <2>1, <2>2, <2>3, SameMixed
  <2> QED
    BY <1>1, <1>2, <2>4, SameEnds DEF Made
<1> QED
  BY <1>11, <1>12

LEMMA NextMakes == FrameInv /\ FramesFit /\ Made /\ NextInstruction => Made'
<1> SUFFICES ASSUME FrameInv, FramesFit, Made, NextInstruction PROVE Made'
  OBVIOUS
<1>1. /\ stage = "eliminate" /\ I <= Len(code) /\ code[I].fi = NoFI /\ I' = I + 1
      /\ UNCHANGED <<source, code, assigned, spilled, objectOffset, regs, mem, trace, stage>>
  BY DEF NextInstruction, compiled
<1>2. Allotment /\ LaidOut /\ trace = << >>
  BY <1>1 DEF Made
<1>3. PICK m : Partway(m)
  BY <1>1 DEF Made
<1>4. \E n : Partway(n)'
  <2>1. CASE I = Line(m) - 1
    <3>1. I' = Line(m)
      <4>1. m \in 1 .. Len(Allocated) + 1 /\ Len(Allocated) \in Nat
        BY <1>2, <1>3, AtUnit DEF Partway, Mixed
      <4>2. m \in 1 .. Len(Allocated) \/ m = Len(Allocated) + 1
        BY <4>1
      <4>3. Line(m) \in Nat
        BY <1>2, <4>2, Lines, FinalTyped
      <4> QED
        BY <1>1, <2>1, <4>3
    <3>2. Partway(m)'
      BY <1>1, <1>3, <3>1, SameMixed DEF Partway
    <3> QED
      BY <3>2
  <2>2. CASE I # Line(m) - 1
    <3>1. m \in 1 .. Len(Allocated) /\ I = Line(m) /\ code[I] = Allocated[m]
      BY <1>1, <1>2, <1>3, <2>2, PartwayAt
    <3>2. Mixed(code, m)
      BY <1>3 DEF Partway
    <3>3. Mixed(code', m + 1)
      BY <1>1, <3>1, <3>2, ReplacedMixed
    <3>4. Line(m + 1) = Line(m) + 1
      BY <1>1, <1>2, <3>1, Lines, FinalTyped
    <3>5. Partway(m + 1)'
      BY <1>1, <3>1, <3>3, <3>4, SameMixed
    <3> QED
      BY <3>5
  <2> QED
    BY <2>1, <2>2
<1> QED
  BY <1>1, <1>2, <1>4, SameEnds DEF Made

LEMMA DoneMakes == FrameInv /\ FramesFit /\ Made /\ EliminationDone => Made'
<1> SUFFICES ASSUME FrameInv, FramesFit, Made, EliminationDone PROVE Made'
  OBVIOUS
<1>1. /\ stage = "eliminate" /\ I > Len(code) /\ stage' = "run"
      /\ UNCHANGED <<source, code, assigned, spilled, objectOffset>>
  BY DEF EliminationDone, compiled
<1>2. Allotment /\ LaidOut
  BY <1>1 DEF Made
<1>3. PICK m : Partway(m)
  BY <1>1 DEF Made
<1>4. code = FinalCode
  <2>1. PICK A \in Nat, c \in Nat, F \in Nat : A = Len(Allocated) /\ c = Len(code) /\ F = Len(FinalCode)
    BY <1>2, AtUnit, FinalTyped, LenProperties DEF FrameInv
  <2>2. m \in 1 .. A + 1 /\ c + 1 = Line(m) + ((A + 1) - m)
    BY <1>3, <2>1 DEF Partway, Mixed
  <2>3. PICK x \in Nat : x = Line(m)
    <3>1. m \in 1 .. A \/ m = A + 1
      BY <2>2
    <3> QED
      BY <1>2, <2>1, <3>1, Lines
  <2>4. I = c + 1
    BY <1>1, <2>1 DEF FrameInv
  <2>5. I = x \/ I = x - 1
    BY <1>3, <2>3 DEF Partway
  <2>6. m = A + 1 /\ x = c + 1
    <3>1. c + 1 = x + ((A + 1) - m) /\ m \in 1 .. A + 1
      BY <2>2, <2>3
    <3>2. c + 1 = x \/ c + 1 = x - 1
      BY <2>4, <2>5
    <3> QED
      BY <3>1, <3>2
  <2>7. c = F
    <3>1. x = F + 1
      BY <1>2, <2>1, <2>3, <2>6, Lines
    <3> QED
      BY <2>6, <3>1
  <2>8. \A n \in 1 .. c : code[n] = FinalCode[n]
    <3>1. \A n \in 1 .. x - 1 : code[n] = FinalCode[n]
      BY <1>3, <2>3 DEF Partway, Mixed
    <3>2. x - 1 = c
      BY <2>6
    <3> QED
      BY <3>1, <3>2
  <2> QED
    BY <1>2, <2>1, <2>7, <2>8, FinalTyped, SequencesEqual DEF FrameInv
<1> QED
  BY <1>1, <1>2, <1>4, SameCode, SameEnds DEF Made

LEMMA MadeStep == FrameInv /\ FramesFit /\ Made /\ [Next]_vars => Made'
<1> SUFFICES ASSUME FrameInv, FramesFit, Made, [Next]_vars PROVE Made'
  OBVIOUS
<1>1. ASSUME UNCHANGED <<source, code, assigned, spilled, objectOffset, stage>>,
             stage \in {"run", "halt"} \/ UNCHANGED <<I, trace>>
      PROVE  Made'
  <2>1. stage = "eliminate" => \E m : Partway(m)'
    BY <1>1, SameMixed DEF Made, Partway
  <2> QED
    BY <1>1, <2>1, SameCode, SameEnds DEF Made
<1>2. CASE Execute
  BY <1>1, <1>2 DEF Execute, compiled
<1>3. CASE Return
  <2>1. stage = "run" /\ stage' = "halt" /\ UNCHANGED <<source, code, assigned, spilled, objectOffset>>
    BY <1>3 DEF Return, compiled
  <2> QED
    BY <2>1, SameCode, SameEnds DEF Made
<1>4. CASE UNCHANGED vars
  BY <1>1, <1>4 DEF vars
<1> QED
  BY <1>2, <1>3, <1>4, SelectMakes, AllocateMakes, LayOutMakes, EliminateMakes, NextMakes,
     DoneMakes DEF Next

\* The sum eliminateFrameIndex computes is the one it writes.
LEMMA OffsetsExact ==
  ASSUME FrameInv, FramesFit, Allotment, LaidOut, NEW n \in 1 .. Len(Allocated),
         Allocated[n].fi # NoFI
  PROVE  LET i == Allocated[n]
         IN  /\ i.fi \in Objects \cup Slots /\ objectOffset[i.fi] \in Int /\ i.imm \in Int
             /\ ToInt(objectOffset[i.fi]) = objectOffset[i.fi]
             /\ i.op # "MOV_rr" => ToInt(objectOffset[i.fi] + i.imm) = objectOffset[i.fi] + i.imm
<1> DEFINE i == Allocated[n]
<1>1. i \in Allotted /\ n \in DOMAIN Allocated
  BY FinalTyped, UnitsTyped
<1>2. PICK place : Placed(place)
  BY DEF LaidOut
<1>3. /\ i.fi \in Objects => place[i.fi] \in 1 .. Places
      /\ \A f \in Objects \cup Slots : objectOffset[f] = -Align * place[f]
      /\ place \in [Objects \cup Slots -> 0 .. Places + Cardinality(VRegs)]
  BY <1>1, <1>2 DEF Placed
<1> HIDE DEF i
<1>4. /\ i.op \in {"MOV_rr", "ADD_ri", "ADD_rr", "LD_imm64", "LDD", "STD", "access"}
      /\ i.fi \in UsedObjects \cup Slots /\ i.imm \in Int
      /\ i.op \in {"ADD_rr", "LD_imm64"} => i.fi = NoFI
      /\ i.op \in {"LDD", "STD"} => i.fi \in Slots /\ i.imm = 0
      /\ i.op \in {"MOV_rr", "access"} => i.fi \notin Slots
      /\ i.op = "access" /\ i.fi # NoFI => \A k \in 1 .. Places : isInt32(i.imm - Align * k)
      /\ i.op # "ADD_ri" /\ i.fi # NoFI
  BY <1>1 DEF i, Allotted, Insns
<1>5. i.fi \in Objects \cup Slots
  BY <1>4, SourceTyped
<1>6. PICK k \in 0 .. Places + Cardinality(VRegs) : k = place[i.fi] /\ objectOffset[i.fi] = -Align * k
  BY <1>3, <1>5
<1>7. k \in Nat /\ Align \in Int /\ -Align * k \in Int
  BY SourceTyped, VRegsFinite DEF Align
<1>8. isInt32(-Align * k)
  BY OffsetsFit
<1>9. ToInt(objectOffset[i.fi]) = objectOffset[i.fi]
  BY <1>6, <1>8 DEF isInt32
<1>10. ASSUME i.op # "MOV_rr"
       PROVE  ToInt(objectOffset[i.fi] + i.imm) = objectOffset[i.fi] + i.imm
  <2>1. CASE i.op \in {"LDD", "STD"}
    <3>1. objectOffset[i.fi] + i.imm = objectOffset[i.fi]
      BY <1>4, <1>6, <1>7, <2>1
    <3> QED
      BY <1>9, <3>1
  <2>2. CASE i.op = "access"
    <3>1. i.fi \in Objects
      BY <1>4, <1>5, <2>2
    <3>2. isInt32(i.imm - Align * k)
      BY <1>3, <1>4, <1>6, <2>2, <3>1
    <3>3. i.imm - Align * k = -Align * k + i.imm
      BY <1>4, <1>7
    <3> QED
      BY <1>6, <3>2, <3>3 DEF isInt32
  <2> QED
    BY <1>4, <1>10, <2>1, <2>2
<1> QED
  BY <1>4, <1>5, <1>6, <1>7, <1>9, <1>10 DEF i

\* What execution finds where an instruction of allocated code starts.
LEMMA Fetched ==
  ASSUME FrameInv, FramesFit, Made, stage = "run", NEW n \in 1 .. Len(Allocated), NEW p, p = Line(n)
  PROVE  LET i == Allocated[n]
         IN  /\ i \in Allotted /\ p <= Len(code)
             /\ i.fi = NoFI => code[p] = i /\ Line(n + 1) = p + 1
             /\ i.fi # NoFI /\ i.op # "MOV_rr" =>
                  /\ code[p] = [i EXCEPT !.rs = R10, !.fi = NoFI, !.imm = objectOffset[i.fi] + i.imm]
                  /\ Line(n + 1) = p + 1
             /\ i.fi # NoFI /\ i.op = "MOV_rr" =>
                  /\ code[p] = [i EXCEPT !.rs = R10, !.fi = NoFI]
                  /\ Line(n + 1) = p + 2 /\ p + 1 <= Len(code)
                  /\ code[p + 1] = AddImm(i.rd, objectOffset[i.fi])
<1> DEFINE i == Allocated[n]
<1>1. Allotment /\ LaidOut /\ code = FinalCode
  BY DEF Made
<1>2. i \in Allotted /\ FinalParts[n] = Eliminated(i)
  BY <1>1, FinalTyped
<1>3. PICK F \in Nat : F = Len(code)
  BY <1>1, FinalTyped, LenProperties
<1>4. PICK L \in 1 .. 2 : L = Len(FinalParts[n]) /\ L = IF i.fi # NoFI /\ i.op = "MOV_rr" THEN 2 ELSE 1
  <2>1. Len(FinalParts[n]) = IF i.fi # NoFI /\ i.op = "MOV_rr" THEN 2 ELSE 1
    BY <1>1, FinalTyped
  <2> QED
    BY <2>1
<1>5. /\ p \in 1 .. F /\ Line(n + 1) = p + L
      /\ \A j \in 1 .. L : p + j - 1 \in 1 .. F /\ code[p + j - 1] = FinalParts[n][j]
  BY <1>1, <1>3, <1>4, Lines
<1>6. code[p] = FinalParts[n][1]
  <2>1. 1 \in 1 .. L /\ p + 1 - 1 = p
    BY <1>5
  <2> QED
    BY <1>5, <2>1
<1>7. L = 2 => p + 1 \in 1 .. F /\ code[p + 1] = FinalParts[n][2]
  <2>1. L = 2 => 2 \in 1 .. L /\ p + 2 - 1 = p + 1
    BY <1>5
  <2> QED
    BY <1>5, <2>1
<1>8. i.fi # NoFI => /\ ToInt(objectOffset[i.fi]) = objectOffset[i.fi]
                     /\ i.op # "MOV_rr" => ToInt(objectOffset[i.fi] + i.imm) = objectOffset[i.fi] + i.imm
  BY <1>1, OffsetsExact
<1>9. FinalParts[n] = IF i.fi = NoFI THEN <<i>>
                      ELSE IF i.op = "MOV_rr"
                           THEN <<[i EXCEPT !.rs = R10, !.fi = NoFI], AddImm(i.rd, objectOffset[i.fi])>>
                           ELSE <<[i EXCEPT !.rs = R10, !.fi = NoFI, !.imm = objectOffset[i.fi] + i.imm]>>
  <2>1. CASE i.fi = NoFI
    BY <1>2, <2>1 DEF Eliminated
  <2>2. CASE i.fi # NoFI /\ i.op = "MOV_rr"
    BY <1>2, <1>8, <2>2 DEF Eliminated
  <2>3. CASE i.fi # NoFI /\ i.op # "MOV_rr"
    BY <1>2, <1>8, <2>3 DEF Eliminated
  <2> QED
    BY <2>1, <2>2, <2>3
<1> DEFINE x == [i EXCEPT !.rs = R10, !.fi = NoFI]
           y == AddImm(i.rd, objectOffset[i.fi])
           z == [i EXCEPT !.rs = R10, !.fi = NoFI, !.imm = objectOffset[i.fi] + i.imm]
<1>10. FinalParts[n] = IF i.fi = NoFI THEN <<i>> ELSE IF i.op = "MOV_rr" THEN <<x, y>> ELSE <<z>>
  BY <1>9
<1> HIDE DEF i, x, y, z
<1>11. /\ i.fi = NoFI => code[p] = i /\ Line(n + 1) = p + 1
       /\ i.fi # NoFI /\ i.op # "MOV_rr" => code[p] = z /\ Line(n + 1) = p + 1
       /\ i.fi # NoFI /\ i.op = "MOV_rr" =>
            code[p] = x /\ Line(n + 1) = p + 2 /\ p + 1 <= F /\ code[p + 1] = y
  <2>1. CASE i.fi = NoFI
    <3>1. L = 1 /\ FinalParts[n] = <<i>> /\ <<i>>[1] = i
      BY <1>4, <1>10, <2>1
    <3>2. Line(n + 1) = p + 1 /\ code[p] = i
      BY <1>5, <1>6, <3>1
    <3> QED
      BY <3>2, <2>1
  <2>2. CASE i.fi # NoFI /\ i.op # "MOV_rr"
    <3>1. L = 1 /\ FinalParts[n] = <<z>> /\ <<z>>[1] = z
      BY <1>4, <1>10, <2>2
    <3>2. Line(n + 1) = p + 1 /\ code[p] = z
      BY <1>5, <1>6, <3>1
    <3> QED
      BY <3>2, <2>2
  <2>3. CASE i.fi # NoFI /\ i.op = "MOV_rr"
    <3>1. L = 2 /\ FinalParts[n] = <<x, y>>
      BY <1>4, <1>10, <2>3
    <3>2. <<x, y>>[1] = x /\ <<x, y>>[2] = y
      OBVIOUS
    <3>3. code[p] = x /\ code[p + 1] = y
      BY <1>6, <1>7, <3>1, <3>2
    <3>4. Line(n + 1) = p + 2 /\ p + 1 <= F
      BY <1>5, <1>7, <3>1
    <3> QED
      BY <2>3, <3>3, <3>4
  <2> QED
    BY <2>1, <2>2, <2>3
<1>12. p <= F
  BY <1>5
<1> QED
  BY <1>2, <1>3, <1>11, <1>12 DEF i, x, y, z

-----------------------------------------------------------------------------
(***************************************************************************)
(* Registers and slots as the memory of the virtual registers.             *)
(***************************************************************************)
SlotAddr(v) == (FP0 + objectOffset[Slot(v)]) % WordMod
Word(m, v)  == IF SlotAddr(v) \in DOMAIN m THEN m[SlotAddr(v)] ELSE 0

\* The value of v, with r in the registers and m in the slots.
Kept(r, m, v) == IF v \in spilled THEN Word(m, v) ELSE r[assigned[v]]

\* The slots that the code uses have an address of their own.
LEMMA SlotsApart ==
  ASSUME FrameInv, FramesFit, Allotment, LaidOut, NEW n \in 1 .. Len(Allocated), NEW v \in VRegs,
         Allocated[n].fi = Slot(v), NEW w \in VRegs, w # v
  PROVE  SlotAddr(w) # SlotAddr(v)
<1>1. Slot(v) \in Slots /\ Slot(w) \in Slots /\ Slot(v) # NoFI /\ Slot(w) # Slot(v)
  BY IndexAssumption DEF Slots, Slot
<1>2. n \in DOMAIN Allocated
  BY UnitsTyped
<1>3. PICK place : Placed(place)
  BY DEF LaidOut
<1>4. place[Slot(w)] # place[Slot(v)]
  BY <1>1, <1>2, <1>3 DEF Placed
<1>5. PICK x \in 0 .. Places + Cardinality(VRegs), y \in 0 .. Places + Cardinality(VRegs) :
         x = place[Slot(v)] /\ y = place[Slot(w)]
  BY <1>1, <1>3 DEF Placed
<1>6. x \in Nat /\ y \in Nat /\ x # y
  BY <1>4, <1>5, SourceTyped, VRegsFinite
<1>7. objectOffset[Slot(v)] = -Align * x /\ objectOffset[Slot(w)] = -Align * y
  BY <1>1, <1>3, <1>5 DEF Placed
<1>8. Align * x < WordMod /\ Align * y < WordMod
  BY OffsetsFit
<1>9. PICK W \in Nat \ {0} : W = WordMod /\ FP0 \in Int
  BY FrameAssumption
<1>10. ASSUME NEW a \in Nat, NEW b \in Nat, a < b, Align * a < WordMod, Align * b < WordMod
       PROVE  (FP0 + -Align * a) % WordMod # (FP0 + -Align * b) % WordMod
  <2>1. /\ -Align * a \in Int /\ -Align * b \in Int /\ -Align * b < -Align * a
        /\ -Align * a - -Align * b < W
    BY <1>9, <1>10 DEF Align
  <2> QED
    BY <1>9, <2>1, RemaindersDiffer
<1>11. CASE x < y
  BY <1>6, <1>7, <1>8, <1>10, <1>11 DEF SlotAddr
<1>12. CASE y < x
  BY <1>6, <1>7, <1>8, <1>10, <1>12 DEF SlotAddr
<1> QED
  BY <1>6, <1>11, <1>12

(***************************************************************************)
(* A selected instruction, on the values e of the virtual registers.       *)
(***************************************************************************)
FrameAddr(f) == FP0 + objectOffset[f]

Value(c, e) ==
  CASE c.op = "MOV_rr" /\ c.fi # NoFI -> FrameAddr(c.fi) % WordMod
    [] c.op = "MOV_rr" /\ c.fi = NoFI -> e[c.rs]
    [] c.op = "ADD_rr" -> (e[c.rd] + e[c.rs]) % WordMod
    [] c.op = "LD_imm64" -> c.imm % WordMod

Effect(c, e) == IF c.op = "access" THEN e ELSE [e EXCEPT ![c.rd] = Value(c, e)]

Accesses(c, e) == ((IF c.fi # NoFI THEN FrameAddr(c.fi) ELSE e[c.rs]) + c.imm) % WordMod

Beyond(c, e, t) == IF c.op = "access" THEN Append(t, Accesses(c, e)) ELSE t

\* What selected code reads and writes.
LEMMA ChosenShape ==
  ASSUME FrameInv, NEW c \in Chosen
  PROVE  /\ c.op \in {"MOV_rr", "ADD_rr", "LD_imm64", "access"}
         /\ c.op # "access" => c.rd \in VRegs /\ Defs(c) = {c.rd}
         /\ c.op = "access" => Defs(c) = {}
         /\ c.op \in {"MOV_rr", "access"} /\ c.fi = NoFI => c.rs \in VRegs /\ Uses(c) = {c.rs}
         /\ c.op \in {"MOV_rr", "access"} /\ c.fi # NoFI => c.rs \notin VRegs /\ Uses(c) = {}
         /\ c.op = "ADD_rr" => c.rd = "sum" /\ c.rs = "imm" /\ Uses(c) = {"sum", "imm"} /\ c.fi = NoFI
         /\ c.op = "LD_imm64" => Uses(c) = {} /\ c.fi = NoFI
         /\ c.fi \in Objects \cup {NoFI} /\ c.imm \in Int
         /\ c.fi # NoFI => objectOffset[c.fi] \in Int /\ FrameAddr(c.fi) \in Int
<1>1. /\ c \in [op : {"MOV_rr", "ADD_ri", "ADD_rr", "LD_imm64", "LDD", "STD", "access"},
                rd : VRegs \cup {NoReg}, rs : VRegs \cup {NoReg}, fi : Indices, imm : Int]
      /\ c.op # "access" => c.rd \in VRegs
      /\ c.op \in {"MOV_rr", "ADD_rr", "LD_imm64", "access"}
      /\ c.fi \in UsedObjects \cup {NoFI}
      /\ c.op = "ADD_rr" => c.rd = "sum" /\ c.rs = "imm" /\ c.fi = NoFI
      /\ c.op = "LD_imm64" => c.rs = NoReg /\ c.fi = NoFI
      /\ c.op \in {"MOV_rr", "access"} => (c.fi = NoFI <=> c.rs \in VRegs)
      /\ c.op = "access" => c.rd = NoReg
  BY DEF Chosen, Insns
<1>2. NoReg \notin VRegs /\ "sum" \in VRegs /\ "imm" \in VRegs
  BY FrameAssumption DEF VRegs
<1>3. c.fi \in Objects \cup {NoFI} /\ (c.fi # NoFI => objectOffset[c.fi] \in Int)
  BY <1>1, SourceTyped DEF FrameInv
<1>4. c.fi # NoFI => FrameAddr(c.fi) \in Int
  BY <1>3, FrameAssumption DEF FrameAddr
<1>5. /\ c.op # "access" => Defs(c) = {c.rd}
      /\ c.op = "access" => Defs(c) = {}
  BY <1>1, <1>2 DEF Defs
<1>6. /\ c.op \in {"MOV_rr", "access"} /\ c.fi = NoFI => Uses(c) = {c.rs}
      /\ c.op \in {"MOV_rr", "access"} /\ c.fi # NoFI => Uses(c) = {}
      /\ c.op = "ADD_rr" => Uses(c) = {"sum", "imm"}
      /\ c.op = "LD_imm64" => Uses(c) = {}
  BY <1>1, <1>2 DEF Uses
<1> QED
  BY <1>1, <1>3, <1>4, <1>5, <1>6

\* The instruction at I is executed.
LEMMA Ran ==
  ASSUME Execute
  PROVE  /\ I' = I + 1 /\ UNCHANGED <<source, code, assigned, spilled, objectOffset, stage>>
         /\ stage = "run" /\ I <= Len(code)
         /\ code[I].op \notin {"STD", "access"} =>
              regs' = [regs EXCEPT ![code[I].rd] = Result(code[I])] /\ mem' = mem /\ trace' = trace
         /\ code[I].op = "STD" =>
              /\ regs' = regs /\ trace' = trace
              /\ mem' = [a \in DOMAIN mem \cup {Address(code[I])} |->
                           IF a = Address(code[I]) THEN regs[code[I].rd] ELSE mem[a]]
         /\ code[I].op = "access" =>
              regs' = regs /\ mem' = mem /\ trace' = Append(trace, Address(code[I]))
BY DEF Execute, compiled

\* A reload, a spill, and an instruction in its registers, when they are executed.
LEMMA LoadRuns ==
  ASSUME FrameInv, FramesFit, Made, regs[R10] = FP0, NEW n \in 1 .. Len(Allocated), I = Line(n),
         NEW v \in VRegs, Allocated[n] = Load(assigned[v], Slot(v)), Execute
  PROVE  /\ I' = Line(n + 1) /\ mem' = mem /\ trace' = trace
         /\ regs' = [regs EXCEPT ![assigned[v]] = Word(mem, v)]
<1> DEFINE i == Allocated[n]
<1>0. stage = "run"
  BY Ran
<1>1. Slot(v) # NoFI /\ Slot(v) \in Slots
  BY IndexAssumption DEF Slots
<1>2. i.op = "LDD" /\ i.rd = assigned[v] /\ i.fi = Slot(v) /\ i.imm = 0
  BY DEF Load, Insn
<1>3. /\ code[I] = [i EXCEPT !.rs = R10, !.fi = NoFI, !.imm = objectOffset[i.fi] + i.imm]
      /\ Line(n + 1) = I + 1
  BY <1>0, <1>1, <1>2, Fetched
<1>4. /\ code[I].op = "LDD" /\ code[I].rd = assigned[v] /\ code[I].rs = R10
      /\ code[I].imm = objectOffset[Slot(v)] + 0
  BY <1>2, <1>3 DEF Load, Insn
<1>5. objectOffset[Slot(v)] \in Int
  BY <1>1 DEF FrameInv
<1>6. Address(code[I]) = SlotAddr(v)
  BY <1>4, <1>5 DEF Address, SlotAddr
<1>7. Result(code[I]) = Word(mem, v)
  BY <1>4, <1>6 DEF Result, Word
<1> HIDE DEF i
<1> QED
  BY <1>3, <1>4, <1>7, Ran

LEMMA StoreRuns ==
  ASSUME FrameInv, FramesFit, Made, regs[R10] = FP0, NEW n \in 1 .. Len(Allocated), I = Line(n),
         NEW v \in VRegs, Allocated[n] = Store(assigned[v], Slot(v)), Execute
  PROVE  /\ I' = Line(n + 1) /\ regs' = regs /\ trace' = trace
         /\ Word(mem', v) = regs[assigned[v]]
         /\ \A w \in VRegs : w # v => Word(mem', w) = Word(mem, w)
<1> DEFINE i == Allocated[n]
<1>0. stage = "run"
  BY Ran
<1>1. Slot(v) # NoFI /\ Slot(v) \in Slots
  BY IndexAssumption DEF Slots
<1>2. i.op = "STD" /\ i.rd = assigned[v] /\ i.fi = Slot(v) /\ i.imm = 0
  BY DEF Store, Insn
<1>3. /\ code[I] = [i EXCEPT !.rs = R10, !.fi = NoFI, !.imm = objectOffset[i.fi] + i.imm]
      /\ Line(n + 1) = I + 1
  BY <1>0, <1>1, <1>2, Fetched
<1>4. /\ code[I].op = "STD" /\ code[I].rd = assigned[v] /\ code[I].rs = R10
      /\ code[I].imm = objectOffset[Slot(v)] + 0
  BY <1>2, <1>3 DEF Store, Insn
<1>5. objectOffset[Slot(v)] \in Int
  BY <1>1 DEF FrameInv
<1>6. Address(code[I]) = SlotAddr(v)
  BY <1>4, <1>5 DEF Address, SlotAddr
<1>7. /\ I' = I + 1 /\ regs' = regs /\ trace' = trace
      /\ mem' = [a \in DOMAIN mem \cup {SlotAddr(v)} |->
                   IF a = SlotAddr(v) THEN regs[assigned[v]] ELSE mem[a]]
  BY <1>4, <1>6, Ran
<1>8. ASSUME NEW w \in VRegs, w # v PROVE SlotAddr(w) # SlotAddr(v)
  BY <1>0, <1>2, <1>8, SlotsApart DEF Made
<1> HIDE DEF i
<1>9. Word(mem', v) = regs[assigned[v]]
  BY <1>7 DEF Word
<1>10. \A w \in VRegs : w # v => Word(mem', w) = Word(mem, w)
  BY <1>7, <1>8 DEF Word
<1> QED
  BY <1>3, <1>7, <1>9, <1>10

LEMMA InPlaceRuns ==
  ASSUME FrameInv, FramesFit, Made, regs[R10] = FP0, NEW n \in 1 .. Len(Allocated), I = Line(n),
         NEW c \in Chosen, Allocated[n] = InPlace(c), Execute,
         NEW e \in [VRegs -> Words], \A v \in Uses(c) : regs[assigned[v]] = e[v]
  PROVE  /\ mem' = mem
         /\ trace' = Beyond(c, e, trace)
         /\ c.op = "access" => I' = Line(n + 1) /\ regs' = regs
         /\ c.op # "access" /\ c.fi = NoFI =>
              I' = Line(n + 1) /\ regs' = [regs EXCEPT ![assigned[c.rd]] = Value(c, e)]
         /\ c.op = "MOV_rr" /\ c.fi # NoFI =>
              I' = I + 1 /\ regs' = [regs EXCEPT ![assigned[c.rd]] = FP0]
<1> DEFINE i == Allocated[n]
<1>0. stage = "run"
  BY Ran
<1>1. /\ c.op \in {"MOV_rr", "ADD_rr", "LD_imm64", "access"}
      /\ c.op # "access" => c.rd \in VRegs
      /\ c.op \in {"MOV_rr", "access"} /\ c.fi = NoFI => c.rs \in VRegs /\ c.rs \in Uses(c)
      /\ c.op \in {"MOV_rr", "access"} /\ c.fi # NoFI => c.rs \notin VRegs
      /\ c.op = "ADD_rr" => /\ c.rd \in Uses(c) /\ c.rs \in Uses(c) /\ c.rd \in VRegs /\ c.rs \in VRegs
                            /\ c.fi = NoFI
      /\ c.op = "LD_imm64" => c.fi = NoFI
      /\ c.fi # NoFI => objectOffset[c.fi] \in Int
      /\ c.imm \in Int
  BY ChosenShape DEF VRegs
<1>2. i = [c EXCEPT !.rd = IF @ \in VRegs THEN assigned[@] ELSE @,
                    !.rs = IF @ \in VRegs THEN assigned[@] ELSE @]
  BY DEF InPlace
<1>3. c \in [op : {"MOV_rr", "ADD_ri", "ADD_rr", "LD_imm64", "LDD", "STD", "access"},
             rd : VRegs \cup {NoReg}, rs : VRegs \cup {NoReg}, fi : Indices, imm : Int]
  BY DEF Chosen, Insns
<1>4. /\ i.op = c.op /\ i.fi = c.fi /\ i.imm = c.imm
      /\ c.rd \in VRegs => i.rd = assigned[c.rd]
      /\ c.rs \in VRegs => i.rs = assigned[c.rs]
  BY <1>2, <1>3
<1>5. /\ i.fi = NoFI => code[I] = i /\ Line(n + 1) = I + 1
      /\ i.fi # NoFI /\ i.op # "MOV_rr" =>
           /\ code[I] = [i EXCEPT !.rs = R10, !.fi = NoFI, !.imm = objectOffset[i.fi] + i.imm]
           /\ Line(n + 1) = I + 1
      /\ i.fi # NoFI /\ i.op = "MOV_rr" =>
           code[I] = [i EXCEPT !.rs = R10, !.fi = NoFI]
  BY <1>0, Fetched
<1>6. i \in Insns(Allocatable, PhysRegs)
  BY <1>0, Fetched DEF Allotted
<1>7. i \in [op : {"MOV_rr", "ADD_ri", "ADD_rr", "LD_imm64", "LDD", "STD", "access"},
             rd : Allocatable \cup {NoReg}, rs : PhysRegs \cup {NoReg}, fi : Indices, imm : Int]
  BY <1>6 DEF Insns
<1> HIDE DEF i
<1>8. CASE c.op = "access" /\ c.fi = NoFI
  <2>1. code[I].op = "access" /\ Address(code[I]) = (e[c.rs] + c.imm) % WordMod /\ Line(n + 1) = I + 1
    BY <1>1, <1>4, <1>5, <1>8 DEF Address
  <2>2. Address(code[I]) = Accesses(c, e)
    BY <1>8, <2>1 DEF Accesses
  <2> QED
    BY <1>8, <2>1, <2>2, Ran DEF Beyond
<1>9. CASE c.op = "access" /\ c.fi # NoFI
  <2>1. /\ code[I].op = "access" /\ code[I].rs = R10 /\ code[I].imm = objectOffset[c.fi] + c.imm
        /\ Line(n + 1) = I + 1
    BY <1>4, <1>5, <1>7, <1>9, ZenonT(30)
  <2>2. Address(code[I]) = (FP0 + (objectOffset[c.fi] + c.imm)) % WordMod
    BY <2>1 DEF Address
  <2>3. FP0 + (objectOffset[c.fi] + c.imm) = FrameAddr(c.fi) + c.imm
    <3>1. FP0 \in Int /\ objectOffset[c.fi] \in Int /\ c.imm \in Int
      BY <1>1, <1>9, FrameAssumption
    <3> QED
      BY <3>1 DEF FrameAddr
  <2>4. Address(code[I]) = Accesses(c, e)
    BY <1>9, <2>2, <2>3 DEF Accesses
  <2> QED
    BY <1>9, <2>1, <2>4, Ran DEF Beyond
<1>10. CASE c.op # "access" /\ c.fi = NoFI
  <2>1. code[I] = i /\ Line(n + 1) = I + 1 /\ i.op = c.op /\ i.rd = assigned[c.rd]
    BY <1>1, <1>4, <1>5, <1>10
  <2>2. Result(i) = Value(c, e)
    <3>1. CASE c.op = "MOV_rr"
      BY <1>1, <1>4, <1>10, <3>1 DEF Result, Value
    <3>2. CASE c.op = "ADD_rr"
      BY <1>1, <1>4, <1>10, <3>2 DEF Result, Value
    <3>3. CASE c.op = "LD_imm64"
      BY <1>1, <1>4, <1>10, <3>3 DEF Result, Value
    <3> QED
      BY <1>1, <1>10, <3>1, <3>2, <3>3
  <2>3. c.op \notin {"STD", "access"}
    BY <1>1, <1>10
  <2> QED
    BY <1>10, <2>1, <2>2, <2>3, Ran DEF Beyond
<1>11. CASE c.op = "MOV_rr" /\ c.fi # NoFI
  <2>1. /\ code[I].op = "MOV_rr" /\ code[I].rs = R10 /\ code[I].rd = assigned[c.rd]
    BY <1>1, <1>4, <1>5, <1>7, <1>11
  <2>2. Result(code[I]) = FP0
    BY <2>1 DEF Result
  <2> QED
    BY <1>11, <2>1, <2>2, Ran DEF Beyond
<1> QED
  BY <1>1, <1>8, <1>9, <1>10, <1>11

\* The ADD_ri behind the move of a frame index.
LEMMA OffsetRuns ==
  ASSUME FrameInv, FramesFit, Made, NEW n \in 1 .. Len(Allocated),
         NEW c \in Chosen, Allocated[n] = InPlace(c), c.op = "MOV_rr", c.fi # NoFI,
         I = Line(n) + 1, regs[assigned[c.rd]] = FP0, Execute, NEW e
  PROVE  /\ I' = Line(n + 1) /\ mem' = mem /\ trace' = trace
         /\ regs' = [regs EXCEPT ![assigned[c.rd]] = Value(c, e)]
<1> DEFINE i == Allocated[n]
<1>0. stage = "run"
  BY Ran
<1>1. c.rd \in VRegs /\ objectOffset[c.fi] \in Int
  BY ChosenShape
<1>2. c \in [op : {"MOV_rr", "ADD_ri", "ADD_rr", "LD_imm64", "LDD", "STD", "access"},
             rd : VRegs \cup {NoReg}, rs : VRegs \cup {NoReg}, fi : Indices, imm : Int]
  BY DEF Chosen, Insns
<1>3. i.op = "MOV_rr" /\ i.fi = c.fi /\ i.rd = assigned[c.rd]
  BY <1>1, <1>2 DEF InPlace
<1>4. PICK p \in Nat : p = Line(n)
  BY <1>0, Lines DEF Made
<1>5. Line(n + 1) = p + 2 /\ code[p + 1] = AddImm(i.rd, objectOffset[i.fi])
  BY <1>0, <1>3, <1>4, Fetched
<1>6. I = p + 1 /\ Line(n + 1) = I + 1
  BY <1>4, <1>5
<1>7. /\ code[I].op = "ADD_ri" /\ code[I].rd = assigned[c.rd]
      /\ code[I].imm = objectOffset[c.fi]
  BY <1>3, <1>5, <1>6 DEF AddImm, Insn
<1> HIDE DEF i
<1>8. Result(code[I]) = Value(c, e)
  BY <1>7 DEF Result, Value, FrameAddr
<1> QED
  BY <1>6, <1>7, <1>8, Ran

-----------------------------------------------------------------------------
(***************************************************************************)
(* Execution inside the unit k, with r in the registers and m in the       *)
(* slots, for the values e of the virtual registers.                       *)
(***************************************************************************)
Turn(k) == CHOOSE n : Around(SelectedCode[k], Units[k], n)

\* Ahead of it, after j of its reloads: what is spilled and used is loaded, or will be.
Ahead(r, m, k, j, e) ==
  /\ j \in 0 .. Turn(k)
  /\ \A v \in VRegs : Kept(r, m, v) = e[v]
  /\ \A v \in Uses(SelectedCode[k]) \cap spilled :
       \/ r[assigned[v]] = e[v]
       \/ \E i \in j + 1 .. Turn(k) : Units[k][i] = Load(assigned[v], Slot(v))

\* Behind the move of the frame pointer, before the offset is added.
Between(r, m, k, e) ==
  /\ SelectedCode[k].op = "MOV_rr" /\ SelectedCode[k].fi # NoFI
  /\ r[assigned[SelectedCode[k].rd]] = FP0
  /\ \A v \in VRegs : v # SelectedCode[k].rd => Kept(r, m, v) = e[v]

\* After j instructions: what is spilled and defined is stored, or will be.
Behind(r, m, k, j, e) ==
  /\ j \in Turn(k) + 1 .. Len(Units[k])
  /\ \A v \in VRegs \ (Defs(SelectedCode[k]) \cap spilled) : Kept(r, m, v) = e[v]
  /\ \A v \in Defs(SelectedCode[k]) \cap spilled :
       /\ r[assigned[v]] = e[v]
       /\ \/ Kept(r, m, v) = e[v]
          \/ \E i \in j + 1 .. Len(Units[k]) : Units[k][i] = Store(assigned[v], Slot(v))

LEMMA UnitAt ==
  ASSUME FrameInv, FramesFit, Allotment, NEW k \in 1 .. Len(SelectedCode), NEW j \in 1 .. Len(Units[k])
  PROVE  /\ At(k, j) \in 1 .. Len(Allocated) /\ Allocated[At(k, j)] = Units[k][j]
         /\ At(k, j + 1) = At(k, j) + 1
<1>1. j \in Int
  OBVIOUS
<1> QED
  BY <1>1, AtUnit

LEMMA TurnAround ==
  ASSUME FrameInv, FramesFit, Allotment, NEW k \in 1 .. Len(SelectedCode)
  PROVE  /\ Around(SelectedCode[k], Units[k], Turn(k)) /\ SelectedCode[k] \in Chosen
         /\ Len(Units[k]) \in Nat /\ Turn(k) \in Nat /\ Turn(k) + 1 <= Len(Units[k])
         /\ At(k, Turn(k) + 1) \in 1 .. Len(Allocated)
         /\ Allocated[At(k, Turn(k) + 1)] = InPlace(SelectedCode[k])
<1>1. /\ SelectedCode[k] \in Chosen /\ Units[k] \in Seq(Allotted)
      /\ \E n : Around(SelectedCode[k], Units[k], n)
  BY UnitsTyped
<1>2. Around(SelectedCode[k], Units[k], Turn(k))
  BY <1>1 DEF Turn
<1>3. PICK L \in Nat : L = Len(Units[k])
  BY <1>1, LenProperties
<1>4. Turn(k) \in 0 .. L - 1 /\ Units[k][Turn(k) + 1] = InPlace(SelectedCode[k])
  BY <1>2, <1>3 DEF Around
<1>5. Turn(k) \in Nat /\ Turn(k) + 1 \in 1 .. L /\ Turn(k) + 1 <= L
  BY <1>4
<1>6. /\ At(k, Turn(k) + 1) \in 1 .. Len(Allocated)
      /\ Allocated[At(k, Turn(k) + 1)] = Units[k][Turn(k) + 1]
  BY <1>3, <1>5, UnitAt
<1> QED
  BY <1>1, <1>2, <1>3, <1>4, <1>5, <1>6

\* A register that is written keeps the values of the others.
LEMMA RegisterWritten ==
  ASSUME FrameInv, Allotment, NEW m, NEW d \in VRegs, NEW x, regs' = [regs EXCEPT ![assigned[d]] = x]
  PROVE  /\ regs'[assigned[d]] = x
         /\ \A v \in VRegs : v # d => Kept(regs', m, v) = Kept(regs, m, v)
         /\ d \in spilled => Kept(regs', m, d) = Kept(regs, m, d)
         /\ d \notin spilled => Kept(regs', m, d) = x
         /\ \A v \in VRegs : assigned[v] # assigned[d] => regs'[assigned[v]] = regs[assigned[v]]
<1>1. \A v \in VRegs : assigned[v] \in PhysRegs
  BY DEF Allotment, Allocatable
<1>2. regs \in [PhysRegs -> Words]
  BY DEF FrameInv
<1>3. /\ regs'[assigned[d]] = x
      /\ \A v \in VRegs : assigned[v] # assigned[d] => regs'[assigned[v]] = regs[assigned[v]]
  BY <1>1, <1>2
<1>4. ASSUME NEW v \in VRegs, v # d PROVE Kept(regs', m, v) = Kept(regs, m, v)
  <2>1. CASE v \in spilled
    BY <2>1 DEF Kept
  <2>2. CASE v \notin spilled
    <3>1. assigned[v] # assigned[d]
      BY <1>4, <2>2 DEF Allotment, MayShare
    <3> QED
      BY <1>3, <2>2, <3>1 DEF Kept
  <2> QED
    BY <2>1, <2>2
<1> QED
  BY <1>3, <1>4 DEF Kept

\* A step inside a unit: a reload.
LEMMA LoadStep ==
  ASSUME FrameInv, FramesFit, Made, regs[R10] = FP0, Execute, NEW k \in 1 .. Len(SelectedCode),
         NEW j \in Nat, NEW e, Ahead(regs, mem, k, j, e), j # Turn(k), I = Line(At(k, j + 1))
  PROVE  Ahead(regs', mem', k, j + 1, e) /\ I' = Line(At(k, (j + 1) + 1)) /\ trace' = trace
<1>1. Allotment
  BY Ran DEF Made
<1> DEFINE c == SelectedCode[k]
           u == Units[k]
<1>2. PICK n \in Nat, L \in Nat : n = Turn(k) /\ L = Len(u) /\ n + 1 <= L
  BY <1>1, TurnAround
<1>3. /\ \A i \in 1 .. n : \E v \in Uses(c) \cap spilled : u[i] = Load(assigned[v], Slot(v))
      /\ c \in Chosen
  BY <1>1, <1>2, TurnAround DEF Around
<1>4. j + 1 \in 1 .. n /\ j + 1 \in 1 .. L /\ j + 1 \in 0 .. n
  BY <1>2 DEF Ahead
<1>5. PICK v \in Uses(c) \cap spilled : u[j + 1] = Load(assigned[v], Slot(v))
  BY <1>3, <1>4
<1>6. v \in VRegs /\ v \in spilled
  BY <1>5 DEF Uses
<1>7. PICK a \in 1 .. Len(Allocated) : /\ a = At(k, j + 1) /\ Allocated[a] = u[j + 1]
                                       /\ At(k, (j + 1) + 1) = a + 1
  BY <1>1, <1>2, <1>4, UnitAt
<1>8. /\ I' = Line(a + 1) /\ mem' = mem /\ trace' = trace
      /\ regs' = [regs EXCEPT ![assigned[v]] = Word(mem, v)]
  BY <1>5, <1>6, <1>7, LoadRuns
<1>10. /\ regs'[assigned[v]] = Word(mem, v)
       /\ \A w \in VRegs : Kept(regs', mem, w) = Kept(regs, mem, w)
       /\ \A w \in VRegs : assigned[w] # assigned[v] => regs'[assigned[w]] = regs[assigned[w]]
  BY <1>1, <1>6, <1>8, RegisterWritten, Zenon
<1>11. Word(mem, v) = e[v]
  BY <1>6 DEF Ahead, Kept
<1>12. ASSUME NEW w \in Uses(c) \cap spilled
       PROVE  \/ regs'[assigned[w]] = e[w]
              \/ \E i \in (j + 1) + 1 .. n : u[i] = Load(assigned[w], Slot(w))
  <2>1. CASE w = v
    BY <1>10, <1>11, <2>1
  <2>2. CASE w # v
    <3>1. w \in VRegs
      BY DEF Uses
    <3>2. assigned[w] # assigned[v]
      <4>1. {w, v} = {"sum", "imm"}
        BY <1>3, <2>2, ChosenShape
      <4> QED
        BY <1>1, <1>6, <2>2, <3>1, <4>1 DEF Allotment, MayShare
    <3>3. CASE regs[assigned[w]] = e[w]
      BY <1>10, <3>1, <3>2, <3>3
    <3>4. CASE \E i \in j + 1 .. n : u[i] = Load(assigned[w], Slot(w))
      <4>1. PICK i \in j + 1 .. n : u[i] = Load(assigned[w], Slot(w))
        BY <3>4
      <4>2. i # j + 1
        BY <1>5, <3>2, <4>1 DEF Load, Insn
      <4>3. i \in (j + 1) + 1 .. n
        BY <4>2
      <4> QED
        BY <4>1, <4>3
    <3> QED
      BY <1>2, <3>3, <3>4 DEF Ahead
  <2> QED
    BY <2>1, <2>2
<1>13. Ahead(regs', mem', k, j + 1, e)
  BY <1>2, <1>4, <1>8, <1>10, <1>12 DEF Ahead
<1> QED
  BY <1>7, <1>8, <1>13

\* The instruction itself: its operands are in registers.
LEMMA TurnStep ==
  ASSUME FrameInv, FramesFit, Made, regs[R10] = FP0, Execute, NEW k \in 1 .. Len(SelectedCode),
         NEW e \in [VRegs -> Words], Ahead(regs, mem, k, Turn(k), e), I = Line(At(k, Turn(k) + 1))
  PROVE  LET c == SelectedCode[k]
         IN  /\ trace' = Beyond(c, e, trace)
             /\ c.op = "MOV_rr" /\ c.fi # NoFI => Between(regs', mem', k, e) /\ I' = I + 1
             /\ ~(c.op = "MOV_rr" /\ c.fi # NoFI) =>
                  /\ Behind(regs', mem', k, Turn(k) + 1, Effect(c, e))
                  /\ I' = Line(At(k, (Turn(k) + 1) + 1))
<1>1. Allotment
  BY Ran DEF Made
<1> DEFINE c == SelectedCode[k]
           u == Units[k]
<1>2. PICK n \in Nat, L \in Nat : n = Turn(k) /\ L = Len(u) /\ n + 1 <= L
  BY <1>1, TurnAround
<1>3. /\ \A v \in Defs(c) \cap spilled : \E i \in n + 2 .. L : u[i] = Store(assigned[v], Slot(v))
      /\ c \in Chosen
  BY <1>1, <1>2, TurnAround DEF Around
<1>4. PICK a \in 1 .. Len(Allocated) : /\ a = At(k, n + 1) /\ Allocated[a] = InPlace(c)
                                       /\ At(k, (n + 1) + 1) = a + 1
  <2>1. n + 1 \in 1 .. L
    BY <1>2
  <2>2. At(k, (n + 1) + 1) = At(k, n + 1) + 1
    BY <1>1, <1>2, <2>1, UnitAt
  <2>3. At(k, n + 1) \in 1 .. Len(Allocated) /\ Allocated[At(k, n + 1)] = InPlace(c)
    BY <1>1, <1>2, TurnAround
  <2> QED
    BY <2>2, <2>3
<1>5. \A v \in VRegs : Kept(regs, mem, v) = e[v]
  BY DEF Ahead
<1>6. ASSUME NEW v \in Uses(c) PROVE regs[assigned[v]] = e[v]
  <2>1. v \in VRegs
    BY DEF Uses
  <2>2. CASE v \in spilled
    <3>1. Turn(k) + 1 .. Turn(k) = {}
      BY <1>2
    <3> QED
      BY <2>2, <3>1 DEF Ahead
  <2>3. CASE v \notin spilled
    BY <1>5, <2>1, <2>3 DEF Kept
  <2> QED
    BY <2>2, <2>3
<1>7. /\ mem' = mem /\ trace' = Beyond(c, e, trace)
      /\ c.op = "access" => I' = Line(a + 1) /\ regs' = regs
      /\ c.op # "access" /\ c.fi = NoFI =>
           I' = Line(a + 1) /\ regs' = [regs EXCEPT ![assigned[c.rd]] = Value(c, e)]
      /\ c.op = "MOV_rr" /\ c.fi # NoFI =>
           I' = I + 1 /\ regs' = [regs EXCEPT ![assigned[c.rd]] = FP0]
  BY <1>2, <1>3, <1>4, <1>6, InPlaceRuns
<1>9. /\ c.op \in {"MOV_rr", "ADD_rr", "LD_imm64", "access"}
      /\ c.op # "access" => c.rd \in VRegs /\ Defs(c) = {c.rd}
      /\ c.op = "access" => Defs(c) = {}
      /\ c.op \in {"ADD_rr", "LD_imm64"} => c.fi = NoFI
  BY <1>3, ChosenShape
<1>10. n + 1 \in n + 1 .. L
  BY <1>2
<1>11. CASE c.op = "access"
  <2>1. Effect(c, e) = e
    BY <1>11 DEF Effect
  <2>2. Behind(regs', mem', k, n + 1, e)
    BY <1>2, <1>5, <1>7, <1>9, <1>10, <1>11 DEF Behind
  <2> QED
    BY <1>2, <1>4, <1>7, <1>11, <2>1, <2>2
<1>12. CASE c.op = "MOV_rr" /\ c.fi # NoFI
  <2>1. c.rd \in VRegs
    BY <1>9, <1>12
  <2>2. /\ regs'[assigned[c.rd]] = FP0
        /\ \A v \in VRegs : v # c.rd => Kept(regs', mem, v) = Kept(regs, mem, v)
    <3>1. regs' = [regs EXCEPT ![assigned[c.rd]] = FP0]
      BY <1>7, <1>12
    <3> QED
      BY <1>1, <2>1, <3>1, RegisterWritten, Zenon
  <2>3. Between(regs', mem', k, e)
    BY <1>5, <1>7, <1>12, <2>2 DEF Between
  <2> QED
    BY <1>7, <1>12, <2>3
<1>13. CASE c.op # "access" /\ c.fi = NoFI
  <2>1. c.rd \in VRegs /\ Defs(c) = {c.rd}
    BY <1>9, <1>13
  <2>2. /\ regs'[assigned[c.rd]] = Value(c, e)
        /\ \A v \in VRegs : v # c.rd => Kept(regs', mem, v) = Kept(regs, mem, v)
        /\ c.rd \notin spilled => Kept(regs', mem, c.rd) = Value(c, e)
    <3>1. regs' = [regs EXCEPT ![assigned[c.rd]] = Value(c, e)]
      BY <1>7, <1>13
    <3> QED
      BY <1>1, <2>1, <3>1, RegisterWritten, ZenonT(30)
  <2>3. /\ Effect(c, e)[c.rd] = Value(c, e)
        /\ \A v \in VRegs : v # c.rd => Effect(c, e)[v] = e[v]
    BY <1>13, <2>1 DEF Effect
  <2>4. \A v \in VRegs \ (Defs(c) \cap spilled) : Kept(regs', mem', v) = Effect(c, e)[v]
    BY <1>5, <1>7, <2>1, <2>2, <2>3
  <2>5. ASSUME NEW v \in Defs(c) \cap spilled
        PROVE  /\ regs'[assigned[v]] = Effect(c, e)[v]
               /\ \E i \in (n + 1) + 1 .. L : u[i] = Store(assigned[v], Slot(v))
    <3>1. v = c.rd
      BY <2>1
    <3>2. (n + 1) + 1 = n + 2
      BY <1>2
    <3> QED
      BY <1>3, <2>2, <2>3, <3>1, <3>2
  <2>6. Behind(regs', mem', k, n + 1, Effect(c, e))
    BY <1>2, <1>10, <2>4, <2>5 DEF Behind
  <2> QED
    BY <1>2, <1>4, <1>7, <1>13, <2>6
<1> QED
  BY <1>9, <1>11, <1>12, <1>13

\* The offset is added to the frame pointer.
LEMMA BetweenStep ==
  ASSUME FrameInv, FramesFit, Made, Execute, NEW k \in 1 .. Len(SelectedCode),
         NEW e \in [VRegs -> Words], Between(regs, mem, k, e), I = Line(At(k, Turn(k) + 1)) + 1
  PROVE  /\ Behind(regs', mem', k, Turn(k) + 1, Effect(SelectedCode[k], e))
         /\ I' = Line(At(k, (Turn(k) + 1) + 1)) /\ trace' = trace
<1>1. Allotment
  BY Ran DEF Made
<1> DEFINE c == SelectedCode[k]
           u == Units[k]
<1>2. PICK n \in Nat, L \in Nat : n = Turn(k) /\ L = Len(u) /\ n + 1 <= L
  BY <1>1, TurnAround
<1>3. /\ \A v \in Defs(c) \cap spilled : \E i \in n + 2 .. L : u[i] = Store(assigned[v], Slot(v))
      /\ c \in Chosen
  BY <1>1, <1>2, TurnAround DEF Around
<1>4. PICK a \in 1 .. Len(Allocated) : /\ a = At(k, n + 1) /\ Allocated[a] = InPlace(c)
                                       /\ At(k, (n + 1) + 1) = a + 1
  <2>1. n + 1 \in 1 .. L
    BY <1>2
  <2>2. At(k, (n + 1) + 1) = At(k, n + 1) + 1
    BY <1>1, <1>2, <2>1, UnitAt
  <2>3. At(k, n + 1) \in 1 .. Len(Allocated) /\ Allocated[At(k, n + 1)] = InPlace(c)
    BY <1>1, <1>2, TurnAround
  <2> QED
    BY <2>2, <2>3
<1>5. /\ c.op = "MOV_rr" /\ c.fi # NoFI /\ regs[assigned[c.rd]] = FP0
      /\ \A v \in VRegs : v # c.rd => Kept(regs, mem, v) = e[v]
  BY DEF Between
<1>6. /\ I' = Line(a + 1) /\ mem' = mem /\ trace' = trace
      /\ regs' = [regs EXCEPT ![assigned[c.rd]] = Value(c, e)]
  <2>1. I = Line(a) + 1
    BY <1>2, <1>4
  <2> HIDE DEF c
  <2> QED
    BY <1>3, <1>4, <1>5, <2>1, OffsetRuns
<1>8. c.rd \in VRegs /\ Defs(c) = {c.rd}
  BY <1>3, <1>5, ChosenShape
<1>9. /\ regs'[assigned[c.rd]] = Value(c, e)
      /\ \A v \in VRegs : v # c.rd => Kept(regs', mem, v) = Kept(regs, mem, v)
      /\ c.rd \notin spilled => Kept(regs', mem, c.rd) = Value(c, e)
  BY <1>1, <1>6, <1>8, RegisterWritten, ZenonT(30)
<1>10. /\ Effect(c, e)[c.rd] = Value(c, e)
       /\ \A v \in VRegs : v # c.rd => Effect(c, e)[v] = e[v]
  BY <1>5, <1>8 DEF Effect
<1>11. \A v \in VRegs \ (Defs(c) \cap spilled) : Kept(regs', mem', v) = Effect(c, e)[v]
  BY <1>5, <1>6, <1>8, <1>9, <1>10
<1>12. ASSUME NEW v \in Defs(c) \cap spilled
       PROVE  /\ regs'[assigned[v]] = Effect(c, e)[v]
              /\ \E i \in (n + 1) + 1 .. L : u[i] = Store(assigned[v], Slot(v))
  <2>1. v = c.rd
    BY <1>8
  <2>2. (n + 1) + 1 = n + 2
    BY <1>2
  <2> QED
    BY <1>3, <1>9, <1>10, <2>1, <2>2
<1>13. n + 1 \in n + 1 .. L
  BY <1>2
<1>14. Behind(regs', mem', k, n + 1, Effect(c, e))
  BY <1>2, <1>11, <1>12, <1>13 DEF Behind
<1> QED
  BY <1>2, <1>4, <1>6, <1>14

\* A spill.
LEMMA StoreStep ==
  ASSUME FrameInv, FramesFit, Made, regs[R10] = FP0, Execute, NEW k \in 1 .. Len(SelectedCode),
         NEW j \in Nat, NEW e, Behind(regs, mem, k, j, e), j # Len(Units[k]), I = Line(At(k, j + 1))
  PROVE  Behind(regs', mem', k, j + 1, e) /\ I' = Line(At(k, (j + 1) + 1)) /\ trace' = trace
<1>1. Allotment
  BY Ran DEF Made
<1> DEFINE c == SelectedCode[k]
           u == Units[k]
<1>2. PICK n \in Nat, L \in Nat : n = Turn(k) /\ L = Len(u) /\ n + 1 <= L
  BY <1>1, TurnAround
<1>3. /\ \A i \in n + 2 .. L : \E v \in Defs(c) \cap spilled : u[i] = Store(assigned[v], Slot(v))
      /\ c \in Chosen
  BY <1>1, <1>2, TurnAround DEF Around
<1>4. j + 1 \in n + 2 .. L /\ j + 1 \in 1 .. L /\ j + 1 \in n + 1 .. L
  <2>1. j \in n + 1 .. L /\ j # L
    BY <1>2 DEF Behind
  <2> QED
    BY <2>1
<1>5. PICK v \in Defs(c) \cap spilled : u[j + 1] = Store(assigned[v], Slot(v))
  BY <1>3, <1>4
<1>6. v \in VRegs /\ v \in spilled
  BY <1>5 DEF Defs
<1>7. PICK a \in 1 .. Len(Allocated) : /\ a = At(k, j + 1) /\ Allocated[a] = u[j + 1]
                                       /\ At(k, (j + 1) + 1) = a + 1
  BY <1>1, <1>2, <1>4, UnitAt
<1>8. /\ I' = Line(a + 1) /\ regs' = regs /\ trace' = trace
      /\ Word(mem', v) = regs[assigned[v]]
      /\ \A w \in VRegs : w # v => Word(mem', w) = Word(mem, w)
  BY <1>5, <1>6, <1>7, StoreRuns
<1>9. regs[assigned[v]] = e[v]
  BY <1>5 DEF Behind
<1>10. /\ Kept(regs', mem', v) = e[v]
       /\ \A w \in VRegs : w # v => Kept(regs', mem', w) = Kept(regs, mem, w)
  BY <1>6, <1>8, <1>9 DEF Kept
<1>11. \A w \in VRegs \ (Defs(c) \cap spilled) : Kept(regs', mem', w) = e[w]
  BY <1>5, <1>10 DEF Behind
<1>12. ASSUME NEW w \in Defs(c) \cap spilled
       PROVE  regs'[assigned[w]] = e[w] /\ Kept(regs', mem', w) = e[w]
  <2>1. w = v
    BY <1>3, <1>5, ChosenShape
  <2> QED
    BY <1>8, <1>9, <1>10, <2>1
<1>13. Behind(regs', mem', k, j + 1, e)
  BY <1>2, <1>4, <1>11, <1>12 DEF Behind
<1> QED
  BY <1>7, <1>8, <1>13

-----------------------------------------------------------------------------
(***************************************************************************)
(* The virtual registers and the trace when n - 1 items of the source and  *)
(* q instructions of the n-th are done.                                    *)
(***************************************************************************)
TraceParts == [n \in DOMAIN source |-> Accessed(source[n])]
TraceEnd   == CHOOSE b : Ends(SourceTrace, TraceParts, b)

Known(n, e) ==
  /\ e["ptr"] = Ptr0
  /\ \A m \in 1 .. n - 1 : source[m].k = "take" => e["obj"] = FrameAddr(source[m].fi) % WordMod

Computed(n, q, e) ==
  /\ q \in {1, 2} => e["sum"] = Base(source[n]) % WordMod
  /\ q = 2 => e["imm"] = source[n].off % WordMod
  /\ q = 3 => e["sum"] = (Base(source[n]) + source[n].off) % WordMod

Shown(n, t) ==
  /\ t \in Seq(Words) /\ Len(t) = TraceEnd[n - 1]
  /\ \A i \in 1 .. TraceEnd[n - 1] : t[i] = SourceTrace[i]

ReachedAt(k, n, q, e, t) ==
  /\ n \in 1 .. Len(source) + 1 /\ q \in Nat
  /\ k = SelEnd[n - 1] + q
  /\ n <= Len(source) => q < Len(SelectedParts[n])
  /\ n > Len(source) => q = 0
  /\ Known(n, e) /\ Computed(n, q, e) /\ Shown(n, t)

Reached(k, e, t) == \E n, q : ReachedAt(k, n, q, e, t)

\* What the base of an access is.
LEMMA BaseTyped ==
  ASSUME FrameInv, NEW n \in 1 .. Len(source), source[n].k = "access"
  PROVE  /\ Base(source[n]) \in Int
         /\ source[n].fi # NoFI => Base(source[n]) = FrameAddr(source[n].fi)
         /\ source[n].fi = NoFI => source[n].reg \in {"ptr", "obj"}
         /\ source[n].reg = "ptr" => Base(source[n]) = Ptr0 /\ source[n].fi = NoFI
         /\ source[n].reg = "obj" =>
              /\ source[n].fi = NoFI
              /\ \E m \in 1 .. n - 1 :
                   source[m].k = "take" /\ Base(source[n]) = FrameAddr(source[m].fi)
<1> DEFINE i == source[n]
<1>1. i \in Source /\ DOMAIN source = 1 .. Len(source) /\ Len(source) \in Nat /\ SSA(source)
  BY SourceTyped
<1>2. /\ i.fi \in Objects \cup {NoFI} /\ i.reg \in {"ptr", "obj", NoReg}
      /\ (i.fi = NoFI <=> i.reg # NoReg)
  BY <1>1 DEF Source
<1>3. "ptr" # NoReg /\ "obj" # NoReg /\ FP0 \in Int /\ Ptr0 \in Int
  BY FrameAssumption DEF VRegs
<1>4. ASSUME NEW f \in Objects PROVE FrameAddr(f) \in Int
  BY <1>3 DEF FrameAddr, FrameInv
<1>5. CASE i.fi # NoFI
  <2>1. Base(i) = FrameAddr(i.fi)
    BY <1>2, <1>3, <1>5 DEF Base, FrameAddr
  <2> QED
    BY <1>2, <1>3, <1>4, <1>5, <2>1
<1>6. CASE i.fi = NoFI /\ i.reg = "ptr"
  BY <1>2, <1>3, <1>6 DEF Base
<1>7. CASE i.fi = NoFI /\ i.reg = "obj"
  <2>1. PICK m \in 1 .. n - 1 : source[m].k = "take"
    BY <1>1, <1>7 DEF SSA
  <2>2. m \in DOMAIN source
    BY <1>1
  <2>3. (CHOOSE x \in DOMAIN source : source[x].k = "take") = m
    <3>1. \A x \in DOMAIN source : source[x].k = "take" => x = m
      BY <1>1, <2>1, <2>2 DEF SSA
    <3> QED
      BY <2>1, <2>2, <3>1
  <2>4. Base(i) = FrameAddr(source[m].fi)
    BY <1>7, <2>3 DEF Base, FrameAddr
  <2>5. source[m].fi \in Objects
    <3>1. source[m] \in Source
      BY <2>2, SourceTyped
    <3> QED
      BY <2>1, <3>1 DEF Source
  <2> QED
    BY <1>3, <1>4, <1>7, <2>1, <2>4, <2>5
<1> QED
  BY <1>2, <1>5, <1>6, <1>7

LEMMA TraceTyped ==
  ASSUME FrameInv
  PROVE  /\ TraceParts \in Seq(Seq(Words)) /\ Len(TraceParts) = Len(source)
         /\ SourceTrace \in Seq(Words) /\ Len(SourceTrace) \in Nat
         /\ Ends(SourceTrace, TraceParts, TraceEnd)
         /\ \A n \in 1 .. Len(source) : TraceParts[n] = Accessed(source[n])
<1>1. PICK N \in Nat : N = Len(source) /\ DOMAIN source = 1 .. N /\ \A n \in 1 .. N : source[n] \in Source
  BY SourceTyped, ElementOfSeq
<1>2. ASSUME NEW n \in 1 .. N PROVE Accessed(source[n]) \in Seq(Words)
  <2>1. CASE source[n].k = "access"
    <3>1. Base(source[n]) \in Int /\ source[n].off \in Int
      BY <1>1, <2>1, BaseTyped DEF Source
    <3>2. (Base(source[n]) + source[n].off) % WordMod \in Words
      BY <3>1, WordOf
    <3> QED
      BY <2>1, <3>2 DEF Accessed
  <2>2. CASE source[n].k # "access"
    BY <2>2 DEF Accessed
  <2> QED
    BY <2>1, <2>2
<1>3. TraceParts \in Seq(Seq(Words)) /\ Len(TraceParts) = N
  <2>1. TraceParts \in [1 .. N -> Seq(Words)]
    BY <1>1, <1>2 DEF TraceParts
  <2> QED
    BY <2>1
<1>4. SourceTrace = FlattenSeq(TraceParts)
  BY DEF SourceTrace, TraceParts
<1>5. SourceTrace \in Seq(Words) /\ \E b : Ends(SourceTrace, TraceParts, b)
  BY <1>3, <1>4, FlattenSeqType, FlattenSeqEnds
<1>6. Ends(SourceTrace, TraceParts, TraceEnd)
  BY <1>5 DEF TraceEnd
<1> QED
  BY <1>1, <1>3, <1>5, <1>6, LenProperties DEF TraceParts

\* The trace over one more item of the source.
LEMMA ShownNext ==
  ASSUME FrameInv, NEW n \in 1 .. Len(source), NEW t, Shown(n, t)
  PROVE  /\ source[n].k = "take" => Shown(n + 1, t)
         /\ source[n].k = "access" =>
              Shown(n + 1, Append(t, (Base(source[n]) + source[n].off) % WordMod))
<1>1. PICK N \in Nat : N = Len(source) /\ N = Len(TraceParts) /\ n \in 1 .. N
  BY SourceTyped, TraceTyped
<1>2. /\ TraceEnd[n] = TraceEnd[n - 1] + Len(TraceParts[n])
      /\ \A j \in 1 .. Len(TraceParts[n]) : SourceTrace[TraceEnd[n - 1] + j] = TraceParts[n][j]
      /\ TraceParts[n] = Accessed(source[n])
  BY <1>1, TraceTyped DEF Ends
<1>3. PICK b \in Nat : b = TraceEnd[n - 1]
  <2>1. n - 1 \in 0 .. N
    BY <1>1
  <2> QED
    BY <1>1, <2>1, TraceTyped DEF Ends
<1>4. (n + 1) - 1 = n
  BY <1>1
<1>5. CASE source[n].k = "take"
  <2>1. TraceParts[n] = << >> /\ Len(TraceParts[n]) = 0
    BY <1>2, <1>5 DEF Accessed
  <2>2. TraceEnd[n] = TraceEnd[n - 1]
    BY <1>2, <1>3, <2>1
  <2> QED
    BY <1>4, <1>5, <2>2 DEF Shown
<1>6. CASE source[n].k = "access"
  <2> DEFINE a == (Base(source[n]) + source[n].off) % WordMod
  <2>1. a \in Words
    <3>1. Base(source[n]) \in Int /\ source[n].off \in Int
      BY <1>1, <1>6, BaseTyped, SourceTyped DEF Source
    <3> QED
      BY <3>1, WordOf
  <2>2. TraceParts[n] = <<a>>
    BY <1>2, <1>6 DEF Accessed
  <2> HIDE DEF a
  <2>3. Len(TraceParts[n]) = 1 /\ TraceParts[n][1] = a /\ 1 \in 1 .. Len(TraceParts[n])
    BY <2>2
  <2>4. TraceEnd[n] = b + 1 /\ SourceTrace[b + 1] = a
    BY <1>2, <1>3, <2>3
  <2>5. /\ Append(t, a) \in Seq(Words) /\ Len(Append(t, a)) = b + 1
        /\ Append(t, a)[b + 1] = a
        /\ \A i \in 1 .. b : Append(t, a)[i] = t[i]
    <3>1. t \in Seq(Words) /\ Len(t) = b
      BY <1>3 DEF Shown
    <3> QED
      BY <2>1, <3>1
  <2>6. \A i \in 1 .. b + 1 : Append(t, a)[i] = SourceTrace[i]
    <3>1. \A i \in 1 .. b : Append(t, a)[i] = SourceTrace[i]
      BY <1>3, <2>5 DEF Shown
    <3>2. \A i \in 1 .. b + 1 : i \in 1 .. b \/ i = b + 1
      OBVIOUS
    <3> QED
      BY <2>4, <2>5, <3>1, <3>2
  <2>7. Shown(n + 1, Append(t, a))
    BY <1>4, <2>4, <2>5, <2>6 DEF Shown
  <2> QED
    BY <1>6, <2>7 DEF a
<1>7. source[n].k \in {"take", "access"}
  BY <1>1, SourceTyped DEF Source
<1> QED
  BY <1>5, <1>6

\* The register that an access names holds its base.
LEMMA BaseKnown ==
  ASSUME FrameInv, NEW n \in 1 .. Len(source), source[n].k = "access", source[n].fi = NoFI,
         NEW e, Known(n, e)
  PROVE  e[source[n].reg] = Base(source[n]) % WordMod /\ source[n].reg \in VRegs
<1>1. source[n].reg \in {"ptr", "obj"} /\ {"ptr", "obj"} \subseteq VRegs
  BY BaseTyped DEF VRegs
<1>2. CASE source[n].reg = "ptr"
  <2>1. Ptr0 % WordMod = Ptr0
    BY FrameAssumption
  <2> QED
    BY <1>1, <1>2, <2>1, BaseTyped DEF Known
<1>3. CASE source[n].reg = "obj"
  <2>1. PICK m \in 1 .. n - 1 : source[m].k = "take" /\ Base(source[n]) = FrameAddr(source[m].fi)
    BY <1>3, BaseTyped
  <2> QED
    BY <1>1, <1>3, <2>1 DEF Known
<1> QED
  BY <1>1, <1>2, <1>3

\* One more selected instruction of the n-th item, or its last one.
LEMMA ReachedMore ==
  ASSUME FrameInv, FramesFit, NEW k \in 1 .. Len(SelectedCode), NEW n \in 1 .. Len(source),
         NEW q \in Nat, k - 1 = SelEnd[n - 1] + q, q < Len(SelectedParts[n]), NEW e, NEW t,
         \/ /\ q + 1 < Len(SelectedParts[n])
            /\ Known(n, e) /\ Computed(n, q + 1, e) /\ Shown(n, t)
         \/ /\ q + 1 = Len(SelectedParts[n])
            /\ Known(n + 1, e) /\ Shown(n + 1, t)
  PROVE  Reached(k, e, t)
<1>1. PICK N \in Nat : N = Len(source) /\ N = Len(SelectedParts) /\ n \in 1 .. N
  BY SourceTyped, SelectedTyped
<1>2. PICK b \in Nat : b = SelEnd[n - 1] /\ SelEnd[n] = b + Len(SelectedParts[n])
  <2>1. n - 1 \in 0 .. N
    BY <1>1
  <2>2. SelEnd[n - 1] \in Nat /\ SelEnd[n] = SelEnd[n - 1] + Len(SelectedParts[n])
    BY <1>1, <2>1, SelectedEnds DEF Ends
  <2> QED
    BY <2>2
<1>3. k = b + (q + 1) /\ q + 1 \in Nat
  <2>1. k - 1 = b + q /\ k \in Int
    BY <1>2, SelectedTyped
  <2> QED
    BY <2>1
<1>4. n \in 1 .. N + 1 /\ n + 1 \in 1 .. N + 1 /\ (n + 1) - 1 = n /\ ~(n > N)
  BY <1>1
<1>5. CASE q + 1 < Len(SelectedParts[n])
  <2>1. Known(n, e) /\ Computed(n, q + 1, e) /\ Shown(n, t)
    <3>1. Len(SelectedParts[n]) \in Nat
      <4>1. SelectedParts[n] \in Seq(Chosen)
        BY <1>1, SelectedTyped, ElementOfSeq
      <4> QED
        BY <4>1, LenProperties
    <3> QED
      BY <1>5, <3>1
  <2>2. ReachedAt(k, n, q + 1, e, t)
    BY <1>1, <1>2, <1>3, <1>4, <1>5, <2>1 DEF ReachedAt
  <2> QED
    BY <2>2 DEF Reached
<1>6. CASE q + 1 = Len(SelectedParts[n]) /\ Known(n + 1, e) /\ Shown(n + 1, t)
  <2>1. k = SelEnd[n] + 0
    BY <1>2, <1>3, <1>6
  <2>2. Computed(n + 1, 0, e)
    BY DEF Computed
  <2>3. ASSUME n + 1 <= N PROVE 0 < Len(SelectedParts[n + 1])
    <3>1. n + 1 \in DOMAIN source
      BY <1>1, <2>3, SourceTyped
    <3> QED
      BY <3>1, ChosenInsns DEF SelectedParts
  <2>4. ReachedAt(k, n + 1, 0, e, t)
    BY <1>1, <1>4, <1>6, <2>1, <2>2, <2>3 DEF ReachedAt
  <2> QED
    BY <2>4 DEF Reached
<1> QED
  BY <1>5, <1>6

\* The virtual machine follows the source.
LEMMA ReachedNext ==
  ASSUME FrameInv, FramesFit, NEW k \in 1 .. Len(SelectedCode), NEW e \in [VRegs -> Words], NEW t,
         Reached(k - 1, e, t)
  PROVE  Reached(k, Effect(SelectedCode[k], e), Beyond(SelectedCode[k], e, t))
<1> DEFINE c == SelectedCode[k]
           x == Effect(c, e)
           y == Beyond(c, e, t)
<1>1. PICK n, q : ReachedAt(k - 1, n, q, e, t)
  BY DEF Reached
<1>2. PICK N \in Nat, K \in Nat : /\ N = Len(source) /\ N = Len(SelectedParts) /\ K = Len(SelectedCode)
                                  /\ DOMAIN source = 1 .. N /\ k \in 1 .. K
  BY SourceTyped, SelectedTyped
<1>3. n \in 1 .. N + 1 /\ q \in Nat /\ k - 1 = SelEnd[n - 1] + q
      /\ Known(n, e) /\ Computed(n, q, e) /\ Shown(n, t)
  BY <1>1, <1>2 DEF ReachedAt
<1>4. n \in 1 .. N
  <2>1. ASSUME n = N + 1 PROVE FALSE
    <3>1. q = 0 /\ (N + 1) - 1 = N
      BY <1>1, <1>2, <2>1 DEF ReachedAt
    <3>2. SelEnd[N] = K
      BY <1>2, SelectedEnds DEF Ends
    <3> QED
      BY <1>2, <1>3, <2>1, <3>1, <3>2
  <2> QED
    BY <1>3, <2>1
<1> DEFINE i == source[n]
           u == Selected(i)
<1>5. SelectedParts[n] = u /\ u \in Seq(Chosen)
  BY <1>2, <1>4, ChosenInsns DEF SelectedParts
<1>6. PICK L \in Nat : L = Len(u) /\ q < L
  BY <1>1, <1>2, <1>4, <1>5, LenProperties DEF ReachedAt
<1>7. c = u[q + 1]
  <2>1. q + 1 \in 1 .. L
    BY <1>3, <1>6
  <2>2. SelectedCode[SelEnd[n - 1] + (q + 1)] = u[q + 1]
    BY <1>2, <1>4, <1>5, <1>6, <2>1, SelectedEnds DEF Ends
  <2>3. SelEnd[n - 1] \in Nat
    <3>1. n - 1 \in 0 .. N
      BY <1>4
    <3> QED
      BY <1>2, <3>1, SelectedEnds DEF Ends
  <2>4. SelEnd[n - 1] + (q + 1) = k
    <3>1. PICK b \in Nat : b = SelEnd[n - 1]
      BY <2>3
    <3>2. k \in Int /\ q \in Nat /\ k - 1 = b + q
      BY <1>2, <1>3, <3>1
    <3>3. b + (q + 1) = k
      BY <3>2
    <3> QED
      BY <3>1, <3>3
  <2> QED
    BY <2>2, <2>4
<1>8. i \in Source
  BY <1>4, <1>2, SourceTyped
<1>9. /\ i.k \in {"take", "access"} /\ i.fi \in Objects \cup {NoFI} /\ i.off \in Int
      /\ i.k = "take" => i.fi # NoFI
  BY <1>8 DEF Source
<1>10. VRegs = {"ptr", "obj", "sum", "imm"} /\ NoReg \notin VRegs
  BY FrameAssumption DEF VRegs
<1>11. ASSUME \/ q + 1 < L /\ Known(n, x) /\ Computed(n, q + 1, x) /\ Shown(n, y)
              \/ q + 1 = L /\ Known(n + 1, x) /\ Shown(n + 1, y)
       PROVE  Reached(k, x, y)
  BY <1>2, <1>3, <1>4, <1>5, <1>6, <1>11, ReachedMore
<1>12. PICK M \in Nat \ {0} : M = WordMod
  BY FrameAssumption
<1> HIDE DEF c, x, y, i, u
<1>13. CASE i.k = "take"
  <2>1. u = <<MoveFI("obj", i.fi)>>
    BY <1>13 DEF u, Selected
  <2>2. L = 1 /\ q = 0 /\ c = MoveFI("obj", i.fi)
    BY <1>3, <1>6, <1>7, <2>1
  <2>3. c.op = "MOV_rr" /\ c.fi = i.fi /\ c.fi # NoFI /\ c.rd = "obj"
    BY <1>9, <1>13, <2>2 DEF MoveFI, Insn
  <2>4. x = [e EXCEPT !["obj"] = FrameAddr(i.fi) % WordMod] /\ y = t
    BY <2>3 DEF x, y, Effect, Beyond, Value
  <2>5. Known(n + 1, x)
    <3>1. x["ptr"] = Ptr0 /\ x["obj"] = FrameAddr(i.fi) % WordMod
      BY <1>3, <1>10, <2>4 DEF Known
    <3>2. ASSUME NEW m \in 1 .. (n + 1) - 1, source[m].k = "take" PROVE m = n
      <4>1. m \in DOMAIN source /\ n \in DOMAIN source
        BY <1>2, <1>4
      <4> QED
        BY <1>13, <3>2, <4>1, SourceTyped DEF SSA, i
    <3> QED
      BY <3>1, <3>2 DEF Known, i
  <2>6. Shown(n + 1, y)
    BY <1>2, <1>3, <1>4, <1>13, <2>4, ShownNext DEF i
  <2> QED
    BY <1>11, <2>2, <2>5, <2>6 DEF x, y, c
<1>14. CASE i.k = "access"
  <2> DEFINE B == Base(i)
             z == Append(t, (B + i.off) % WordMod)
  <2>1. B \in Int /\ (i.fi # NoFI => B = FrameAddr(i.fi))
    BY <1>2, <1>4, <1>14, BaseTyped DEF i
  <2>2. i.fi = NoFI => e[i.reg] = B % WordMod /\ i.reg \in VRegs
    BY <1>2, <1>3, <1>4, <1>14, BaseKnown DEF i
  <2>3. Shown(n + 1, z)
    BY <1>2, <1>3, <1>4, <1>14, ShownNext DEF i
  <2>4. Known(n, e) => Known(n + 1, e)
    <3>1. \A m \in 1 .. (n + 1) - 1 : m \in 1 .. n - 1 \/ m = n
      BY <1>4
    <3>2. source[n].k # "take"
      BY <1>14 DEF i
    <3> QED
      BY <3>1, <3>2 DEF Known
  <2>5. ASSUME NEW v \in {"sum", "imm"}, NEW w, x = [e EXCEPT ![v] = w]
        PROVE  Known(n, x) /\ x[v] = w
    BY <1>3, <1>10, <2>5 DEF Known
  <2> HIDE DEF B, z
  <2>6. CASE isInt32(i.off)
    <3>1. u = <<Access(i.reg, i.fi, i.off)>>
      BY <1>14, <2>6 DEF u, Selected, SelectAddr
    <3>2. L = 1 /\ q = 0 /\ c = Access(i.reg, i.fi, i.off)
      BY <1>3, <1>6, <1>7, <3>1
    <3>3. c.op = "access" /\ c.fi = i.fi /\ c.rs = i.reg /\ c.imm = i.off
      BY <3>2 DEF Access, Insn
    <3>4. x = e /\ y = Append(t, Accesses(c, e))
      BY <3>3 DEF x, y, Effect, Beyond
    <3>5. Accesses(c, e) = (B + i.off) % WordMod
      <4>1. CASE i.fi # NoFI
        BY <2>1, <3>3, <4>1 DEF Accesses
      <4>2. CASE i.fi = NoFI
        <5>1. Accesses(c, e) = ((B % M) + i.off) % M
          BY <1>12, <2>2, <3>3, <4>2 DEF Accesses
        <5>2. ((B % M) + i.off) % M = (B + i.off) % M
          BY <1>9, <2>1, RemainderOfSum
        <5> QED
          BY <1>12, <5>1, <5>2
      <4> QED
        BY <4>1, <4>2
    <3> QED
      BY <1>3, <1>11, <2>3, <2>4, <3>2, <3>4, <3>5 DEF z, x, y, c
  <2>7. CASE ~isInt32(i.off)
    <3>1. u = << IF i.fi # NoFI THEN MoveFI("sum", i.fi) ELSE Move("sum", i.reg),
                 LoadImm("imm", i.off), AddReg("sum", "imm"), Access("sum", NoFI, 0) >>
      BY <1>14, <2>7 DEF u, Selected, SelectAddr
    <3>2. L = 4 /\ q \in 0 .. 3
      BY <1>3, <1>6, <3>1
    <3>3. CASE q = 0
      <4>1. c = IF i.fi # NoFI THEN MoveFI("sum", i.fi) ELSE Move("sum", i.reg)
        BY <1>7, <3>1, <3>3
      <4>2. /\ c.op = "MOV_rr" /\ c.rd = "sum" /\ c.fi = i.fi
            /\ i.fi = NoFI => c.rs = i.reg
        <5>1. CASE i.fi # NoFI
          BY <4>1, <5>1 DEF MoveFI, Insn
        <5>2. CASE i.fi = NoFI
          BY <4>1, <5>2 DEF Move, Insn
        <5> QED
          BY <5>1, <5>2
      <4>3. Value(c, e) = B % WordMod
        <5>1. CASE i.fi # NoFI
          BY <2>1, <4>2, <5>1 DEF Value
        <5>2. CASE i.fi = NoFI
          BY <2>2, <4>2, <5>2 DEF Value
        <5> QED
          BY <5>1, <5>2
      <4>4. x = [e EXCEPT !["sum"] = B % WordMod] /\ y = t
        BY <4>2, <4>3 DEF x, y, Effect, Beyond
      <4>5. Known(n, x) /\ x["sum"] = B % WordMod
        BY <2>5, <4>4
      <4>6. Computed(n, 1, x)
        BY <4>5 DEF Computed, B, i
      <4>7. q + 1 < L /\ q + 1 = 1
        BY <3>2, <3>3
      <4> QED
        BY <1>3, <1>11, <4>4, <4>5, <4>6, <4>7 DEF x, y, c
    <3>4. CASE q = 1
      <4>1. c = LoadImm("imm", i.off)
        BY <1>7, <3>1, <3>4
      <4>2. c.op = "LD_imm64" /\ c.rd = "imm" /\ c.imm = i.off
        BY <4>1 DEF LoadImm, Insn
      <4>3. x = [e EXCEPT !["imm"] = i.off % WordMod] /\ y = t
        BY <4>2 DEF x, y, Effect, Beyond, Value
      <4>4. Known(n, x) /\ x["imm"] = i.off % WordMod
        BY <2>5, <4>3
      <4>5. x["sum"] = B % WordMod
        BY <1>3, <1>10, <3>4, <4>3 DEF Computed, B, i
      <4>6. Computed(n, 2, x)
        BY <4>4, <4>5 DEF Computed, B, i
      <4>7. q + 1 < L /\ q + 1 = 2
        BY <3>2, <3>4
      <4> QED
        BY <1>3, <1>11, <4>3, <4>4, <4>6, <4>7 DEF x, y, c
    <3>5. CASE q = 2
      <4>1. c = AddReg("sum", "imm")
        BY <1>7, <3>1, <3>5
      <4>2. c.op = "ADD_rr" /\ c.rd = "sum" /\ c.rs = "imm"
        BY <4>1 DEF AddReg, Insn
      <4>3. e["sum"] = B % WordMod /\ e["imm"] = i.off % WordMod
        BY <1>3, <3>5 DEF Computed, B, i
      <4>4. Value(c, e) = (B + i.off) % WordMod
        <5>1. Value(c, e) = ((B % M) + (i.off % M)) % M
          BY <1>12, <4>2, <4>3 DEF Value
        <5>2. ((B % M) + (i.off % M)) % M = (B + i.off) % M
          BY <1>9, <2>1, RemainderOfSum
        <5> QED
          BY <1>12, <5>1, <5>2
      <4>5. x = [e EXCEPT !["sum"] = (B + i.off) % WordMod] /\ y = t
        BY <4>2, <4>4 DEF x, y, Effect, Beyond
      <4>6. Known(n, x) /\ x["sum"] = (B + i.off) % WordMod
        BY <2>5, <4>5
      <4>7. Computed(n, 3, x)
        BY <4>6 DEF Computed, B, i
      <4>8. q + 1 < L /\ q + 1 = 3
        BY <3>2, <3>5
      <4> QED
        BY <1>3, <1>11, <4>5, <4>6, <4>7, <4>8 DEF x, y, c
    <3>6. CASE q = 3
      <4>1. c = Access("sum", NoFI, 0)
        BY <1>7, <3>1, <3>6
      <4>2. c.op = "access" /\ c.rs = "sum" /\ c.fi = NoFI /\ c.imm = 0
        BY <4>1 DEF Access, Insn
      <4>3. e["sum"] = (B + i.off) % WordMod
        BY <1>3, <3>6 DEF Computed, B, i
      <4>4. Accesses(c, e) = (B + i.off) % WordMod
        <5>1. Accesses(c, e) = (((B + i.off) % M) + 0) % M
          BY <1>12, <4>2, <4>3 DEF Accesses
        <5>2. (((B + i.off) % M) + 0) % M = ((B + i.off) + 0) % M
          <6>1. B + i.off \in Int /\ 0 \in Int
            BY <1>9, <2>1
          <6> QED
            BY <6>1, RemainderOfSum
        <5>3. (B + i.off) + 0 = B + i.off
          BY <1>9, <2>1
        <5> QED
          BY <1>12, <5>1, <5>2, <5>3
      <4>5. x = e /\ y = z
        BY <4>2, <4>4 DEF x, y, z, Effect, Beyond
      <4>6. q + 1 = L
        BY <3>2, <3>6
      <4> QED
        BY <1>3, <1>11, <2>3, <2>4, <4>5, <4>6 DEF x, y, c
    <3> QED
      BY <3>2, <3>3, <3>4, <3>5, <3>6
  <2> QED
    BY <2>6, <2>7
<1> QED
  BY <1>9, <1>13, <1>14

\* When every instruction is done, so is the source.
LEMMA ReachedEnd ==
  ASSUME FrameInv, FramesFit, NEW e, NEW t, Reached(Len(SelectedCode), e, t)
  PROVE  t = SourceTrace
<1>1. PICK n, q : ReachedAt(Len(SelectedCode), n, q, e, t)
  BY DEF Reached
<1>2. PICK N \in Nat, K \in Nat : N = Len(source) /\ N = Len(SelectedParts) /\ K = Len(SelectedCode)
  BY SourceTyped, SelectedTyped
<1>3. n \in 1 .. N + 1 /\ q \in Nat /\ K = SelEnd[n - 1] + q /\ Shown(n, t)
  BY <1>1, <1>2 DEF ReachedAt
<1>4. n = N + 1
  <2>1. ASSUME n \in 1 .. N PROVE FALSE
    <3>1. n - 1 \in 0 .. N /\ n \in 0 .. N
      BY <2>1
    <3>2. SelEnd[n] = SelEnd[n - 1] + Len(SelectedParts[n]) /\ SelEnd[n - 1] \in Nat
      BY <1>2, <2>1, <3>1, SelectedEnds DEF Ends
    <3>3. SelEnd[n] \in 0 .. K
      BY <1>2, <3>1, SelectedEnds, SelectedTyped, EndsInOrder
    <3>4. q < Len(SelectedParts[n])
      BY <1>1, <1>2, <2>1 DEF ReachedAt
    <3>5. Len(SelectedParts[n]) \in Nat
      <4>1. SelectedParts[n] \in Seq(Chosen)
        BY <1>2, <2>1, SelectedTyped, ElementOfSeq
      <4> QED
        BY <4>1, LenProperties
    <3> QED
      BY <1>3, <3>2, <3>3, <3>4, <3>5
  <2> QED
    BY <1>3, <2>1
<1>5. (N + 1) - 1 = N /\ TraceEnd[N] = Len(SourceTrace)
  BY <1>2, TraceTyped DEF Ends
<1>6. /\ t \in Seq(Words) /\ Len(t) = Len(SourceTrace)
      /\ \A j \in 1 .. Len(t) : t[j] = SourceTrace[j]
  BY <1>3, <1>4, <1>5 DEF Shown
<1> QED
  BY <1>6, TraceTyped, SequencesEqual

\* Until then, it is a prefix.
LEMMA ReachedPrefix ==
  ASSUME FrameInv, FramesFit, NEW k, NEW e, NEW t, Reached(k, e, t)
  PROVE  IsPrefix(t, SourceTrace)
<1>1. PICK n, q : ReachedAt(k, n, q, e, t)
  BY DEF Reached
<1>2. PICK N \in Nat : N = Len(source) /\ N = Len(TraceParts)
  BY SourceTyped, TraceTyped
<1>3. n - 1 \in 0 .. N /\ Shown(n, t)
  BY <1>1, <1>2 DEF ReachedAt
<1>4. TraceEnd[n - 1] \in 0 .. Len(SourceTrace)
  BY <1>2, <1>3, TraceTyped, EndsInOrder
<1>5. /\ t \in Seq(Words) /\ Len(t) \in 0 .. Len(SourceTrace)
      /\ \A i \in 1 .. Len(t) : t[i] = SourceTrace[i]
  BY <1>3, <1>4 DEF Shown
<1>6. /\ SubSeq(t, 1, Len(t)) \in Seq(Words) /\ Len(SubSeq(t, 1, Len(t))) = Len(t)
      /\ \A i \in 1 .. Len(t) : SubSeq(t, 1, Len(t))[i] = t[i]
  BY <1>5
<1>7. /\ SubSeq(SourceTrace, 1, Len(t)) \in Seq(Words)
      /\ Len(SubSeq(SourceTrace, 1, Len(t))) = Len(t)
      /\ \A i \in 1 .. Len(t) : SubSeq(SourceTrace, 1, Len(t))[i] = SourceTrace[i]
  BY <1>5, TraceTyped
<1>8. SubSeq(t, 1, Len(t)) = SubSeq(SourceTrace, 1, Len(t))
  BY <1>5, <1>6, <1>7, SequencesEqual
<1> QED
  BY <1>5, <1>8, TraceTyped DEF IsPrefix

-----------------------------------------------------------------------------
(***************************************************************************)
(* The whole run, with r in the registers, m in the slots, the next        *)
(* instruction at i and the trace t.                                       *)
(***************************************************************************)
AtEntry(r, m, i, t) ==
  "ptr" \in spilled /\ r[assigned["ptr"]] = Ptr0 /\ i = 1 /\ t = << >>

Loading(r, m, i, t) ==
  \E k \in 1 .. Len(SelectedCode), j \in Nat, e \in [VRegs -> Words] :
    Ahead(r, m, k, j, e) /\ i = Line(At(k, j + 1)) /\ Reached(k - 1, e, t)

Adding(r, m, i, t) ==
  \E k \in 1 .. Len(SelectedCode), e \in [VRegs -> Words] :
    Between(r, m, k, e) /\ i = Line(At(k, Turn(k) + 1)) + 1 /\ Reached(k - 1, e, t)

Storing(r, m, i, t) ==
  \E k \in 1 .. Len(SelectedCode), j \in Nat, e \in [VRegs -> Words] :
    /\ Behind(r, m, k, j, e) /\ j # Len(Units[k])
    /\ i = Line(At(k, j + 1)) /\ Reached(k, e, t)

AtExit(r, m, i, t) ==
  \E e \in [VRegs -> Words] :
    i = Line(At(Len(SelectedCode) + 1, 1)) /\ Reached(Len(SelectedCode), e, t)

Running(r, m, i, t) ==
  \/ AtEntry(r, m, i, t) \/ Loading(r, m, i, t) \/ Adding(r, m, i, t)
  \/ Storing(r, m, i, t) \/ AtExit(r, m, i, t)

RunInv ==
  /\ stage \in {"run", "halt"} => regs[R10] = FP0 /\ Running(regs, mem, I, trace)
  /\ stage = "halt" => AtExit(regs, mem, I, trace)

LEMMA AfterTyped ==
  ASSUME FrameInv, NEW c \in Chosen, NEW e \in [VRegs -> Words]
  PROVE  Effect(c, e) \in [VRegs -> Words]
<1>1. /\ c.op \in {"MOV_rr", "ADD_rr", "LD_imm64", "access"}
      /\ c.op \in {"MOV_rr", "access"} /\ c.fi = NoFI => c.rs \in VRegs
      /\ c.op = "ADD_rr" => c.rd \in VRegs /\ c.rs \in VRegs
      /\ c.op = "LD_imm64" => c.imm \in Int
      /\ c.fi # NoFI => FrameAddr(c.fi) \in Int
  BY ChosenShape DEF VRegs
<1>2. ASSUME c.op # "access" PROVE Value(c, e) \in Words
  <2>1. CASE c.op = "MOV_rr" /\ c.fi # NoFI
    BY <1>1, <2>1, WordOf DEF Value
  <2>2. CASE c.op = "MOV_rr" /\ c.fi = NoFI
    BY <1>1, <2>2 DEF Value
  <2>3. CASE c.op = "ADD_rr"
    <3>1. e[c.rd] \in Int /\ e[c.rs] \in Int
      BY <1>1, <2>3, FrameAssumption DEF Words
    <3>2. e[c.rd] + e[c.rs] \in Int
      BY <3>1
    <3>3. Value(c, e) = (e[c.rd] + e[c.rs]) % WordMod
      BY <2>3 DEF Value
    <3> QED
      BY <3>2, <3>3, WordOf
  <2>4. CASE c.op = "LD_imm64"
    <3>1. Value(c, e) = c.imm % WordMod
      BY <2>4 DEF Value
    <3> QED
      BY <1>1, <2>4, <3>1, WordOf
  <2> QED
    BY <1>1, <1>2, <2>1, <2>2, <2>3, <2>4
<1> QED
  BY <1>2 DEF Effect

LEMMA KeptTyped ==
  ASSUME Allotment, NEW r \in [PhysRegs -> Words], NEW m, \A a \in DOMAIN m : m[a] \in Words,
         NEW v \in VRegs
  PROVE  Kept(r, m, v) \in Words
<1>1. 0 \in Words
  BY FrameAssumption DEF Words
<1>2. assigned[v] \in PhysRegs
  BY DEF Allotment, Allocatable
<1> QED
  BY <1>1, <1>2 DEF Kept, Word

\* At the call, the argument is all that is known.
LEMMA ReachedStart ==
  ASSUME FrameInv, FramesFit, NEW e \in [VRegs -> Words], e["ptr"] = Ptr0
  PROVE  Reached(0, e, << >>)
<1>1. SelEnd[0] = 0 /\ TraceEnd[0] = 0
  BY SelectedEnds, TraceTyped DEF Ends
<1>2. PICK N \in Nat : N = Len(source) /\ DOMAIN source = 1 .. N
  BY SourceTyped
<1>3. Known(1, e) /\ Computed(1, 0, e)
  BY DEF Known, Computed
<1>4. Shown(1, << >>)
  BY <1>1 DEF Shown
<1>5. 1 <= N => 0 < Len(SelectedParts[1])
  <2>1. ASSUME 1 <= N PROVE 1 \in DOMAIN source
    BY <1>2, <2>1
  <2> QED
    BY <2>1, ChosenInsns DEF SelectedParts
<1>6. ReachedAt(0, 1, 0, e, << >>)
  BY <1>1, <1>2, <1>3, <1>4, <1>5 DEF ReachedAt
<1> QED
  BY <1>6 DEF Reached

\* Where a unit ends the next one starts, or the code ends.
LEMMA NextUnit ==
  ASSUME FrameInv, FramesFit, Allotment, NEW k \in 0 .. Len(SelectedCode),
         NEW e \in [VRegs -> Words], NEW r, NEW m, NEW i, NEW t,
         \A v \in VRegs : Kept(r, m, v) = e[v], Reached(k, e, t), i = Line(At(k + 1, 1))
  PROVE  Running(r, m, i, t)
<1>1. PICK K \in Nat : K = Len(SelectedCode) /\ k \in 0 .. K
  BY SelectedTyped
<1>2. CASE k = K
  BY <1>1, <1>2 DEF Running, AtExit
<1>3. CASE k # K
  <2>1. k + 1 \in 1 .. K /\ (k + 1) - 1 = k
    BY <1>1, <1>3
  <2>2. PICK n \in Nat : n = Turn(k + 1)
    BY <1>1, <2>1, TurnAround
  <2>3. \A v \in Uses(SelectedCode[k + 1]) \cap spilled :
          \E j \in 1 .. n : Units[k + 1][j] = Load(assigned[v], Slot(v))
    BY <1>1, <2>1, <2>2, TurnAround DEF Around
  <2>4. 0 \in 0 .. n /\ 0 + 1 = 1 /\ 0 \in Nat
    BY <2>2
  <2>5. Ahead(r, m, k + 1, 0, e)
    BY <2>2, <2>3, <2>4 DEF Ahead
  <2>6. i = Line(At(k + 1, 0 + 1))
    BY <2>4
  <2> QED
    BY <1>1, <2>1, <2>4, <2>5, <2>6 DEF Running, Loading
<1> QED
  BY <1>2, <1>3

\* Behind an instruction: its spills go on, or the unit ends.
LEMMA StoringOn ==
  ASSUME FrameInv, FramesFit, Allotment, NEW k \in 1 .. Len(SelectedCode), NEW j \in Nat,
         NEW e \in [VRegs -> Words], NEW r, NEW m, NEW i, NEW t,
         Behind(r, m, k, j, e), Reached(k, e, t), i = Line(At(k, j + 1))
  PROVE  Running(r, m, i, t)
<1>1. CASE j # Len(Units[k])
  BY <1>1 DEF Running, Storing
<1>2. CASE j = Len(Units[k])
  <2>1. ASSUME NEW v \in VRegs PROVE Kept(r, m, v) = e[v]
    <3>1. ~ \E x \in j + 1 .. j : TRUE
      OBVIOUS
    <3> QED
      BY <1>2, <3>1 DEF Behind
  <2>2. At(k, j + 1) = At(k + 1, 1)
    BY <1>2, AtUnit
  <2>3. k \in 0 .. Len(SelectedCode)
    BY SelectedTyped
  <2> QED
    BY <2>1, <2>2, <2>3, NextUnit
<1> QED
  BY <1>1, <1>2

-----------------------------------------------------------------------------
\* The instruction pointer stays in the code until the end.
LEMMA InsideCode ==
  ASSUME FrameInv, FramesFit, Made, stage = "run", Running(regs, mem, I, trace), I > Len(code)
  PROVE  AtExit(regs, mem, I, trace)
<1>1. Allotment /\ I \in Nat /\ Len(code) \in Nat
  <2>1. code \in Seq(InsnsNow) /\ I \in 1 .. Len(code) + 1
    BY DEF FrameInv
  <2>2. Len(code) \in Nat
    BY <2>1, LenProperties
  <2> QED
    BY <2>1, <2>2 DEF Made
<1>2. \A n \in 1 .. Len(Allocated) : Line(n) <= Len(code)
  BY Fetched
<1>3. ASSUME AtEntry(regs, mem, I, trace) PROVE FALSE
  <2>1. 1 \in 1 .. Len(Allocated)
    <3>1. Len(Arrival) = 1
      BY <1>3 DEF AtEntry, Arrival
    <3>2. At(1, 1) = 2 /\ Len(Allocated) \in Nat /\ Arrival \in Seq(Allotted) /\ FlattenSeq(Units) \in Seq(Allotted)
          /\ Len(Allocated) = Len(Arrival) + Len(FlattenSeq(Units))
      BY <1>1, <3>1, AtUnit, UnitsTyped
    <3>3. Len(FlattenSeq(Units)) \in Nat
      BY <3>2, LenProperties
    <3> QED
      BY <3>1, <3>2, <3>3
  <2>2. Line(1) = 1
    BY <1>1, Lines
  <2> QED
    BY <1>1, <1>2, <1>3, <2>1, <2>2 DEF AtEntry
<1>4. ASSUME Loading(regs, mem, I, trace) PROVE FALSE
  <2>1. PICK k \in 1 .. Len(SelectedCode), j \in Nat, e \in [VRegs -> Words] :
          Ahead(regs, mem, k, j, e) /\ I = Line(At(k, j + 1))
    BY <1>4 DEF Loading
  <2>2. PICK n \in Nat, L \in Nat : n = Turn(k) /\ L = Len(Units[k]) /\ n + 1 <= L
    BY <1>1, TurnAround
  <2>3. j + 1 \in 1 .. L
    BY <2>1, <2>2 DEF Ahead
  <2>4. At(k, j + 1) \in 1 .. Len(Allocated)
    BY <1>1, <2>2, <2>3, UnitAt
  <2> QED
    BY <1>1, <1>2, <2>1, <2>4, Lines DEF Made
<1>5. ASSUME Adding(regs, mem, I, trace) PROVE FALSE
  <2>1. PICK k \in 1 .. Len(SelectedCode), e \in [VRegs -> Words] :
          Between(regs, mem, k, e) /\ I = Line(At(k, Turn(k) + 1)) + 1
    BY <1>5 DEF Adding
  <2>2. PICK a \in 1 .. Len(Allocated) : a = At(k, Turn(k) + 1) /\ Allocated[a] = InPlace(SelectedCode[k])
    BY <1>1, TurnAround
  <2>3. Allocated[a].op = "MOV_rr" /\ Allocated[a].fi # NoFI
    <3>1. SelectedCode[k] \in Insns(VRegs, VRegs)
      BY <1>1, TurnAround DEF Chosen
    <3> QED
      BY <2>1, <2>2, <3>1 DEF Between, InPlace, Insns
  <2>4. Line(a) + 1 <= Len(code)
    BY <2>3, Fetched
  <2> QED
    BY <1>1, <2>1, <2>2, <2>4
<1>6. ASSUME Storing(regs, mem, I, trace) PROVE FALSE
  <2>1. PICK k \in 1 .. Len(SelectedCode), j \in Nat, e \in [VRegs -> Words] :
          Behind(regs, mem, k, j, e) /\ j # Len(Units[k]) /\ I = Line(At(k, j + 1))
    BY <1>6 DEF Storing
  <2>2. PICK L \in Nat : L = Len(Units[k])
    BY <1>1, TurnAround
  <2>3. j + 1 \in 1 .. L
    <3>1. j \in Turn(k) + 1 .. L
      BY <2>1, <2>2 DEF Behind
    <3>2. Turn(k) \in Nat
      BY <1>1, TurnAround
    <3> QED
      BY <2>1, <2>2, <3>1, <3>2
  <2>4. At(k, j + 1) \in 1 .. Len(Allocated)
    BY <1>1, <2>2, <2>3, UnitAt
  <2> QED
    BY <1>1, <1>2, <2>1, <2>4, Lines DEF Made
<1> QED
  BY <1>3, <1>4, <1>5, <1>6 DEF Running

\* One instruction more, in each part of the run.
LEMMA EntryGoesOn ==
  ASSUME FrameInv, FrameInv', FramesFit, Made, regs[R10] = FP0, Execute, AtEntry(regs, mem, I, trace)
  PROVE  Running(regs', mem', I', trace')
<1>1. Allotment
  BY Ran DEF Made
<1>2. Arrival = <<Store(assigned["ptr"], Slot("ptr"))>> /\ "ptr" \in VRegs
  BY DEF AtEntry, Arrival, VRegs
<1>3. Len(Arrival) = 1 /\ Arrival[1] = Store(assigned["ptr"], Slot("ptr"))
  BY <1>2
<1>4. 1 \in 1 .. Len(Allocated) /\ Allocated[1] = Store(assigned["ptr"], Slot("ptr"))
  <2>1. /\ Len(Allocated) = Len(Arrival) + Len(FlattenSeq(Units))
        /\ Allocated[1] = Arrival[1]
    <3>1. 1 \in 1 .. Len(Arrival)
      BY <1>3
    <3> QED
      BY <1>1, <3>1, AtUnit, UnitsTyped
  <2>2. Len(FlattenSeq(Units)) \in Nat
    BY <1>1, UnitsTyped, LenProperties
  <2> QED
    BY <1>3, <2>1, <2>2
<1>5. I = Line(1) /\ At(0 + 1, 1) = 1 + 1
  BY <1>1, <1>3, AtUnit, Lines DEF AtEntry
<1>6. /\ I' = Line(1 + 1) /\ regs' = regs /\ trace' = trace
      /\ Word(mem', "ptr") = regs[assigned["ptr"]]
  BY <1>2, <1>4, <1>5, StoreRuns
<1> DEFINE e == [v \in VRegs |-> Kept(regs', mem', v)]
<1>7. e \in [VRegs -> Words]
  <2>1. regs' \in [PhysRegs -> Words] /\ \A a \in DOMAIN mem' : mem'[a] \in Words
    BY DEF FrameInv
  <2> QED
    BY <1>1, <2>1, KeptTyped
<1>8. e["ptr"] = Ptr0
  BY <1>2, <1>6 DEF AtEntry, Kept
<1>9. \A v \in VRegs : Kept(regs', mem', v) = e[v]
  OBVIOUS
<1> HIDE DEF e
<1>10. Reached(0, e, trace')
  BY <1>6, <1>7, <1>8, ReachedStart DEF AtEntry
<1>11. 0 \in 0 .. Len(SelectedCode) /\ I' = Line(At(0 + 1, 1))
  BY <1>5, <1>6, SelectedTyped
<1> QED
  BY <1>1, <1>7, <1>9, <1>10, <1>11, NextUnit

LEMMA LoadingGoesOn ==
  ASSUME FrameInv, FramesFit, Made, regs[R10] = FP0, Execute, Loading(regs, mem, I, trace)
  PROVE  Running(regs', mem', I', trace')
<1>1. Allotment
  BY Ran DEF Made
<1>2. PICK k \in 1 .. Len(SelectedCode), j \in Nat, e \in [VRegs -> Words] :
        Ahead(regs, mem, k, j, e) /\ I = Line(At(k, j + 1)) /\ Reached(k - 1, e, trace)
  BY DEF Loading
<1>3. CASE j # Turn(k)
  <2>1. /\ Ahead(regs', mem', k, j + 1, e) /\ I' = Line(At(k, (j + 1) + 1)) /\ trace' = trace
    BY <1>2, <1>3, LoadStep
  <2>2. j + 1 \in Nat
    OBVIOUS
  <2> QED
    BY <1>2, <2>1, <2>2 DEF Running, Loading
<1>4. CASE j = Turn(k)
  <2> DEFINE c == SelectedCode[k]
  <2>1. /\ trace' = Beyond(c, e, trace)
        /\ c.op = "MOV_rr" /\ c.fi # NoFI => Between(regs', mem', k, e) /\ I' = I + 1
        /\ ~(c.op = "MOV_rr" /\ c.fi # NoFI) =>
             /\ Behind(regs', mem', k, Turn(k) + 1, Effect(c, e))
             /\ I' = Line(At(k, (Turn(k) + 1) + 1))
    BY <1>2, <1>4, TurnStep
  <2>2. CASE c.op = "MOV_rr" /\ c.fi # NoFI
    <3>1. trace' = trace
      BY <2>1, <2>2 DEF Beyond
    <3> QED
      BY <1>2, <1>4, <2>1, <2>2, <3>1 DEF Running, Adding
  <2>3. CASE ~(c.op = "MOV_rr" /\ c.fi # NoFI)
    <3>1. Reached(k, Effect(c, e), trace')
      BY <1>2, <2>1, ReachedNext
    <3>2. Effect(c, e) \in [VRegs -> Words] /\ Turn(k) + 1 \in Nat
      BY <1>1, TurnAround, AfterTyped
    <3> HIDE DEF c
    <3> QED
      BY <1>1, <2>1, <2>3, <3>1, <3>2, StoringOn
  <2> QED
    BY <2>2, <2>3
<1> QED
  BY <1>3, <1>4

LEMMA AddingGoesOn ==
  ASSUME FrameInv, FramesFit, Made, Execute, Adding(regs, mem, I, trace)
  PROVE  Running(regs', mem', I', trace')
<1>1. Allotment
  BY Ran DEF Made
<1>2. PICK k \in 1 .. Len(SelectedCode), e \in [VRegs -> Words] :
        Between(regs, mem, k, e) /\ I = Line(At(k, Turn(k) + 1)) + 1 /\ Reached(k - 1, e, trace)
  BY DEF Adding
<1> DEFINE c == SelectedCode[k]
<1>3. /\ Behind(regs', mem', k, Turn(k) + 1, Effect(c, e))
      /\ I' = Line(At(k, (Turn(k) + 1) + 1)) /\ trace' = trace
  BY <1>2, BetweenStep
<1>4. Beyond(c, e, trace) = trace'
  BY <1>2, <1>3 DEF Beyond, Between
<1>5. Reached(k, Effect(c, e), trace')
  <2>1. Reached(k, Effect(c, e), Beyond(c, e, trace))
    BY <1>2, ReachedNext
  <2> QED
    BY <1>4, <2>1
<1>6. Effect(c, e) \in [VRegs -> Words] /\ Turn(k) + 1 \in Nat
  BY <1>1, TurnAround, AfterTyped
<1> HIDE DEF c
<1> QED
  BY <1>1, <1>3, <1>5, <1>6, StoringOn

LEMMA StoringGoesOn ==
  ASSUME FrameInv, FramesFit, Made, regs[R10] = FP0, Execute, Storing(regs, mem, I, trace)
  PROVE  Running(regs', mem', I', trace')
<1>1. Allotment
  BY Ran DEF Made
<1>2. PICK k \in 1 .. Len(SelectedCode), j \in Nat, e \in [VRegs -> Words] :
        /\ Behind(regs, mem, k, j, e) /\ j # Len(Units[k])
        /\ I = Line(At(k, j + 1)) /\ Reached(k, e, trace)
  BY DEF Storing
<1>3. Behind(regs', mem', k, j + 1, e) /\ I' = Line(At(k, (j + 1) + 1)) /\ trace' = trace
  BY <1>2, StoreStep
<1>4. j + 1 \in Nat
  OBVIOUS
<1> QED
  BY <1>1, <1>2, <1>3, <1>4, StoringOn

\* Every step of the execution goes on in the run.
LEMMA ExecuteRuns ==
  ASSUME FrameInv, FrameInv', FramesFit, Made, RunInv, Execute
  PROVE  regs'[R10] = FP0 /\ Running(regs', mem', I', trace')
<1>1. stage = "run" /\ I <= Len(code) /\ regs[R10] = FP0 /\ Running(regs, mem, I, trace)
  BY Ran DEF RunInv
<1>2. regs'[R10] = FP0
  BY <1>1, FramePointerUnwritten
<1>3. ~AtExit(regs, mem, I, trace)
  <2>1. ASSUME AtExit(regs, mem, I, trace) PROVE FALSE
    <3>1. Allotment /\ code = FinalCode
      BY <1>1 DEF Made
    <3>2. At(Len(SelectedCode) + 1, 1) = Len(Allocated) + 1 /\ Line(Len(Allocated) + 1) = Len(FinalCode) + 1
      BY <3>1, AtUnit, Lines
    <3>3. I = Len(code) + 1
      BY <2>1, <3>1, <3>2 DEF AtExit
    <3>4. Len(code) \in Nat
      BY LenProperties DEF FrameInv
    <3> QED
      BY <1>1, <3>3, <3>4
  <2> QED
    BY <2>1
<1> QED
  BY <1>1, <1>2, <1>3, EntryGoesOn, LoadingGoesOn, AddingGoesOn, StoringGoesOn DEF Running

\* The function is called.
LEMMA CallRuns ==
  ASSUME FrameInv, FrameInv', FramesFit, Made, EliminationDone
  PROVE  regs'[R10] = FP0 /\ Running(regs', mem', I', trace')
<1>1. /\ stage = "eliminate" /\ I' = 1 /\ mem' = mem /\ trace' = trace
      /\ regs' = [regs EXCEPT ![R10] = FP0, ![assigned["ptr"]] = Ptr0]
  BY DEF EliminationDone
<1>2. Allotment /\ trace' = << >>
  BY <1>1 DEF Made
<1>3. "ptr" \in VRegs /\ assigned["ptr"] \in PhysRegs /\ assigned["ptr"] # R10 /\ R10 \in PhysRegs
  <2>1. "ptr" \in VRegs
    BY DEF VRegs
  <2> QED
    BY <1>2, <2>1, FrameAssumption DEF Allotment, Allocatable, getReservedRegs
<1>4. regs'[R10] = FP0 /\ regs'[assigned["ptr"]] = Ptr0
  <2>1. regs \in [PhysRegs -> Words]
    BY DEF FrameInv
  <2> QED
    BY <1>1, <1>3, <2>1
<1>5. CASE "ptr" \in spilled
  BY <1>1, <1>2, <1>4, <1>5 DEF Running, AtEntry
<1>6. CASE "ptr" \notin spilled
  <2> DEFINE e == [v \in VRegs |-> Kept(regs', mem', v)]
  <2>1. e \in [VRegs -> Words]
    <3>1. regs' \in [PhysRegs -> Words] /\ \A a \in DOMAIN mem' : mem'[a] \in Words
      BY DEF FrameInv
    <3> QED
      BY <1>2, <3>1, KeptTyped
  <2>2. e["ptr"] = Ptr0
    BY <1>3, <1>4, <1>6 DEF Kept
  <2>3. \A v \in VRegs : Kept(regs', mem', v) = e[v]
    OBVIOUS
  <2> HIDE DEF e
  <2>4. Reached(0, e, trace')
    BY <1>2, <2>1, <2>2, ReachedStart
  <2>5. Len(Arrival) = 0
    BY <1>6 DEF Arrival
  <2>6. At(0 + 1, 1) = 1 /\ Line(1) = 1 /\ 0 \in 0 .. Len(SelectedCode)
    BY <1>2, <2>5, AtUnit, Lines, SelectedTyped
  <2>7. I' = Line(At(0 + 1, 1))
    BY <1>1, <2>6
  <2> QED
    BY <1>2, <1>4, <2>1, <2>3, <2>4, <2>6, <2>7, NextUnit
<1> QED
  BY <1>4, <1>5, <1>6

\* Execution changes none of what the run is described with.
LEMMA SameRun ==
  ASSUME UNCHANGED <<source, assigned, spilled, objectOffset>>
  PROVE  /\ Running(regs, mem, I, trace)' <=> Running(regs', mem', I', trace')
         /\ AtExit(regs, mem, I, trace)' <=> AtExit(regs', mem', I', trace')
<1>1. SelectedParts' = SelectedParts /\ SelectedCode' = SelectedCode /\ Units' = Units /\ Arrival' = Arrival
      /\ SourceTrace' = SourceTrace
  BY SameCode
<1>2. SelEnd' = SelEnd /\ UnitEnd' = UnitEnd /\ FinalEnd' = FinalEnd
  BY SameEnds
<1>3. TraceParts' = TraceParts
  BY DEF TraceParts, Accessed, Base
<1>4. TraceEnd' = TraceEnd
  BY <1>1, <1>3 DEF TraceEnd
<1>5. ASSUME NEW k PROVE Turn(k)' = Turn(k)
  BY <1>1 DEF Turn, Around, InPlace
<1>6. ASSUME NEW k, NEW j PROVE At(k, j)' = At(k, j)
  BY <1>1, <1>2 DEF At
<1>7. ASSUME NEW n PROVE Line(n)' = Line(n)
  BY <1>2 DEF Line
<1>8. ASSUME NEW n, NEW e PROVE Known(n, e)' <=> Known(n, e)
  BY DEF Known, FrameAddr
<1>9. ASSUME NEW n, NEW q, NEW e PROVE Computed(n, q, e)' <=> Computed(n, q, e)
  BY DEF Computed, Base
<1>10. ASSUME NEW n PROVE Shown(n, trace)' <=> Shown(n, trace')
  BY <1>1, <1>4 DEF Shown
<1>11. ASSUME NEW k, NEW e PROVE Reached(k, e, trace)' <=> Reached(k, e, trace')
  BY <1>1, <1>2, <1>8, <1>9, <1>10 DEF Reached, ReachedAt
<1>12. ASSUME NEW v PROVE Kept(regs, mem, v)' = Kept(regs', mem', v)
  BY DEF Kept, Word, SlotAddr
<1>13. ASSUME NEW k, NEW j, NEW e PROVE Ahead(regs, mem, k, j, e)' <=> Ahead(regs', mem', k, j, e)
  BY <1>1, <1>5, <1>12 DEF Ahead
<1>14. ASSUME NEW k, NEW e PROVE Between(regs, mem, k, e)' <=> Between(regs', mem', k, e)
  BY <1>1, <1>12 DEF Between
<1>15. ASSUME NEW k, NEW j, NEW e PROVE Behind(regs, mem, k, j, e)' <=> Behind(regs', mem', k, j, e)
  BY <1>1, <1>5, <1>12 DEF Behind
<1>16. AtExit(regs, mem, I, trace)' <=> AtExit(regs', mem', I', trace')
  BY <1>1, <1>6, <1>7, <1>11 DEF AtExit
<1>17. AtEntry(regs, mem, I, trace)' <=> AtEntry(regs', mem', I', trace')
  BY DEF AtEntry
<1>18. Loading(regs, mem, I, trace)' <=> Loading(regs', mem', I', trace')
  BY <1>1, <1>6, <1>7, <1>11, <1>13 DEF Loading
<1>19. Adding(regs, mem, I, trace)' <=> Adding(regs', mem', I', trace')
  BY <1>1, <1>5, <1>6, <1>7, <1>11, <1>14 DEF Adding
<1>20. Storing(regs, mem, I, trace)' <=> Storing(regs', mem', I', trace')
  BY <1>1, <1>6, <1>7, <1>11, <1>15 DEF Storing
<1> QED
  BY <1>16, <1>17, <1>18, <1>19, <1>20 DEF Running

LEMMA RunStep == FrameInv /\ FrameInv' /\ FramesFit /\ Made /\ RunInv /\ [Next]_vars => RunInv'
<1> SUFFICES ASSUME FrameInv, FrameInv', FramesFit, Made, RunInv, [Next]_vars PROVE RunInv'
  OBVIOUS
<1>1. ASSUME UNCHANGED <<source, assigned, spilled, objectOffset>>, stage' = "run",
             regs'[R10] = FP0, Running(regs', mem', I', trace')
      PROVE  RunInv'
  BY <1>1, SameRun DEF RunInv
<1>2. CASE Execute
  BY <1>1, <1>2, ExecuteRuns, Ran DEF Execute, compiled
<1>3. CASE EliminationDone
  BY <1>1, <1>3, CallRuns DEF EliminationDone, compiled
<1>4. CASE Return
  <2>1. /\ stage = "run" /\ stage' = "halt" /\ I > Len(code)
        /\ UNCHANGED <<source, assigned, spilled, objectOffset, regs, mem, I, trace>>
    BY <1>4 DEF Return, compiled
  <2>2. Running(regs, mem, I, trace) /\ AtExit(regs, mem, I, trace) /\ regs[R10] = FP0
    BY <2>1, InsideCode DEF RunInv
  <2>3. Running(regs', mem', I', trace') /\ AtExit(regs', mem', I', trace')
    BY <2>1, <2>2
  <2> QED
    BY <2>1, <2>2, <2>3, SameRun DEF RunInv
<1>5. CASE UNCHANGED vars
  <2>1. UNCHANGED <<source, assigned, spilled, objectOffset, regs, mem, I, trace, stage>>
    BY <1>5 DEF vars
  <2>2. /\ Running(regs', mem', I', trace') <=> Running(regs, mem, I, trace)
        /\ AtExit(regs', mem', I', trace') <=> AtExit(regs, mem, I, trace)
    BY <2>1
  <2> QED
    BY <2>1, <2>2, SameRun DEF RunInv
<1>6. ASSUME stage' \notin {"run", "halt"} PROVE RunInv'
  BY <1>6 DEF RunInv
<1>7. CASE \/ SelectCode \/ eliminateFrameIndex \/ NextInstruction
           \/ \E a \in [VRegs -> PhysRegs \ getReservedRegs], s \in SUBSET VRegs : AllocateRegisters(a, s)
           \/ \E o \in SetToSeqs(UsedIndices \cap Objects), s \in SetToSeqs(UsedIndices \cap Slots) :
                LayOutFrame(o \o s)
  BY <1>6, <1>7 DEF SelectCode, eliminateFrameIndex, NextInstruction, AllocateRegisters, LayOutFrame
<1> QED
  BY <1>2, <1>3, <1>4, <1>5, <1>7 DEF Next

\* In the run the trace is a prefix of the source's, and at its end the whole.
LEMMA RunGives == FrameInv /\ FramesFit /\ Made /\ RunInv => AddressesKept
<1> SUFFICES ASSUME FrameInv, FramesFit, Made, RunInv, stage \in {"run", "halt"}
             PROVE  IsPrefix(trace, SourceTrace) /\ (stage = "halt" => trace = SourceTrace)
  BY DEF AddressesKept
<1>1. Running(regs, mem, I, trace)
  BY DEF RunInv
<1>2. (\E k, e : Reached(k, e, trace)) \/ trace = << >>
  BY <1>1 DEF Running, AtEntry, Loading, Adding, Storing, AtExit
<1>3. CASE \E k, e : Reached(k, e, trace)
  <2>1. IsPrefix(trace, SourceTrace)
    BY <1>3, ReachedPrefix
  <2>2. ASSUME stage = "halt" PROVE trace = SourceTrace
    <3>1. \E e : Reached(Len(SelectedCode), e, trace)
      BY <2>2 DEF RunInv, AtExit
    <3> QED
      BY <3>1, ReachedEnd
  <2> QED
    BY <2>1, <2>2
<1>4. CASE trace = << >>
  <2> DEFINE e == [v \in VRegs |-> Ptr0]
  <2>1. e \in [VRegs -> Words] /\ e["ptr"] = Ptr0
    BY FrameAssumption DEF VRegs, Words
  <2> HIDE DEF e
  <2>2. IsPrefix(trace, SourceTrace)
    BY <1>4, <2>1, ReachedStart, ReachedPrefix
  <2>3. ASSUME stage = "halt" PROVE trace = SourceTrace
    <3>1. \E x : Reached(Len(SelectedCode), x, trace)
      BY <2>3 DEF RunInv, AtExit
    <3> QED
      BY <3>1, ReachedEnd
  <2> QED
    BY <2>2, <2>3
<1> QED
  BY <1>2, <1>3, <1>4

\* Whatever is spilled, wherever the objects are and whichever registers are
\* shared, the code makes the accesses of the source, as long as the offsets of
\* the frame are ints.
THEOREM AddressesOfSource == ASSUME FramesFit PROVE Spec => []AddressesKept
<1>1. Init => Made /\ RunInv
  BY MadeInit DEF Init, RunInv
<1>2. FrameInv /\ FrameInv' /\ Made /\ RunInv /\ [Next]_vars => Made' /\ RunInv'
  BY MadeStep, RunStep
<1>3. FrameInv /\ Made /\ RunInv => AddressesKept
  BY RunGives
<1> QED
  BY <1>1, <1>2, <1>3, FrameInvariant, PTL DEF Spec
===============================================================================
