--------------------------- MODULE BPFBranchProofs ---------------------------
(***************************************************************************)
(* The branch hooks keep the control flow of a function, for any number of *)
(* blocks with any instructions, in any layout.                            *)
(***************************************************************************)
EXTENDS BPFBranch, SequenceTheorems, TLAPS

-----------------------------------------------------------------------------
(***************************************************************************)
(* Exits of an instruction sequence.                                       *)
(***************************************************************************)

\* What an instruction is.
LEMMA InstrShape ==
  ASSUME NEW i \in Instr
  PROVE  /\ i.k \in {"op", "dbg", "jcc", "jmp", "ret"}
         /\ i.t \in Blocks \cup {NoBlock}
         /\ i.t # NoBlock <=> i.k \in {"jcc", "jmp"}
BY DEF Instr

\* The elements of a sequence of instructions.
LEMMA SeqShape ==
  ASSUME NEW s \in Seq(Instr)
  PROVE  /\ Len(s) \in Nat /\ DOMAIN s = 1 .. Len(s)
         /\ \A n \in 1 .. Len(s) : s[n] \in Instr
BY LenProperties, ElementOfSeq

\* Behind a barrier the next block does not matter.
LEMMA BarrierExits ==
  ASSUME NEW s \in Seq(Instr), Barriers(s) # {}, NEW x, NEW y
  PROVE  Exits(s, x) = Exits(s, y)
BY DEF Exits

\* Without a jump or a return control goes on to the next block.
LEMMA FallThroughExits ==
  ASSUME NEW s \in Seq(Instr), NEW next, \A n \in 1 .. Len(s) : s[n].k \in {"op", "dbg"}
  PROVE  Exits(s, next) = {next}
<1>1. DOMAIN s = 1 .. Len(s)
  BY SeqShape
<1>2. Barriers(s) = {}
  BY <1>1 DEF Barriers
<1>3. {m \in DOMAIN s : s[m].k \in Jumps /\ \A b \in Barriers(s) : m <= b} = {}
  BY <1>1 DEF Jumps
<1> QED
  BY <1>2, <1>3 DEF Exits

\* The first JMP is the only exit if no branch or return comes before it.
LEMMA FirstJumpExits ==
  ASSUME NEW s \in Seq(Instr), NEW next, NEW n \in 1 .. Len(s), s[n].k = "jmp",
         \A m \in 1 .. n - 1 : s[m].k \in {"op", "dbg"}
  PROVE  Exits(s, next) = {s[n].t}
<1>1. DOMAIN s = 1 .. Len(s) /\ Len(s) \in Nat
  BY SeqShape
<1>2. n \in Barriers(s) /\ \A b \in Barriers(s) : n <= b
  BY <1>1 DEF Barriers
<1>3. {m \in DOMAIN s : s[m].k \in Jumps /\ \A b \in Barriers(s) : m <= b} = {n}
  BY <1>1, <1>2 DEF Jumps
<1> QED
  BY <1>2, <1>3 DEF Exits

\* A prefix that ends with a barrier has the exits of the whole.
LEMMA PrefixExits ==
  ASSUME NEW s \in Seq(Instr), NEW n \in 1 .. Len(s), s[n].k = "jmp", NEW next
  PROVE  /\ Exits(SubSeq(s, 1, n), next) = Exits(s, next)
         /\ s[n].t = next => Exits(SubSeq(s, 1, n - 1), next) = Exits(s, next)
<1> DEFINE p == SubSeq(s, 1, n)
           q == SubSeq(s, 1, n - 1)
           JumpsOf(r) == {m \in DOMAIN r : r[m].k \in Jumps /\ \A b \in Barriers(r) : m <= b}
<1>1. /\ DOMAIN s = 1 .. Len(s) /\ Len(s) \in Nat
      /\ \A m \in 1 .. Len(s) : s[m] \in Instr
  BY SeqShape
<1>2. /\ DOMAIN p = 1 .. n /\ \A m \in 1 .. n : p[m] = s[m]
      /\ DOMAIN q = 1 .. n - 1 /\ \A m \in 1 .. n - 1 : q[m] = s[m]
  BY <1>1
<1>3. n \in Barriers(s) /\ n \in Barriers(p)
  BY <1>1, <1>2 DEF Barriers
<1>4. JumpsOf(p) = JumpsOf(s)
  BY <1>1, <1>2, <1>3, SMTT(30) DEF Barriers
<1>5. Exits(p, next) = Exits(s, next)
  <2>1. \A m \in JumpsOf(s) : p[m] = s[m]
    BY <1>1, <1>2, <1>3
  <2> QED
    BY <1>3, <1>4, <2>1 DEF Exits
<1>6. ASSUME s[n].t = next
      PROVE  Exits(q, next) = Exits(s, next)
  <2>1. CASE Barriers(q) # {}
    <3>1. PICK b \in 1 .. n - 1 : b \in Barriers(q)
      BY <1>2, <2>1 DEF Barriers
    <3>2. JumpsOf(q) = JumpsOf(s)
      BY <1>1, <1>2, <3>1 DEF Barriers
    <3>3. \A m \in JumpsOf(s) : q[m] = s[m]
      BY <1>2, <3>2
    <3> QED
      BY <1>3, <2>1, <3>2, <3>3 DEF Exits
  <2>2. CASE Barriers(q) = {}
    <3>0. \A b \in Barriers(s) : b \in Int /\ n <= b
      <4> SUFFICES ASSUME NEW b \in Barriers(s), b < n PROVE FALSE
        BY <1>1 DEF Barriers
      <4>1. b \in 1 .. n - 1 /\ s[b].k \in {"jmp", "ret"}
        BY <1>1 DEF Barriers
      <4>2. b \in Barriers(q)
        BY <1>2, <4>1 DEF Barriers
      <4> QED
        BY <2>2, <4>2
    <3>1. JumpsOf(s) = JumpsOf(q) \cup {n}
      <4>1. ASSUME NEW m PROVE m \in JumpsOf(s) <=> m \in 1 .. n /\ s[m].k \in Jumps
        BY <1>1, <1>3, <3>0
      <4>2. ASSUME NEW m PROVE m \in JumpsOf(q) <=> m \in 1 .. n - 1 /\ s[m].k \in Jumps
        BY <1>2, <2>2
      <4>3. \A m : m \in 1 .. n <=> m \in 1 .. n - 1 \/ m = n
        OBVIOUS
      <4>4. s[n].k \in Jumps
        BY DEF Jumps
      <4> HIDE DEF JumpsOf
      <4> QED
        BY <4>1, <4>2, <4>3, <4>4
    <3>2. \A m \in JumpsOf(q) : q[m] = s[m]
      BY <1>2
    <3>3. {s[m].t : m \in JumpsOf(s)} = {q[m].t : m \in JumpsOf(q)} \cup {next}
      <4>1. PICK A, B : A = JumpsOf(s) /\ B = JumpsOf(q) /\ A = B \cup {n} /\ \A m \in B : q[m] = s[m]
        BY <3>1, <3>2
      <4> HIDE DEF q, JumpsOf
      <4>2. {s[m].t : m \in B} = {q[m].t : m \in B}
        BY <4>1
      <4>3. {s[m].t : m \in A} = {s[m].t : m \in B} \cup {s[n].t}
        BY <4>1
      <4> QED
        BY <1>6, <4>1, <4>2, <4>3, Zenon
    <3> QED
      BY <1>3, <2>2, <3>3 DEF Exits
  <2> QED
    BY <2>1, <2>2
<1> QED
  BY <1>5, <1>6

-----------------------------------------------------------------------------
(***************************************************************************)
(* The inductive invariant.                                                *)
(***************************************************************************)
CodeOK == \A b \in Blocks : code[b] \in WellFormed

\* A block that AnalyzeBranch can analyze has no branch but JMP.
Plain(s) == \A n \in 1 .. Len(s) : s[n].k \in {"op", "dbg", "jmp"}

\* From I on the analysis has seen debug values and JMPs, and TBB is the
\* target of the first of these; what a modifying one has left is tidy.
ScanOK ==
  call.op \in {"analyze", "analyzed"} =>
    LET seen == call.I .. Len(MBB)
    IN  /\ \A n \in seen : MBB[n].k \in {"dbg", "jmp"}
        /\ call.TBB = NoBlock => \A n \in seen : MBB[n].k = "dbg"
        /\ call.TBB # NoBlock => \E n \in seen : /\ MBB[n].k = "jmp" /\ MBB[n].t = call.TBB
                                                 /\ \A m \in call.I .. n - 1 : MBB[m].k = "dbg"
        /\ call.modify => \A n \in seen : MBB[n].k = "jmp" =>
                             n = Len(MBB) /\ MBB[n].t # layout[call.blk]

\* Where the analysis has stopped, and what it has returned.
StoppedOK ==
  call.op = "analyzed" =>
    /\ call.I > 1 => Prev.k \notin {"dbg", "jmp"}
    /\ call.failed <=> (call.I > 1 /\ Prev.k # "op")

\* The branch folder works when no block waits for placement's update.
CallerOK ==
  call.op # "idle" => IF call.modify THEN stale = {} ELSE call.blk \in stale

\* A block that waits can be analyzed, and has the exits it would have in front
\* of some block.
StaleOK ==
  \A b \in stale :
    /\ ~Unanalyzable(code[b])
    /\ ~UnderRepair(b) => \E old \in Blocks \cup {NoBlock} : Exits(code[b], old) = edges[b]

\* A block whose branch is removed has one successor, the removed target.
RepairOK ==
  call.op \in {"remove", "removed"} =>
    /\ Plain(MBB) /\ call.TBB # NoBlock /\ edges[call.blk] = {call.TBB}
    /\ ~call.modify => call.TBB = layout[call.blk]
    /\ call.op = "remove" => \A n \in call.I .. Len(MBB) : MBB[n].k = "dbg"
    /\ call.op = "removed" => \A n \in 1 .. Len(MBB) : MBB[n].k \in {"op", "dbg"}

IInv ==
  /\ TypeOK /\ CodeOK /\ ScanOK /\ StoppedOK /\ CallerOK
  /\ StaleOK /\ RepairOK /\ EdgesPreserved

-----------------------------------------------------------------------------
(***************************************************************************)
(* What the analysis knows when it has stopped.                            *)
(***************************************************************************)
LEMMA WellFormedShape ==
  ASSUME NEW s \in WellFormed
  PROVE  /\ s \in Seq(Instr) /\ Len(s) \in Nat /\ DOMAIN s = 1 .. Len(s)
         /\ \A n \in 1 .. Len(s) : /\ s[n] \in Instr
                                   /\ s[n].k \in {"op", "dbg", "jcc", "jmp", "ret"}
                                   /\ s[n].t \in Blocks \cup {NoBlock}
                                   /\ s[n].k = "jmp" => s[n].t # NoBlock
         /\ \A m, n \in 1 .. Len(s) : m < n /\ s[n].k = "op" => s[m].k \in {"op", "dbg"}
<1>1. s \in Seq(Instr) /\ Len(s) \in Nat /\ DOMAIN s = 1 .. Len(s)
      /\ \A n \in 1 .. Len(s) : s[n] \in Instr
  BY SeqShape DEF WellFormed
<1>2. \A n \in 1 .. Len(s) : /\ s[n].k \in {"op", "dbg", "jcc", "jmp", "ret"}
                             /\ s[n].t \in Blocks \cup {NoBlock}
                             /\ s[n].k = "jmp" => s[n].t # NoBlock
  BY <1>1, InstrShape
<1>3. \A m, n \in 1 .. Len(s) : m < n /\ s[n].k = "op" => s[m].k \in {"op", "dbg"}
  BY <1>1, <1>2 DEF WellFormed, Terminators
<1> QED
  BY <1>1, <1>2, <1>3

\* Prefixes, removals and appended JMPs leave a block well formed.
LEMMA WellFormedChanges ==
  ASSUME NEW s \in WellFormed
  PROVE  /\ \A n \in 0 .. Len(s) : /\ SubSeq(s, 1, n) \in WellFormed
                                   /\ Len(SubSeq(s, 1, n)) = n
                                   /\ \A m \in 1 .. n : SubSeq(s, 1, n)[m] = s[m]
         /\ \A n \in 1 .. Len(s) :
              LET r == SubSeq(s, 1, n - 1) \o SubSeq(s, n + 1, Len(s))
              IN  /\ r \in WellFormed /\ Len(r) = Len(s) - 1
                  /\ \A m \in 1 .. Len(r) : r[m] = s[IF m < n THEN m ELSE m + 1]
<1>1. /\ s \in Seq(Instr) /\ Len(s) \in Nat /\ DOMAIN s = 1 .. Len(s)
      /\ \A n \in 1 .. Len(s) : s[n] \in Instr
      /\ \A m, n \in 1 .. Len(s) : m < n /\ s[m].k \in Terminators => s[n].k # "op"
  BY WellFormedShape DEF WellFormed
<1>2. ASSUME NEW n \in 0 .. Len(s)
      PROVE  /\ SubSeq(s, 1, n) \in WellFormed
             /\ Len(SubSeq(s, 1, n)) = n
             /\ \A m \in 1 .. n : SubSeq(s, 1, n)[m] = s[m]
  <2> DEFINE r == SubSeq(s, 1, n)
  <2>1. r \in Seq(Instr) /\ Len(r) = n /\ \A m \in 1 .. n : r[m] = s[m]
    BY <1>1
  <2> HIDE DEF r
  <2>2. DOMAIN r = 1 .. n
    BY <2>1, SeqShape
  <2>3. r \in WellFormed
    BY <1>1, <2>1, <2>2 DEF WellFormed
  <2> QED
    BY <2>1, <2>3 DEF r
<1>3. ASSUME NEW n \in 1 .. Len(s)
      PROVE  LET r == SubSeq(s, 1, n - 1) \o SubSeq(s, n + 1, Len(s))
             IN  /\ r \in WellFormed /\ Len(r) = Len(s) - 1
                 /\ \A m \in 1 .. Len(r) : r[m] = s[IF m < n THEN m ELSE m + 1]
  <2> DEFINE a == SubSeq(s, 1, n - 1)
             b == SubSeq(s, n + 1, Len(s))
             r == a \o b
  <2>1. /\ a \in Seq(Instr) /\ Len(a) = n - 1 /\ \A m \in 1 .. n - 1 : a[m] = s[m]
        /\ b \in Seq(Instr) /\ Len(b) = Len(s) - n
        /\ \A m \in 1 .. Len(s) - n : b[m] = s[n + m]
    <3>1. PICK L \in Nat : L = Len(s)
      BY <1>1
    <3>2. /\ SubSeq(s, 1, n - 1) \in Seq(Instr) /\ Len(SubSeq(s, 1, n - 1)) = n - 1
          /\ \A m \in 1 .. n - 1 : SubSeq(s, 1, n - 1)[m] = s[m]
      BY <1>1, <3>1
    <3>3. /\ SubSeq(s, n + 1, L) \in Seq(Instr) /\ Len(SubSeq(s, n + 1, L)) = L - n
          /\ \A m \in 1 .. L - n : SubSeq(s, n + 1, L)[m] = s[n + m]
      <4>1. s \in Seq(Instr) /\ n + 1 \in 1 .. Len(s) + 1 /\ L \in (n + 1) - 1 .. Len(s)
        BY <1>1, <3>1
      <4>2. /\ SubSeq(s, n + 1, L) \in Seq(Instr)
            /\ Len(SubSeq(s, n + 1, L)) = IF n + 1 <= L THEN L - (n + 1) + 1 ELSE 0
            /\ \A i \in 1 .. L - (n + 1) + 1 : SubSeq(s, n + 1, L)[i] = s[(n + 1) + i - 1]
        BY <4>1, SubSeqProperties
      <4> HIDE <1>1, <3>1
      <4>3. /\ L - (n + 1) + 1 = L - n /\ n <= L /\ (~(n + 1 <= L) => L - n = 0)
            /\ \A i \in 1 .. L - n : (n + 1) + i - 1 = n + i
        BY <3>1, <4>1
      <4> QED
        BY <4>2, <4>3
    <3> QED
      BY <3>1, <3>2, <3>3, Zenon
  <2> HIDE DEF a, b
  <2>2. /\ r \in Seq(Instr) /\ Len(r) = Len(s) - 1
        /\ \A m \in 1 .. Len(r) : r[m] = IF m <= n - 1 THEN a[m] ELSE b[m - (n - 1)]
    <3>1. /\ r \in Seq(Instr) /\ Len(r) = Len(a) + Len(b)
          /\ \A m \in 1 .. Len(a) + Len(b) : r[m] = IF m <= Len(a) THEN a[m] ELSE b[m - Len(a)]
      BY <2>1, ConcatProperties
    <3> QED
      BY <1>1, <2>1, <3>1
  <2>3. \A m \in 1 .. Len(r) : r[m] = s[IF m < n THEN m ELSE m + 1]
    BY <1>1, <2>1, <2>2
  <2> HIDE DEF r
  <2>4. r \in WellFormed
    BY <1>1, <2>2, <2>3, SeqShape DEF WellFormed
  <2> QED
    BY <2>2, <2>3, <2>4 DEF r, a, b
<1> QED
  BY <1>2, <1>3

\* The second of these, of one instruction that is erased.
LEMMA WithoutOne ==
  ASSUME NEW s \in WellFormed, NEW n \in 1 .. Len(s), NEW r,
         r = SubSeq(s, 1, n - 1) \o SubSeq(s, n + 1, Len(s))
  PROVE  /\ r \in WellFormed /\ Len(r) = Len(s) - 1
         /\ \A m \in 1 .. Len(r) : r[m] = s[IF m < n THEN m ELSE m + 1]
BY WellFormedChanges, Zenon

\* What InsertBranch makes of a block: a jump at its end.
Jumping(s, t) == Append(s, [k |-> "jmp", t |-> t])

LEMMA WellFormedAppend ==
  ASSUME NEW s \in WellFormed, NEW t \in Blocks
  PROVE  /\ Jumping(s, t) \in WellFormed /\ Len(Jumping(s, t)) = Len(s) + 1 /\ Len(s) \in Nat
         /\ Jumping(s, t)[Len(s) + 1].k = "jmp" /\ Jumping(s, t)[Len(s) + 1].t = t
         /\ \A m \in 1 .. Len(s) : Jumping(s, t)[m] = s[m]
<1> DEFINE j == [k |-> "jmp", t |-> t]
           r == Append(s, j)
<1>1. /\ s \in Seq(Instr) /\ Len(s) \in Nat /\ DOMAIN s = 1 .. Len(s)
      /\ \A m, n \in 1 .. Len(s) : m < n /\ s[m].k \in Terminators => s[n].k # "op"
  BY WellFormedShape DEF WellFormed
<1>2. j \in Instr /\ j.k = "jmp" /\ j.t = t
  BY BlocksAssumption DEF Instr
<1> HIDE DEF j
<1>3. /\ r \in Seq(Instr) /\ Len(r) = Len(s) + 1 /\ r[Len(s) + 1] = j
      /\ \A m \in 1 .. Len(s) : r[m] = s[m]
  BY <1>1, <1>2, AppendProperties
<1> HIDE DEF r
<1>4. \A m, n \in 1 .. Len(r) : m < n /\ r[m].k \in Terminators => r[n].k # "op"
  <2> SUFFICES ASSUME NEW m \in 1 .. Len(s) + 1, NEW n \in 1 .. Len(s) + 1,
                      m < n, r[m].k \in Terminators
               PROVE  r[n].k # "op"
    BY <1>1, <1>3
  <2>1. m \in 1 .. Len(s) /\ r[m] = s[m]
    BY <1>1, <1>3
  <2>2. CASE n = Len(s) + 1
    <3>1. r[n].k = "jmp"
      BY <1>2, <1>3, <2>2
    <3> QED
      BY <3>1
  <2>3. CASE n \in 1 .. Len(s)
    <3>1. r[n] = s[n]
      BY <1>3, <2>3
    <3> QED
      BY <1>1, <2>1, <2>3, <3>1
  <2> QED
    BY <1>1, <2>2, <2>3
<1>5. r \in WellFormed
  <2>1. DOMAIN r = 1 .. Len(r)
    BY <1>3, SeqShape
  <2> QED
    BY <1>3, <1>4, <2>1 DEF WellFormed
<1>6. Jumping(s, t) = r
  BY DEF Jumping, r, j
<1> QED
  BY <1>1, <1>2, <1>3, <1>5, <1>6

\* TBB is the only exit of a block that was analyzed, or there is no branch.
LEMMA AnalyzedExits ==
  ASSUME IInv, call.op = "analyzed", ~call.failed
  PROVE  /\ Plain(MBB)
         /\ \A next : Exits(MBB, next) = {IF call.TBB = NoBlock THEN next ELSE call.TBB}
<1>1. MBB \in WellFormed /\ call.I \in 1 .. Len(MBB) + 1
  BY DEF IInv, TypeOK, CodeOK, MBB
<1>2. \A n \in 1 .. call.I - 1 : MBB[n].k \in {"op", "dbg"}
  <2>1. call.I > 1 => MBB[call.I - 1].k = "op"
    BY DEF IInv, StoppedOK, Prev
  <2> QED
    BY <1>1, <2>1, WellFormedShape
<1>3. Plain(MBB)
  BY <1>1, <1>2, WellFormedShape DEF IInv, ScanOK, Plain
<1>4. ASSUME NEW next, call.TBB = NoBlock
      PROVE  Exits(MBB, next) = {next}
  <2>1. \A n \in 1 .. Len(MBB) : MBB[n].k \in {"op", "dbg"}
    BY <1>1, <1>2, <1>4, WellFormedShape DEF IInv, ScanOK
  <2> QED
    BY <1>1, <2>1, FallThroughExits, WellFormedShape
<1>5. ASSUME NEW next, call.TBB # NoBlock
      PROVE  Exits(MBB, next) = {call.TBB}
  <2>1. PICK n \in call.I .. Len(MBB) :
          /\ MBB[n].k = "jmp" /\ MBB[n].t = call.TBB
          /\ \A m \in call.I .. n - 1 : MBB[m].k = "dbg"
    BY <1>5 DEF IInv, ScanOK
  <2>2. n \in 1 .. Len(MBB) /\ \A m \in 1 .. n - 1 : MBB[m].k \in {"op", "dbg"}
    BY <1>1, <1>2, <2>1, WellFormedShape
  <2> QED
    BY <1>1, <2>1, <2>2, FirstJumpExits, WellFormedShape
<1> QED
  BY <1>3, <1>4, <1>5

\* updateTerminator's analysis does not fail: placement has kept the blocks for
\* which it would.
LEMMA UpdateAnalyzes ==
  ASSUME IInv, Updating
  PROVE  ~call.failed /\ call.blk \in stale /\ call.blk \in Blocks
<1>1. /\ call.blk \in stale /\ call.blk \in Blocks /\ ~Unanalyzable(MBB)
      /\ MBB \in WellFormed /\ call.I \in 1 .. Len(MBB) + 1 /\ call.op = "analyzed"
  BY DEF IInv, Updating, CallerOK, StaleOK, TypeOK, CodeOK, MBB
<1>2. ASSUME call.failed PROVE FALSE
  <2>1. /\ call.I > 1 /\ MBB[call.I - 1].k \in {"jcc", "ret"}
    BY <1>1, <1>2, WellFormedShape DEF IInv, StoppedOK, Prev
  <2>2. \A m \in DOMAIN MBB : m > call.I - 1 => MBB[m].k \in {"dbg", "jmp"}
    BY <1>1, WellFormedShape DEF IInv, ScanOK
  <2>3. call.I - 1 \in DOMAIN MBB
    BY <1>1, <2>1, WellFormedShape
  <2> QED
    BY <1>1, <2>1, <2>2, <2>3 DEF Unanalyzable
<1> QED
  BY <1>1, <1>2

-----------------------------------------------------------------------------
(***************************************************************************)
(* The initial states, and the steps that only change the call.            *)
(***************************************************************************)
LEMMA InitInv == Init => IInv
<1> SUFFICES ASSUME Init PROVE IInv
  OBVIOUS
<1>1. /\ code \in [Blocks -> Bodies] /\ layout \in Layouts /\ stale = {} /\ call = Idle
      /\ edges = [b \in Blocks |-> Exits(code[b], layout[b])]
      /\ \A b \in Blocks : edges[b] \subseteq Blocks
  BY DEF Init
<1>2. CodeOK
  BY <1>1, BodiesAssumption DEF CodeOK
<1>3. TypeOK
  <2>1. code \in [Blocks -> Seq(Instr)]
    BY <1>1, BodiesAssumption DEF WellFormed
  <2>2. edges \in [Blocks -> SUBSET Blocks]
    BY <1>1
  <2> QED
    BY <1>1, <2>1, <2>2 DEF TypeOK, Layouts, Idle
<1> QED
  BY <1>1, <1>2, <1>3
     DEF IInv, ScanOK, StoppedOK, CallerOK, StaleOK, RepairOK, EdgesPreserved, Idle

\* The states of a call.
Call == [op : {"idle", "analyze", "analyzed", "remove", "removed"},
         blk : Blocks \cup {NoBlock}, I : Nat, TBB : Blocks \cup {NoBlock},
         modify : BOOLEAN, failed : BOOLEAN]

\* The parts of the invariant that a call alone cannot disturb.
LEMMA CallOnly ==
  ASSUME IInv, UNCHANGED <<code, layout, edges, stale>>,
         \A b \in Blocks : UnderRepair(b) => UnderRepair(b)'
  PROVE  /\ CodeOK' /\ StaleOK' /\ EdgesPreserved'
         /\ code' \in [Blocks -> Seq(Instr)] /\ layout' \in [Blocks -> Blocks \cup {NoBlock}]
         /\ edges' \in [Blocks -> SUBSET Blocks] /\ stale' \subseteq Blocks
<1>1. CodeOK'
  BY DEF IInv, CodeOK
<1>2. StaleOK'
  BY DEF IInv, StaleOK, TypeOK
<1>3. EdgesPreserved'
  BY DEF IInv, EdgesPreserved
<1> QED
  BY <1>1, <1>2, <1>3 DEF IInv, TypeOK

\* What is known of the block of a call.
LEMMA CallFacts ==
  ASSUME IInv, call.op # "idle"
  PROVE  /\ call.blk \in Blocks /\ MBB \in WellFormed /\ MBB = code[call.blk]
         /\ Len(MBB) \in Nat /\ call.I \in Int /\ call.I \in 1 .. Len(MBB) + 1 /\ call \in Call
         /\ call.I > 1 => /\ call.I - 1 \in 1 .. Len(MBB)
                          /\ Prev = MBB[call.I - 1]
                          /\ Prev.k \in {"op", "dbg", "jcc", "jmp", "ret"}
                          /\ Prev.t \in Blocks \cup {NoBlock}
                          /\ Prev.k = "jmp" => Prev.t # NoBlock
<1>1. /\ call.blk \in Blocks /\ MBB \in WellFormed /\ MBB = code[call.blk]
      /\ call.I \in Int /\ call.I \in 1 .. Len(MBB) + 1 /\ call \in Call
  BY DEF IInv, TypeOK, CodeOK, MBB, Call
<1>2. Len(MBB) \in Nat
  BY <1>1, WellFormedShape
<1>3. call.I > 1 => call.I - 1 \in 1 .. Len(MBB)
  BY <1>1, <1>2
<1> QED
  BY <1>1, <1>2, <1>3, WellFormedShape DEF Prev

\* AnalyzeBranch begins at the end of a block, for the folder or for placement.
LEMMA BeginStep ==
  ASSUME IInv, NEW b \in Blocks, FoldBlock(b) \/ UpdateTerminator(b)
  PROVE  IInv'
<1>1. PICK m \in BOOLEAN : AnalyzeBranch(b, m) /\ IF m THEN stale = {} ELSE b \in stale
  BY DEF FoldBlock, UpdateTerminator
<1>2. /\ call' = [op |-> "analyze", blk |-> b, I |-> Len(code[b]) + 1, TBB |-> NoBlock,
                  modify |-> m, failed |-> FALSE]
      /\ UNCHANGED <<code, layout, edges, stale>>
      /\ call.op = "idle"
  BY <1>1 DEF AnalyzeBranch, FoldBlock, UpdateTerminator
<1>3. /\ call'.op = "analyze" /\ call'.blk = b /\ call'.I = Len(code[b]) + 1
      /\ call'.TBB = NoBlock /\ call'.modify = m
  BY <1>2
<1>4. code[b] \in WellFormed /\ Len(code[b]) \in Nat /\ MBB' = code[b]
  BY <1>2, <1>3, WellFormedShape DEF IInv, CodeOK, MBB
<1>5. /\ CodeOK' /\ StaleOK' /\ EdgesPreserved'
      /\ code' \in [Blocks -> Seq(Instr)] /\ layout' \in [Blocks -> Blocks \cup {NoBlock}]
      /\ edges' \in [Blocks -> SUBSET Blocks] /\ stale' \subseteq Blocks
  BY <1>2, CallOnly DEF UnderRepair
<1>6. TypeOK'
  BY <1>2, <1>3, <1>4, <1>5 DEF TypeOK, Call
<1>7. ScanOK' /\ StoppedOK' /\ RepairOK' /\ CallerOK'
  BY <1>1, <1>2, <1>3, <1>4 DEF ScanOK, StoppedOK, RepairOK, CallerOK
<1> QED
  BY <1>5, <1>6, <1>7 DEF IInv

\* A debug value is skipped, or a JMP read: one more instruction is seen.
LEMMA ScanStep ==
  ASSUME IInv, SkipDebugValue \/ ReadJump
  PROVE  IInv'
<1>1. /\ call.op = "analyze" /\ call.I > 1 /\ Prev.k \in {"dbg", "jmp"}
      /\ Prev.k = "jmp" => ~call.modify
      /\ call' = [call EXCEPT !.TBB = IF Prev.k = "jmp" THEN Prev.t ELSE @, !.I = @ - 1]
      /\ UNCHANGED <<code, layout, edges, stale>>
  <2>1. CASE SkipDebugValue
    <3>1. [call EXCEPT !.I = @ - 1] = [call EXCEPT !.TBB = @, !.I = @ - 1]
      BY DEF IInv, TypeOK
    <3> QED
      BY <2>1, <3>1 DEF SkipDebugValue, Analyzing
  <2>2. CASE ReadJump
    BY <2>2 DEF ReadJump, Analyzing
  <2> QED
    BY <2>1, <2>2
<1>2. /\ call'.op = "analyze" /\ call'.blk = call.blk /\ call'.I = call.I - 1
      /\ call'.TBB = (IF Prev.k = "jmp" THEN Prev.t ELSE call.TBB) /\ call'.modify = call.modify
      /\ call' \in Call
  <2>1. /\ call \in Call /\ call.I - 1 \in Nat
        /\ (IF Prev.k = "jmp" THEN Prev.t ELSE call.TBB) \in Blocks \cup {NoBlock}
    BY <1>1, CallFacts DEF Call
  <2>2. call' = [op |-> call.op, blk |-> call.blk, I |-> call.I - 1,
                 TBB |-> IF Prev.k = "jmp" THEN Prev.t ELSE call.TBB,
                 modify |-> call.modify, failed |-> call.failed]
    BY <1>1, <2>1 DEF Call
  <2> QED
    BY <1>1, <2>1, <2>2 DEF Call
<1>3. MBB' = MBB
  BY <1>1, <1>2 DEF MBB
<1>4. /\ CodeOK' /\ StaleOK' /\ EdgesPreserved'
      /\ code' \in [Blocks -> Seq(Instr)] /\ layout' \in [Blocks -> Blocks \cup {NoBlock}]
      /\ edges' \in [Blocks -> SUBSET Blocks] /\ stale' \subseteq Blocks
  BY <1>1, <1>2, CallOnly DEF UnderRepair
<1>5. TypeOK'
  BY <1>1, <1>2, <1>3, <1>4, CallFacts DEF TypeOK, Call
<1>6. ScanOK'
  <2> DEFINE n == call.I - 1
  <2>1. /\ n \in 1 .. Len(MBB) /\ MBB[n] = Prev /\ Len(MBB) \in Nat /\ call.I \in Int
        /\ Prev.k = "jmp" => Prev.t # NoBlock
    BY <1>1, CallFacts
  <2>2. \A m : m \in n .. Len(MBB) <=> m = n \/ m \in call.I .. Len(MBB)
    BY <2>1
  <2>3. \A m \in n .. Len(MBB) : MBB[m].k \in {"dbg", "jmp"}
    BY <1>1, <2>1, <2>2 DEF IInv, ScanOK
  <2>4. call'.TBB = NoBlock => \A m \in n .. Len(MBB) : MBB[m].k = "dbg"
    BY <1>1, <1>2, <2>1, <2>2 DEF IInv, ScanOK
  <2>5. ASSUME call'.TBB # NoBlock
        PROVE  \E m \in n .. Len(MBB) : /\ MBB[m].k = "jmp" /\ MBB[m].t = call'.TBB
                                         /\ \A l \in n .. m - 1 : MBB[l].k = "dbg"
    <3>1. CASE Prev.k = "jmp"
      BY <1>2, <2>1, <3>1
    <3>2. CASE Prev.k = "dbg"
      <4>1. PICK m \in call.I .. Len(MBB) :
              /\ MBB[m].k = "jmp" /\ MBB[m].t = call'.TBB
              /\ \A l \in call.I .. m - 1 : MBB[l].k = "dbg"
        BY <1>1, <1>2, <2>5, <3>2 DEF IInv, ScanOK
      <4>2. \A l \in n .. m - 1 : l = n \/ l \in call.I .. m - 1
        BY <2>1, <4>1
      <4> QED
        BY <2>1, <2>2, <3>2, <4>1, <4>2
    <3> QED
      BY <1>1, <3>1, <3>2
  <2>6. call'.modify => \A m \in n .. Len(MBB) : MBB[m].k = "jmp" =>
                          m = Len(MBB) /\ MBB[m].t # layout[call.blk]
    BY <1>1, <1>2, <2>1, <2>2 DEF IInv, ScanOK
  <2> QED
    BY <1>1, <1>2, <1>3, <2>3, <2>4, <2>5, <2>6 DEF ScanOK
<1>7. StoppedOK' /\ RepairOK' /\ CallerOK'
  BY <1>1, <1>2 DEF StoppedOK, RepairOK, CallerOK, IInv
<1> QED
  BY <1>4, <1>5, <1>6, <1>7 DEF IInv

\* The analysis stops, with or without a result.
LEMMA StopStep ==
  ASSUME IInv, ReachBegin \/ StopAtBody \/ GiveUp
  PROVE  IInv'
<1>1. PICK failed \in BOOLEAN :
        /\ call.op = "analyze" /\ (call.I > 1 => Prev.k \notin {"dbg", "jmp"})
        /\ failed <=> (call.I > 1 /\ Prev.k # "op")
        /\ Return(failed)
  <2>1. CASE ReachBegin
    <3>1. call.op = "analyze" /\ ~(call.I > 1)
      BY <2>1 DEF ReachBegin, Analyzing
    <3> QED
      BY <2>1, <3>1 DEF ReachBegin
  <2>2. CASE StopAtBody
    BY <2>2 DEF StopAtBody, Analyzing
  <2>3. CASE GiveUp
    BY <2>3 DEF GiveUp, Analyzing
  <2> QED
    BY <2>1, <2>2, <2>3
<1> USE DEF Return
<1>2. /\ call'.op = "analyzed" /\ call'.blk = call.blk /\ call'.I = call.I
      /\ call'.TBB = call.TBB /\ call'.modify = call.modify /\ call'.failed = failed
      /\ call' \in Call
  BY <1>1, CallFacts DEF Call
<1>3. MBB' = MBB /\ Prev' = Prev
  BY <1>1, <1>2 DEF MBB, Prev
<1>4. /\ CodeOK' /\ StaleOK' /\ EdgesPreserved'
      /\ code' \in [Blocks -> Seq(Instr)] /\ layout' \in [Blocks -> Blocks \cup {NoBlock}]
      /\ edges' \in [Blocks -> SUBSET Blocks] /\ stale' \subseteq Blocks
  BY <1>1, <1>2, CallOnly DEF UnderRepair
<1>5. TypeOK'
  BY <1>1, <1>2, <1>3, <1>4, CallFacts DEF TypeOK, Call
<1>6. ScanOK'
  BY <1>1, <1>2, <1>3 DEF ScanOK, IInv
<1>7. StoppedOK' /\ RepairOK' /\ CallerOK'
  BY <1>1, <1>2, <1>3 DEF StoppedOK, RepairOK, CallerOK, IInv
<1> QED
  BY <1>4, <1>5, <1>6, <1>7 DEF IInv

\* The branch folder leaves the block as it is.
LEMMA FoldingDoneStep ==
  ASSUME IInv, FoldingDone
  PROVE  IInv'
<1>1. call.op = "analyzed" /\ call' = Idle /\ UNCHANGED <<code, layout, edges, stale>>
  BY DEF FoldingDone
<1>2. call'.op = "idle" /\ call' \in Call
  BY <1>1 DEF Idle, Call
<1>3. /\ CodeOK' /\ StaleOK' /\ EdgesPreserved'
      /\ code' \in [Blocks -> Seq(Instr)] /\ layout' \in [Blocks -> Blocks \cup {NoBlock}]
      /\ edges' \in [Blocks -> SUBSET Blocks] /\ stale' \subseteq Blocks
  BY <1>1, <1>2, CallOnly DEF UnderRepair
<1> QED
  BY <1>2, <1>3 DEF IInv, TypeOK, Call, ScanOK, StoppedOK, CallerOK, RepairOK

\* RemoveBranch begins, for the folder or for placement.
LEMMA RemoveStart ==
  ASSUME IInv, FoldingReplaces \/ UpdateRemoves
  PROVE  IInv'
<1>1. /\ call.op = "analyzed" /\ ~call.failed /\ call.TBB # NoBlock
      /\ ~call.modify => call.TBB = layout[call.blk]
      /\ call' = [call EXCEPT !.op = "remove", !.I = Len(MBB) + 1]
      /\ UNCHANGED <<code, layout, edges, stale>>
  BY UpdateAnalyzes DEF FoldingReplaces, UpdateRemoves, Updating, RemoveBranch
<1>2. /\ call.blk \in Blocks /\ Len(MBB) \in Nat /\ call \in Call
      /\ MBB \in WellFormed
  BY <1>1, CallFacts
<1>3. call' = [op |-> "remove", blk |-> call.blk, I |-> Len(MBB) + 1, TBB |-> call.TBB,
               modify |-> call.modify, failed |-> call.failed]
  BY <1>1, <1>2 DEF Call
<1>4. /\ call'.op = "remove" /\ call'.blk = call.blk /\ call'.I = Len(MBB) + 1
      /\ call'.TBB = call.TBB /\ call'.modify = call.modify /\ call' \in Call
  BY <1>2, <1>3 DEF Call
<1>5. MBB' = MBB
  BY <1>1, <1>4 DEF MBB
<1>6. /\ CodeOK' /\ StaleOK' /\ EdgesPreserved'
      /\ code' \in [Blocks -> Seq(Instr)] /\ layout' \in [Blocks -> Blocks \cup {NoBlock}]
      /\ edges' \in [Blocks -> SUBSET Blocks] /\ stale' \subseteq Blocks
  BY <1>1, <1>4, CallOnly DEF UnderRepair
<1>7. TypeOK'
  BY <1>2, <1>4, <1>5, <1>6 DEF TypeOK, Call
<1>8. Plain(MBB) /\ edges[call.blk] = {call.TBB}
  <2>1. Plain(MBB) /\ \A next : Exits(MBB, next) = {call.TBB}
    BY <1>1, AnalyzedExits
  <2>2. CASE call.modify
    <3>1. Exits(MBB, layout[call.blk]) = edges[call.blk]
      BY <1>1, <1>2, <2>2 DEF IInv, CallerOK, EdgesPreserved, UnderRepair, MBB
    <3> QED
      BY <2>1, <3>1
  <2>3. CASE ~call.modify
    <3>1. \E old : Exits(MBB, old) = edges[call.blk]
      BY <1>1, <2>3 DEF IInv, CallerOK, StaleOK, UnderRepair, MBB
    <3> QED
      BY <2>1, <3>1
  <2> QED
    BY <2>2, <2>3
<1>9. RepairOK'
  BY <1>1, <1>2, <1>4, <1>5, <1>8 DEF RepairOK
<1>10. ScanOK' /\ StoppedOK' /\ CallerOK'
  BY <1>1, <1>4 DEF ScanOK, StoppedOK, CallerOK, IInv
<1> QED
  BY <1>6, <1>7, <1>9, <1>10 DEF IInv

\* RemoveBranch passes a debug value.
LEMMA RemoveSkips ==
  ASSUME IInv, SkipDebugValueBeforeErase
  PROVE  IInv'
<1>1. /\ call.op = "remove" /\ call.I > 1 /\ Prev.k = "dbg"
      /\ call' = [call EXCEPT !.I = @ - 1]
      /\ UNCHANGED <<code, layout, edges, stale>>
  BY DEF SkipDebugValueBeforeErase, Removing
<1>2. /\ call.blk \in Blocks /\ Len(MBB) \in Nat /\ call \in Call /\ call.I \in Int
      /\ call.I - 1 \in 1 .. Len(MBB) /\ MBB[call.I - 1].k = "dbg"
  BY <1>1, CallFacts
<1>3. /\ call'.op = "remove" /\ call'.blk = call.blk /\ call'.I = call.I - 1
      /\ call'.TBB = call.TBB /\ call'.modify = call.modify /\ call' \in Call
  BY <1>1, <1>2 DEF Call
<1>4. MBB' = MBB
  BY <1>1, <1>3 DEF MBB
<1>5. /\ CodeOK' /\ StaleOK' /\ EdgesPreserved'
      /\ code' \in [Blocks -> Seq(Instr)] /\ layout' \in [Blocks -> Blocks \cup {NoBlock}]
      /\ edges' \in [Blocks -> SUBSET Blocks] /\ stale' \subseteq Blocks
  BY <1>1, <1>3, CallOnly DEF UnderRepair
<1>6. TypeOK'
  BY <1>2, <1>3, <1>4, <1>5 DEF TypeOK, Call
<1>7. RepairOK'
  <2>1. \A n \in call.I .. Len(MBB) : MBB[n].k = "dbg"
    BY <1>1 DEF IInv, RepairOK
  <2>2. \A n \in call.I - 1 .. Len(MBB) : MBB[n].k = "dbg"
    BY <1>2, <2>1
  <2> QED
    BY <1>1, <1>3, <1>4, <2>2 DEF RepairOK, IInv
<1>8. ScanOK' /\ StoppedOK' /\ CallerOK'
  BY <1>1, <1>3 DEF ScanOK, StoppedOK, CallerOK, IInv
<1> QED
  BY <1>5, <1>6, <1>7, <1>8 DEF IInv

\* RemoveBranch ends: no JMP is left in the block.
LEMMA RemoveStops ==
  ASSUME IInv, StopRemoving
  PROVE  IInv'
<1>1. /\ call.op = "remove" /\ (call.I > 1 => Prev.k \notin {"dbg", "jmp"})
      /\ call' = [call EXCEPT !.op = "removed"]
      /\ UNCHANGED <<code, layout, edges, stale>>
  BY DEF StopRemoving, Removing
<1>2. /\ call.blk \in Blocks /\ MBB \in WellFormed /\ Len(MBB) \in Nat /\ call \in Call
      /\ call.I \in Int /\ call.I \in 1 .. Len(MBB) + 1
  BY <1>1, CallFacts
<1>3. /\ call'.op = "removed" /\ call'.blk = call.blk /\ call'.I = call.I
      /\ call'.TBB = call.TBB /\ call'.modify = call.modify /\ call' \in Call
  BY <1>1, <1>2 DEF Call
<1>4. MBB' = MBB
  BY <1>1, <1>3 DEF MBB
<1>5. /\ CodeOK' /\ StaleOK' /\ EdgesPreserved'
      /\ code' \in [Blocks -> Seq(Instr)] /\ layout' \in [Blocks -> Blocks \cup {NoBlock}]
      /\ edges' \in [Blocks -> SUBSET Blocks] /\ stale' \subseteq Blocks
  BY <1>1, <1>3, CallOnly DEF UnderRepair
<1>6. TypeOK'
  BY <1>2, <1>3, <1>4, <1>5 DEF TypeOK, Call
<1>7. \A n \in 1 .. Len(MBB) : MBB[n].k \in {"op", "dbg"}
  <2>1. \A n \in call.I .. Len(MBB) : MBB[n].k = "dbg"
    BY <1>1 DEF IInv, RepairOK
  <2>2. call.I > 1 => call.I - 1 \in 1 .. Len(MBB) /\ MBB[call.I - 1].k = "op"
    BY <1>1, <1>2, CallFacts DEF IInv, RepairOK, Plain
  <2>3. \A n \in 1 .. call.I - 1 : MBB[n].k \in {"op", "dbg"}
    BY <1>2, <2>2, WellFormedShape
  <2> QED
    BY <1>2, <2>1, <2>3
<1>8. RepairOK'
  BY <1>1, <1>3, <1>4, <1>7 DEF RepairOK, IInv
<1>9. ScanOK' /\ StoppedOK' /\ CallerOK'
  BY <1>1, <1>3 DEF ScanOK, StoppedOK, CallerOK, IInv
<1> QED
  BY <1>5, <1>6, <1>8, <1>9 DEF IInv

-----------------------------------------------------------------------------
(***************************************************************************)
(* The steps that change a block, the layout, or what waits for an update. *)
(***************************************************************************)

\* One block is changed, into a well-formed one.
LEMMA OneBlock ==
  ASSUME IInv, call.op # "idle", NEW s \in WellFormed, UNCHANGED <<layout, edges>>,
         code' = [code EXCEPT ![call.blk] = s], stale' \subseteq stale
  PROVE  /\ CodeOK' /\ code'[call.blk] = s
         /\ \A b \in Blocks : b # call.blk => code'[b] = code[b]
         /\ code' \in [Blocks -> Seq(Instr)] /\ layout' \in [Blocks -> Blocks \cup {NoBlock}]
         /\ edges' \in [Blocks -> SUBSET Blocks] /\ stale' \subseteq Blocks
<1>1. s \in Seq(Instr) /\ call.blk \in Blocks
  BY CallFacts DEF WellFormed
<1> QED
  BY <1>1 DEF IInv, TypeOK, CodeOK

\* A modifying analysis deletes what follows a JMP, and the JMP too if it goes
\* to the next block.
LEMMA FoldStep ==
  ASSUME IInv, FoldJump \/ KeepJump
  PROVE  IInv'
<1> DEFINE n == call.I - 1
           fold == Prev.t = layout[call.blk]
           s == SubSeq(MBB, 1, IF fold THEN n - 1 ELSE n)
<1>1. /\ call.op = "analyze" /\ call.I > 1 /\ Prev.k = "jmp" /\ call.modify
      /\ UNCHANGED <<layout, edges, stale>>
  BY DEF FoldJump, KeepJump, Analyzing
<1>2. /\ call.blk \in Blocks /\ MBB \in WellFormed /\ Len(MBB) \in Nat /\ call \in Call
      /\ MBB = code[call.blk] /\ n \in 1 .. Len(MBB) /\ MBB[n] = Prev /\ call.I \in Int
      /\ Prev.t \in Blocks \cup {NoBlock} /\ Prev.t # NoBlock
  BY <1>1, CallFacts
<1>3. /\ code' = [code EXCEPT ![call.blk] = s]
      /\ call' = [call EXCEPT !.TBB = IF fold THEN NoBlock ELSE Prev.t, !.I = n]
  <2>1. CASE FoldJump
    <3>1. fold /\ call.I - 2 = n - 1
      BY <1>2, <2>1 DEF FoldJump
    <3> QED
      BY <2>1, <3>1 DEF FoldJump
  <2>2. CASE KeepJump
    BY <2>2 DEF KeepJump
  <2> QED
    BY <2>1, <2>2
<1>4. /\ call'.op = "analyze" /\ call'.blk = call.blk /\ call'.I = n
      /\ call'.TBB = (IF fold THEN NoBlock ELSE Prev.t) /\ call'.modify /\ call' \in Call
  <2>1. call' = [op |-> call.op, blk |-> call.blk, I |-> n,
                 TBB |-> IF fold THEN NoBlock ELSE Prev.t,
                 modify |-> call.modify, failed |-> call.failed]
    BY <1>2, <1>3 DEF Call
  <2> QED
    BY <1>1, <1>2, <2>1 DEF Call
<1>5. /\ s \in WellFormed /\ Len(s) = IF fold THEN n - 1 ELSE n
      /\ ~fold => s[n] = Prev
  <2> DEFINE l == IF fold THEN n - 1 ELSE n
  <2>1. l \in 0 .. Len(MBB) /\ (~fold => l = n)
    BY <1>2
  <2> HIDE DEF fold, n, l
  <2>2. /\ SubSeq(MBB, 1, l) \in WellFormed /\ Len(SubSeq(MBB, 1, l)) = l
        /\ \A m \in 1 .. l : SubSeq(MBB, 1, l)[m] = MBB[m]
    BY <1>2, <2>1, WellFormedChanges
  <2>3. ~fold => l \in 1 .. l
    BY <1>2, <2>1 DEF n
  <2> QED
    BY <1>2, <2>1, <2>2, <2>3 DEF l
<1>6. \A next : (fold => next = Prev.t) => Exits(s, next) = Exits(MBB, next)
  BY <1>1, <1>2, PrefixExits DEF WellFormed
<1> HIDE DEF s
<1>7. /\ CodeOK' /\ code'[call.blk] = s
      /\ \A b \in Blocks : b # call.blk => code'[b] = code[b]
      /\ code' \in [Blocks -> Seq(Instr)] /\ layout' \in [Blocks -> Blocks \cup {NoBlock}]
      /\ edges' \in [Blocks -> SUBSET Blocks] /\ stale' \subseteq Blocks
  BY <1>1, <1>3, <1>5, OneBlock
<1>8. MBB' = s
  BY <1>4, <1>7 DEF MBB
<1>9. TypeOK'
  BY <1>2, <1>4, <1>5, <1>7, <1>8 DEF TypeOK, Call
<1>10. ScanOK'
  <2>1. CASE fold
    <3>1. \A m : m \notin n .. Len(s)
      BY <1>2, <1>5, <2>1
    <3> QED
      BY <1>1, <1>4, <1>8, <2>1, <3>1 DEF ScanOK
  <2>2. CASE ~fold
    <3>1. /\ n .. Len(s) = {n} /\ n .. n - 1 = {} /\ Len(s) = n
      BY <1>2, <1>5, <2>2
    <3>2. s[n].k = "jmp" /\ s[n].t = call'.TBB /\ call'.TBB # NoBlock /\ s[n].t # layout'[call'.blk]
      BY <1>1, <1>2, <1>4, <1>5, <2>2
    <3> QED
      BY <1>4, <1>8, <3>1, <3>2 DEF ScanOK
  <2> QED
    BY <2>1, <2>2
<1>11. EdgesPreserved'
  <2> SUFFICES ASSUME NEW b \in Blocks PROVE Exits(code'[b], layout'[b]) = edges'[b]
    BY DEF EdgesPreserved
  <2>1. Exits(code[b], layout[b]) = edges[b]
    BY <1>1 DEF IInv, EdgesPreserved, CallerOK, UnderRepair
  <2> QED
    BY <1>1, <1>2, <1>6, <1>7, <2>1
<1>12. stale = {}
  BY <1>1 DEF IInv, CallerOK
<1>13. StoppedOK' /\ RepairOK' /\ CallerOK' /\ StaleOK'
  BY <1>1, <1>4, <1>12 DEF StoppedOK, RepairOK, CallerOK, StaleOK
<1> QED
  BY <1>7, <1>9, <1>10, <1>11, <1>13 DEF IInv

\* RemoveBranch erases a JMP and starts again from the end.
LEMMA EraseStep ==
  ASSUME IInv, EraseJump
  PROVE  IInv'
<1> DEFINE n == call.I - 1
           s == SubSeq(MBB, 1, n - 1) \o SubSeq(MBB, n + 1, Len(MBB))
<1>1. /\ call.op = "remove" /\ call.I > 1 /\ Prev.k = "jmp"
      /\ call' = [call EXCEPT !.I = Len(MBB)]
      /\ UNCHANGED <<layout, edges, stale>>
  BY DEF EraseJump, Removing
<1>2. /\ call.blk \in Blocks /\ MBB \in WellFormed /\ Len(MBB) \in Nat /\ call \in Call
      /\ MBB = code[call.blk] /\ n \in 1 .. Len(MBB) /\ call.I \in Int
  BY <1>1, CallFacts
<1>3. code' = [code EXCEPT ![call.blk] = s]
  <2>1. call.I - 2 = n - 1 /\ call.I = n + 1
    BY <1>2
  <2> QED
    BY <2>1 DEF EraseJump
<1>4. /\ call'.op = "remove" /\ call'.blk = call.blk /\ call'.I = Len(MBB)
      /\ call'.TBB = call.TBB /\ call'.modify = call.modify /\ call' \in Call
  BY <1>1, <1>2 DEF Call
<1>5. /\ s \in WellFormed /\ Len(s) = Len(MBB) - 1
      /\ \A m \in 1 .. Len(s) : s[m] = MBB[IF m < n THEN m ELSE m + 1]
  <2>1. MBB \in WellFormed /\ n \in 1 .. Len(MBB)
    BY <1>2
  <2>2. s = SubSeq(MBB, 1, n - 1) \o SubSeq(MBB, n + 1, Len(MBB))
    OBVIOUS
  <2> HIDE DEF n, s
  <2> QED
    BY <2>1, <2>2, WithoutOne, Zenon
<1> HIDE DEF s
<1>6. /\ CodeOK' /\ code'[call.blk] = s
      /\ \A b \in Blocks : b # call.blk => code'[b] = code[b]
      /\ code' \in [Blocks -> Seq(Instr)] /\ layout' \in [Blocks -> Blocks \cup {NoBlock}]
      /\ edges' \in [Blocks -> SUBSET Blocks] /\ stale' \subseteq Blocks
  BY <1>1, <1>3, <1>5, OneBlock
<1>7. MBB' = s
  BY <1>4, <1>6 DEF MBB
<1>8. TypeOK'
  BY <1>2, <1>4, <1>5, <1>6, <1>7 DEF TypeOK, Call
<1>9. Plain(s)
  <2>1. Plain(MBB)
    BY <1>1 DEF IInv, RepairOK
  <2> QED
    BY <1>2, <1>5, <2>1 DEF Plain
<1>10. RepairOK'
  <2>1. \A m : m \notin Len(MBB) .. Len(s)
    BY <1>2, <1>5
  <2> QED
    BY <1>1, <1>4, <1>7, <1>9, <2>1 DEF IInv, RepairOK
<1>11. StaleOK'
  <2> SUFFICES ASSUME NEW b \in stale
               PROVE  /\ ~Unanalyzable(code'[b])
                      /\ ~UnderRepair(b)' => \E old \in Blocks \cup {NoBlock} : Exits(code'[b], old) = edges'[b]
    BY <1>1 DEF StaleOK
  <2>1. CASE b = call.blk
    <3>1. ~Unanalyzable(s)
      BY <1>5, <1>9, WellFormedShape DEF Plain, Unanalyzable
    <3> QED
      BY <1>4, <1>6, <2>1, <3>1 DEF UnderRepair
  <2>2. CASE b # call.blk
    BY <1>1, <1>4, <1>6, <2>2 DEF IInv, StaleOK, TypeOK, UnderRepair
  <2> QED
    BY <2>1, <2>2
<1>12. EdgesPreserved'
  BY <1>1, <1>4, <1>6 DEF IInv, EdgesPreserved, UnderRepair
<1>13. ScanOK' /\ StoppedOK' /\ CallerOK'
  BY <1>1, <1>4 DEF ScanOK, StoppedOK, CallerOK, IInv
<1> QED
  BY <1>6, <1>8, <1>10, <1>11, <1>12, <1>13 DEF IInv

\* The folder puts the branch back, and the block has its successor again.
LEMMA ReinsertStep ==
  ASSUME IInv, FoldingReinserts
  PROVE  IInv'
<1> DEFINE s == Jumping(MBB, call.TBB)
<1>1. /\ call.op = "removed" /\ call.modify /\ call' = Idle /\ UNCHANGED <<layout, edges, stale>>
      /\ call.TBB # NoBlock /\ code' = [code EXCEPT ![call.blk] = s]
  BY DEF FoldingReinserts, InsertBranch, MBB, Jumping
<1>2. /\ call.blk \in Blocks /\ MBB \in WellFormed /\ Len(MBB) \in Nat /\ call \in Call
      /\ call.TBB \in Blocks /\ call'.op = "idle" /\ call' \in Call /\ stale = {}
  BY <1>1, CallFacts DEF Call, Idle, IInv, CallerOK
<1>3. /\ s \in WellFormed /\ Len(s) = Len(MBB) + 1
      /\ s[Len(MBB) + 1].k = "jmp" /\ s[Len(MBB) + 1].t = call.TBB
      /\ \A m \in 1 .. Len(MBB) : s[m] = MBB[m]
  BY <1>2, WellFormedAppend
<1> HIDE DEF s
<1>4. /\ CodeOK' /\ code'[call.blk] = s
      /\ \A b \in Blocks : b # call.blk => code'[b] = code[b]
      /\ code' \in [Blocks -> Seq(Instr)] /\ layout' \in [Blocks -> Blocks \cup {NoBlock}]
      /\ edges' \in [Blocks -> SUBSET Blocks] /\ stale' \subseteq Blocks
  BY <1>1, <1>3, OneBlock
<1>5. \A next : Exits(s, next) = edges[call.blk]
  <2>1. \A m \in 1 .. Len(MBB) : s[m].k \in {"op", "dbg"}
    BY <1>1, <1>3 DEF IInv, RepairOK
  <2>2. \A next : Exits(s, next) = {call.TBB}
    BY <1>2, <1>3, <2>1, FirstJumpExits, WellFormedShape
  <2> QED
    BY <1>1, <2>2 DEF IInv, RepairOK
<1>6. EdgesPreserved'
  BY <1>1, <1>2, <1>4, <1>5 DEF IInv, EdgesPreserved, UnderRepair
<1> QED
  BY <1>1, <1>2, <1>4, <1>6
     DEF IInv, TypeOK, Call, ScanOK, StoppedOK, CallerOK, StaleOK, RepairOK

\* updateTerminator is done with a block whose code has become s.
LEMMA UpdateStep ==
  ASSUME IInv, NEW s \in WellFormed, call.op \in {"analyzed", "removed"}, ~call.modify,
         call' = Idle, stale' = stale \ {call.blk}, UNCHANGED <<layout, edges>>,
         code' = [code EXCEPT ![call.blk] = s], Exits(s, layout[call.blk]) = edges[call.blk]
  PROVE  IInv'
<1>1. call.blk \in Blocks /\ call'.op = "idle" /\ call' \in Call
  BY CallFacts DEF Idle, Call
<1>2. /\ CodeOK' /\ code'[call.blk] = s
      /\ \A b \in Blocks : b # call.blk => code'[b] = code[b]
      /\ code' \in [Blocks -> Seq(Instr)] /\ layout' \in [Blocks -> Blocks \cup {NoBlock}]
      /\ edges' \in [Blocks -> SUBSET Blocks] /\ stale' \subseteq Blocks
  BY OneBlock
<1>3. EdgesPreserved'
  BY <1>1, <1>2 DEF IInv, EdgesPreserved, UnderRepair
<1>4. StaleOK'
  BY <1>1, <1>2 DEF IInv, StaleOK, TypeOK, UnderRepair
<1> QED
  BY <1>1, <1>2, <1>3, <1>4
     DEF IInv, TypeOK, Call, ScanOK, StoppedOK, CallerOK, RepairOK

\* Code that stays is code that becomes what it is.
LEMMA SameCode ==
  ASSUME IInv, UNCHANGED code
  PROVE  code' = [code EXCEPT ![call.blk] = MBB]
BY DEF IInv, TypeOK, MBB

LEMMA UpdateRemovedStep ==
  ASSUME IInv, UpdateRemoved
  PROVE  IInv'
<1>1. /\ call.op = "removed" /\ ~call.modify /\ call' = Idle /\ stale' = stale \ {call.blk}
      /\ UNCHANGED <<code, layout, edges>>
  BY DEF UpdateRemoved, UpdateDone
<1>2. MBB \in WellFormed
  BY <1>1, CallFacts
<1>3. Exits(MBB, layout[call.blk]) = {layout[call.blk]}
  BY <1>1, <1>2, FallThroughExits DEF IInv, RepairOK, WellFormed
<1>4. Exits(MBB, layout[call.blk]) = edges[call.blk]
  BY <1>1, <1>3 DEF IInv, RepairOK
<1> QED
  BY <1>1, <1>2, <1>4, SameCode, UpdateStep

\* The exits updateTerminator's block had in front of the block placement took
\* away are its edges.
LEMMA FormerExits ==
  ASSUME IInv, Updating
  PROVE  /\ call.op = "analyzed" /\ ~call.modify /\ MBB \in WellFormed /\ call \in Call
         /\ call.TBB # NoBlock => \A next : Exits(MBB, next) = edges[call.blk]
         /\ call.TBB = NoBlock => \E old : edges[call.blk] = {old}
         /\ call.TBB = NoBlock => /\ \A n \in 1 .. Len(MBB) : MBB[n].k \in {"op", "dbg"}
                                  /\ \A next : Exits(MBB, next) = {next}
<1>1. call.op = "analyzed" /\ ~call.modify /\ ~call.failed /\ call.blk \in stale
  BY UpdateAnalyzes DEF Updating
<1>2. MBB \in WellFormed /\ call \in Call /\ call.I \in 1 .. Len(MBB) + 1
  BY <1>1, CallFacts
<1>3. /\ \A next : Exits(MBB, next) = {IF call.TBB = NoBlock THEN next ELSE call.TBB}
      /\ Plain(MBB)
  BY <1>1, AnalyzedExits
<1>4. \E old : Exits(MBB, old) = edges[call.blk]
  BY <1>1 DEF IInv, StaleOK, UnderRepair, MBB
<1>5. ASSUME call.TBB = NoBlock, NEW n \in 1 .. Len(MBB)
      PROVE  MBB[n].k \in {"op", "dbg"}
  <2>1. CASE n \in call.I .. Len(MBB)
    BY <1>1, <1>5, <2>1 DEF IInv, ScanOK
  <2>2. CASE n \in 1 .. call.I - 1
    <3>1. call.I > 1 /\ call.I - 1 \in 1 .. Len(MBB) /\ MBB[call.I - 1].k = "op"
      BY <1>1, <1>2, <2>2, CallFacts DEF IInv, StoppedOK
    <3> QED
      BY <1>2, <2>2, <3>1, WellFormedShape
  <2> QED
    BY <1>2, <2>1, <2>2, WellFormedShape
<1> QED
  BY <1>1, <1>2, <1>3, <1>4, <1>5

LEMMA UpdateKeepsStep ==
  ASSUME IInv, UpdateKeeps
  PROVE  IInv'
<1>1. /\ Updating /\ call' = Idle /\ stale' = stale \ {call.blk} /\ UNCHANGED <<code, layout, edges>>
      /\ \/ call.TBB # NoBlock
         \/ call.TBB = NoBlock /\ edges[call.blk] \subseteq {layout[call.blk]}
  BY DEF UpdateKeeps, UpdateDone
<1>2. Exits(MBB, layout[call.blk]) = edges[call.blk]
  BY <1>1, FormerExits
<1> QED
  BY <1>1, <1>2, FormerExits, SameCode, UpdateStep

LEMMA UpdateInsertsStep ==
  ASSUME IInv, UpdateInserts
  PROVE  IInv'
<1>1. /\ Updating /\ call.TBB = NoBlock /\ call' = Idle /\ stale' = stale \ {call.blk}
      /\ UNCHANGED <<layout, edges>>
  BY DEF UpdateInserts, UpdateDone
<1>2. PICK t \in edges[call.blk] : InsertBranch(t)
  BY DEF UpdateInserts
<1> DEFINE s == Jumping(MBB, t)
<1>3. code' = [code EXCEPT ![call.blk] = s]
  BY <1>2 DEF InsertBranch, MBB, Jumping
<1>4. edges[call.blk] = {t} /\ t \in Blocks /\ MBB \in WellFormed
  BY <1>1, <1>2, FormerExits, UpdateAnalyzes DEF IInv, TypeOK
<1>5. /\ s \in WellFormed /\ Len(s) = Len(MBB) + 1 /\ Len(MBB) \in Nat
      /\ s[Len(MBB) + 1].k = "jmp" /\ s[Len(MBB) + 1].t = t
      /\ \A m \in 1 .. Len(MBB) : s[m] = MBB[m]
  BY <1>4, WellFormedAppend
<1> HIDE DEF s
<1>6. Exits(s, layout[call.blk]) = {t}
  <2>1. \A m \in 1 .. Len(MBB) : s[m].k \in {"op", "dbg"}
    BY <1>1, <1>5, FormerExits
  <2> QED
    BY <1>5, <2>1, FirstJumpExits, WellFormedShape
<1> QED
  BY <1>1, <1>3, <1>4, <1>5, <1>6, FormerExits, UpdateStep

\* Placement moves blocks: those it does not keep in front of their successor
\* and does not have updated end with a barrier.
LEMMA RelayoutStep ==
  ASSUME IInv, NEW l \in Layouts, Relayout(l)
  PROVE  IInv'
<1>1. /\ call.op = "idle" /\ stale = {} /\ layout' = l /\ UNCHANGED <<code, edges, call>>
      /\ \A b \in Blocks : Unanalyzable(code[b]) /\ MayFallThrough(b) => l[b] = layout[b]
      /\ stale' = {b \in Blocks : ~Unanalyzable(code[b])}
  BY DEF Relayout
<1>2. \A b \in Blocks : Exits(code[b], layout[b]) = edges[b]
  BY <1>1 DEF IInv, EdgesPreserved, UnderRepair
<1>3. StaleOK'
  <2> SUFFICES ASSUME NEW b \in stale'
               PROVE  /\ ~Unanalyzable(code[b])
                      /\ \E old \in Blocks \cup {NoBlock} : Exits(code[b], old) = edges[b]
    BY <1>1 DEF StaleOK
  <2> QED
    BY <1>1, <1>2 DEF IInv, TypeOK
<1>4. EdgesPreserved'
  <2> SUFFICES ASSUME NEW b \in Blocks, Unanalyzable(code[b])
               PROVE  Exits(code[b], l[b]) = edges[b]
    BY <1>1 DEF EdgesPreserved
  <2>1. CASE MayFallThrough(b)
    BY <1>1, <1>2, <2>1
  <2>2. CASE ~MayFallThrough(b)
    <3>1. code[b] \in Seq(Instr) /\ DOMAIN code[b] = 1 .. Len(code[b]) /\ Len(code[b]) \in Nat
          /\ (code[b] # << >> => Len(code[b]) # 0)
      BY SeqShape, EmptySeq DEF IInv, TypeOK
    <3>2. Barriers(code[b]) # {}
      <4>1. CASE layout[b] \notin edges[b]
        BY <1>2, <4>1 DEF Exits
      <4>2. CASE layout[b] \in edges[b]
        <5>1. code[b] # << >> /\ code[b][Len(code[b])].k \in {"jmp", "ret"}
          BY <2>2, <4>2 DEF MayFallThrough
        <5>2. Len(code[b]) \in DOMAIN code[b]
          BY <3>1, <5>1
        <5> QED
          BY <5>1, <5>2 DEF Barriers
      <4> QED
        BY <4>1, <4>2
    <3> QED
      BY <1>2, <3>1, <3>2, BarrierExits
  <2> QED
    BY <2>1, <2>2
<1>5. TypeOK' /\ CodeOK'
  BY <1>1 DEF IInv, TypeOK, CodeOK, Layouts
<1> QED
  BY <1>1, <1>3, <1>4, <1>5 DEF IInv, ScanOK, StoppedOK, CallerOK, RepairOK

-----------------------------------------------------------------------------
LEMMA StepInv == IInv /\ [Next]_vars => IInv'
<1> SUFFICES ASSUME IInv, [Next]_vars PROVE IInv'
  OBVIOUS
<1>1. CASE AnalyzeStep
  BY <1>1, ScanStep, StopStep, FoldStep DEF AnalyzeStep
<1>2. CASE RemoveStep
  BY <1>2, RemoveSkips, EraseStep, RemoveStops DEF RemoveStep
<1>3. CASE \E b \in Blocks : FoldBlock(b) \/ UpdateTerminator(b)
  BY <1>3, BeginStep
<1>4. CASE FoldingDone \/ FoldingReplaces \/ FoldingReinserts
  BY <1>4, FoldingDoneStep, RemoveStart, ReinsertStep
<1>5. CASE \E l \in Layouts : Relayout(l)
  BY <1>5, RelayoutStep
<1>6. CASE UpdateRemoves \/ UpdateRemoved \/ UpdateInserts \/ UpdateKeeps
  BY <1>6, RemoveStart, UpdateRemovedStep, UpdateInsertsStep, UpdateKeepsStep
<1>7. CASE UNCHANGED vars
  BY <1>7 DEF vars, IInv, TypeOK, CodeOK, ScanOK, StoppedOK, CallerOK, StaleOK, RepairOK,
              EdgesPreserved, UnderRepair, MBB, Prev
<1> QED
  BY <1>1, <1>2, <1>3, <1>4, <1>5, <1>6, <1>7 DEF Next

LEMMA Invariance == Spec => []IInv
BY InitInv, StepInv, PTL DEF Spec

\* The state of the function and of the running hook is well typed: the
\* iterator stays inside the block it walks, whatever is erased around it.
THEOREM TypeCorrect == Spec => []TypeOK
BY Invariance, PTL DEF IInv

\* The code of every block goes where the CFG says, at each step of the hooks,
\* while the folder rewrites blocks and placement moves them.
THEOREM EdgesKept == Spec => []EdgesPreserved
BY Invariance, PTL DEF IInv

\* A successful AnalyzeBranch has found the one exit of the block.
THEOREM AnalysisSound == Spec => []AnalysisTruthful
<1>1. IInv => AnalysisTruthful
  BY AnalyzedExits DEF AnalysisTruthful
<1> QED
  BY <1>1, Invariance, PTL

\* A modifying AnalyzeBranch leaves no JMP to the next block, and nothing
\* behind one that it keeps.
THEOREM FoldingTidy == Spec => []FoldedBlocksTidy
<1>1. ASSUME IInv, call.op = "analyzed", call.modify, NEW n \in DOMAIN MBB, MBB[n].k = "jmp",
             \A m \in DOMAIN MBB : m > n => MBB[m].k # "jcc" /\ MBB[m].k # "ret"
      PROVE  n = Len(MBB) /\ MBB[n].t # layout[call.blk]
  <2>1. /\ MBB \in WellFormed /\ Len(MBB) \in Nat /\ DOMAIN MBB = 1 .. Len(MBB)
        /\ call.I \in Int /\ call.I \in 1 .. Len(MBB) + 1
    BY <1>1, CallFacts, WellFormedShape
  <2>2. CASE n \in call.I .. Len(MBB)
    BY <1>1, <2>2 DEF IInv, ScanOK
  <2>3. CASE n < call.I
    <3>1. /\ call.I > 1 /\ call.I - 1 \in 1 .. Len(MBB)
          /\ MBB[call.I - 1].k \in {"op", "jcc", "ret"}
      BY <1>1, <2>1, <2>3, CallFacts DEF IInv, StoppedOK
    <3>2. n < call.I - 1
      BY <1>1, <2>1, <2>3, <3>1
    <3>3. MBB[call.I - 1].k = "op"
      BY <1>1, <2>1, <3>1, <3>2
    <3> QED
      BY <1>1, <2>1, <3>1, <3>2, <3>3, WellFormedShape
  <2> QED
    BY <2>1, <2>2, <2>3
<1>2. IInv => FoldedBlocksTidy
  BY <1>1 DEF FoldedBlocksTidy
<1> QED
  BY <1>2, Invariance, PTL
=============================================================================
