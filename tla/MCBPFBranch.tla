----------------------------- MODULE MCBPFBranch -----------------------------
(* Three blocks, each of any of the forms instruction selection and the    *)
(* passes leave.                                                           *)
EXTENDS BPFBranch

CONSTANTS b1, b2, b3

Op     == [k |-> "op",  t |-> NoBlock]
Dbg    == [k |-> "dbg", t |-> NoBlock]
Ret    == [k |-> "ret", t |-> NoBlock]
Jcc(b) == [k |-> "jcc", t |-> b]
Jmp(b) == [k |-> "jmp", t |-> b]

MCBodies ==
  {<< >>, <<Op, Dbg>>, <<Ret>>, <<Op, Jcc(b1)>>}
    \cup {<<Jmp(a), Dbg>> : a \in Blocks}
    \cup {<<Jcc(b3), Dbg, Jmp(a)>> : a \in Blocks}
    \cup {<<Jmp(a), Jmp(b3)>> : a \in {b1, b3}}
=============================================================================
