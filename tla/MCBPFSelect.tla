----------------------------- MODULE MCBPFSelect -----------------------------
(* Source blocks for BPFSelect: all condition codes, constants on the right *)
(* (where the DAG puts them) that fit an immediate and that do not, one and *)
(* two selects, the second reading the first, and a branch back to the      *)
(* block itself.                                                            *)
EXTENDS BPFSelect

CONSTANTS a, b, p, d1, d2, t1, t2, t3

MCTemps == <<t1, t2, t3>>

R(r) == [reg |-> r, imm |-> 0]
C(n) == [reg |-> NoReg, imm |-> n]

Cmp(cc, l, r) == [cc |-> cc, lhs |-> l, rhs |-> r]
Sel(cc, l, r, dst, t, f) == [cc |-> cc, lhs |-> l, rhs |-> r, dst |-> dst, t |-> t, f |-> f]

Block(selects, br, target, layout) ==
  [selects |-> selects, br |-> br, target |-> target, layout |-> layout,
   in |-> a, out |-> IF Len(selects) = 0 THEN b ELSE selects[Len(selects)].dst, phi |-> p]

Near  == <<Pre, Body, Nxt, Far>>
Apart == <<Pre, Body, Far, Nxt>>

Branches ==
  {Block(<< >>, Cmp(cc, R(a), r), Far, Near) :
     cc \in Conds, r \in {R(b), C(-2), C(1), C(2), C(-3)}}

OneSelect ==
  {Block(<<Sel(cc, R(b), r, d1, a, b)>>, Cmp("SETLT", R(d1), C(0)), t, Near) :
     cc \in Conds, r \in {R(a), C(-1)}, t \in {Body, Far}}

TwoSelects ==
  {Block(<<Sel(c1, R(p), R(b), d1, a, b), Sel(c2, R(d1), R(a), d2, d1, b)>>,
         Cmp("SETUGE", R(d2), R(d1)), t, l) :
     c1 \in {"SETULE", "SETGT"}, c2 \in {"SETLT", "SETNE", "SETUGT"},
     t \in {Body, Far}, l \in {Near, Apart}}

MCPrograms == Branches \cup OneSelect \cup TwoSelects
=============================================================================
