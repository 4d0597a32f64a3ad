---------------------------- MODULE MCBPFLegalize -----------------------------
(* Terms for BPFLegalize.                                                  *)
EXTENDS BPFLegalize

X == Node("reg", "x", << >>)
Y == Node("reg", "y", << >>)
Load(op, t)   == Node(op, t, << >>)
Setcc(cc)     == Node("setcc", cc, <<X, Y>>)
SextIn(t, v)  == Node("sext_inreg", t, <<v>>)

(* Conditions that are no comparisons: an i1 as an i64.                    *)
Conditions ==
  {Binary("and", Setcc("SETLT"), Setcc("SETUGE")), Binary("xor", Setcc("SETEQ"), Const(1)),
   Load("zextload", "i1")}

(* Constants at the edges of the immediate field, and one word.            *)
Edges == {0, 127, 128, 255, 256, WordMod - 128, WordMod - 129, WordMod - 1}

Arithmetic ==
  {Binary(op, X, Y) : op \in {"add", "sub", "mul", "udiv", "urem", "and", "or", "xor", "shl", "srl", "sra"}}
    \cup {Binary(op, X, Const(n)) : op \in {"add", "and", "urem"}, n \in Edges}

Memory ==
  {Load("load", "i64"), Binary("add", Node("frameindex", "x", << >>), Const(8)),
   Binary("add", Node("global", "y", << >>), X)}
    \cup {Load("zextload", t) : t \in {"i1", "i8", "i16", "i32"}}
    \cup {Load("extload", t) : t \in {"i8", "i16", "i32"}}
    \cup {Load("sextload", t) : t \in {"i1", "i8", "i16", "i32"}}
    \cup {Node("truncstore", t, <<v>>) : t \in {"i1", "i8", "i16", "i32"}, v \in {X, Load("sextload", "i8")}}
    \cup {Node("store", "i64", <<v>>) : v \in {Y, Setcc("SETNE"), Const(255)}}

Control ==
  {Setcc(cc) : cc \in {"SETLT", "SETUGE"}} \cup {Node("brcond", "i64", <<Setcc("SETEQ")>>)}
    \cup {Node("brcond", "i64", <<X>>), Node("select", "i64", <<Setcc("SETGT"), X, Const(255)>>)}
    \cup {Node("select", "i64", <<c, X, Y>>) : c \in Conditions} \cup {Node("brcond", "i64", <<c>>) : c \in Conditions}
    \cup {Node("select", "i64", <<Setcc("SETULT"), SextIn("i32", Binary("add", X, Y)), Load("sextload", "i16")>>)}

Refused ==
  {Binary("sdiv", X, Y), Binary("add", X, Binary("srem", X, Y)), Node("br_jt", "i64", <<X>>),
   Binary("sub", Node("stacksave", "i64", << >>), Node("dynamic_stackalloc", "i64", <<X>>)), Binary("add", Node("cttz", "i64", <<X>>), SextIn("i8", Y)),
   Node("ctlz", "i64", <<X>>), Node("vastart", "i64", << >>), Node("atomic_swap", "i64", <<X>>)}

MCSources == Arithmetic \cup Memory \cup Control \cup Refused
MCSamples == {0, 1, 127, 255, 32768, 65535}
===============================================================================
