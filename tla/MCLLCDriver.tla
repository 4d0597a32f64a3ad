----------------------------- MODULE MCLLCDriver ------------------------------
(* Files and command lines for LLCDriver.                                  *)
EXTENDS LLCDriver

CONSTANTS m1, m2

MCInputs  == {<<"p", "bc">>, <<"p", "o">>, Dash}
MCOutputs == {<<"p", "bc">>, Dash}
MCEdits   == {<<"ir", m1>>, <<"ir", m2>>}

Line(in, out, type, level, start, stop) ==
  [in |-> in, out |-> out, type |-> type, level |-> level,
   startAfter |-> start, stopAfter |-> stop]

(* Every input with every output; every type and option with one of them.  *)
MCCommands ==
  {Line(in, out, "obj", " ", "", "") : in \in MCInputs, out \in MCOutputs \cup {None}}
    \cup {Line(<<"p", "o">>, None, t, l, "", s) :
            t \in Types, l \in {"2", "x"}, s \in {"registered", "unknown"}}
    \cup {Line(<<"p", "bc">>, None, "asm", "0", "unknown", "")}
===============================================================================
