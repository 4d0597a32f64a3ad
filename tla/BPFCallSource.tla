---------------------------- MODULE BPFCallSource -----------------------------
(***************************************************************************)
(* What compiled code promises: a module is refused if and only if it uses *)
(* what the target has not, and otherwise the program does what its source *)
(* says, one statement at a time.  There are no registers here and no      *)
(* stack slots: an activation is its function, the statement it is at and  *)
(* the values of its variables.  BPFCall implements this.                  *)
(***************************************************************************)
EXTENDS Naturals, Sequences

CONSTANTS
  Values,      (* of constants and of what kernel functions return         *)
  Junk,        (* what nobody has written                                  *)
  VRegs,       (* variables of a function                                  *)
  MaxArgs,     (* words of arguments the target passes                     *)
  Modules      (* the sources                                              *)

VARIABLES
  module,      (* the source                                               *)
  status,      (* "compile", "rejected", "run", "halt"                     *)
  stack,       (* the activations                                          *)
  trace        (* what the kernel has seen: calls and the final result     *)

SupportedCall(s) ==
  /\ s.cc \in {"C", "Fast"} /\ ~s.byval
  /\ Len(s.args) <= MaxArgs
  /\ s.callee.k \notin {"extern", "register"}

Supported(fn) ==
  /\ Len(fn.params) <= MaxArgs /\ ~fn.vararg /\ ~fn.sret
  /\ \A n \in DOMAIN fn.body : fn.body[n].k = "call" => SupportedCall(fn.body[n])

\* The variables after those of dst got new values.
Assign(env, dst, vals) ==
  [v \in VRegs |-> IF \E i \in DOMAIN dst : dst[i] = v
                   THEN vals[CHOOSE i \in DOMAIN dst : dst[i] = v] ELSE env[v]]

Fresh == [v \in VRegs |-> Junk]

Top       == Len(stack)
Cur       == stack[Top]
Stmt      == module[Cur.g].body[Cur.at]
ValuesOf(vs) == [i \in DOMAIN vs |-> Cur.env[vs[i]]]

\* The activation a statement ends in, and the event it shows the kernel.
Step(act, env)      == [act EXCEPT !.at = @ + 1, !.env = env]
Shows(callee, vals) == trace' = Append(trace, [callee |-> callee, vals |-> vals])

At(kind) == status = "run" /\ Stmt.k = kind /\ UNCHANGED module

Init == module \in Modules /\ status = "compile" /\ stack = << >> /\ trace = << >>

Reject ==
  /\ status = "compile" /\ \E g \in DOMAIN module : ~Supported(module[g])
  /\ status' = "rejected" /\ UNCHANGED <<module, stack, trace>>

Start ==
  /\ status = "compile" /\ \A g \in DOMAIN module : Supported(module[g])
  /\ status' = "run" /\ stack' = <<[g |-> 1, at |-> 1, env |-> Fresh]>>
  /\ UNCHANGED <<module, trace>>

Assignment ==
  /\ At("const")
  /\ stack' = [stack EXCEPT ![Top] = Step(@, Assign(@.env, <<Stmt.dst>>, <<Stmt.val>>))]
  /\ UNCHANGED <<status, trace>>

Call ==
  /\ At("call") /\ Stmt.callee.k = "function"
  /\ LET g == Stmt.callee.n
     IN  stack' = Append(stack, [g |-> g, at |-> 1,
                                 env |-> Assign(Fresh, module[g].params, ValuesOf(Stmt.args))])
  /\ UNCHANGED <<status, trace>>

CallKernel(w) ==
  /\ At("call") /\ Stmt.callee.k # "function"
  /\ stack' = [stack EXCEPT ![Top] = Step(@, Assign(@.env, Stmt.dst, <<w>>))]
  /\ Shows(Stmt.callee, ValuesOf(Stmt.args)) /\ UNCHANGED status

Return ==
  /\ At("ret")
  /\ LET vals   == ValuesOf(Stmt.vals)
         caller == stack[Top - 1]
         call   == module[caller.g].body[caller.at]
     IN  \/ /\ Top = 1 /\ stack' = << >> /\ status' = "halt"
            /\ Shows("exit", vals)
         \/ /\ Top > 1
            /\ stack' = [SubSeq(stack, 1, Top - 1) EXCEPT
                           ![Top - 1] = Step(caller, Assign(caller.env, call.dst, vals))]
            /\ UNCHANGED <<status, trace>>

Next == Reject \/ Start \/ Assignment \/ Call \/ (\E w \in Values : CallKernel(w)) \/ Return

Spec == Init /\ [][Next]_<<module, status, stack, trace>>
===============================================================================
