------------------------------ MODULE MCBPFCall -------------------------------
(* Modules for BPFCall.                                                    *)
EXTENDS BPFCall

CONSTANTS x, y

Const(v, n)       == [k |-> "const", dst |-> v, val |-> n]
Call(d, c, as)    == [k |-> "call", callee |-> c, cc |-> "C", byval |-> FALSE, args |-> as, dst |-> d]
Ret(vs)           == [k |-> "ret", vals |-> vs]
Fn(ps, b)         == [cc |-> "C", vararg |-> FALSE, sret |-> FALSE, params |-> ps, body |-> b]
Local(n)          == [k |-> "function", n |-> n]
Kernel(k)         == [k |-> k, n |-> 0]

(* Arguments in another order, results that are arguments, values that    *)
(* live across calls, calls two deep, functions without a result.         *)
Swap ==
  << Fn(<< >>, << Const("a", x), Const("b", y), Call(<<"c">>, Local(2), <<"a", "b">>),
                  Call(<<"d">>, Kernel("global"), <<"c", "a", "b">>), Ret(<<"d">>) >>),
     Fn(<<"a", "b">>, << Call(<<"c">>, Local(3), <<"b", "a">>), Ret(<<"c">>) >>),
     Fn(<<"a", "b">>, << Ret(<<"b">>) >>) >>

Kernels ==
  << Fn(<< >>, << Call(<<"a">>, Kernel("global"), << >>), Call(<<"b">>, Kernel("imm"), <<"a">>),
                  Call(<< >>, Kernel("global"), <<"b", "a">>),
                  Call(<<"c">>, Local(2), <<"a", "b", "a", "b", "b">>), Ret(<<"c">>) >>),
     Fn(<<"a", "b", "c", "d", "e">>,
        << Call(<<"a">>, Kernel("global"), <<"e", "d", "c", "b", "a">>),
           Call(<< >>, Local(3), <<"a">>), Ret(<<"e">>) >>),
     Fn(<<"a">>, << Call(<< >>, Kernel("imm"), <<"a", "a">>), Ret(<< >>) >>) >>

(* One call, one definition.                                              *)
Simple == << Fn(<<"a">>, << Call(<<"b">>, Kernel("global"), <<"a">>), Ret(<<"b">>) >>) >>

Six  == <<"a", "b", "c", "d", "e", "a">>
SixP == <<"a", "b", "c", "d", "e", "g">>

Refused ==
  { [Simple EXCEPT ![1].body[1].args = Six],
    [Simple EXCEPT ![1].params = SixP],
    [Simple EXCEPT ![1].body[1].byval = TRUE],
    [Simple EXCEPT ![1].body[1].cc = "other"],
    [Simple EXCEPT ![1].vararg = TRUE],
    [Simple EXCEPT ![1].sret = TRUE],
    [Simple EXCEPT ![1].body[1].callee = Kernel("extern")],
    [Simple EXCEPT ![1].body[1].callee = Kernel("register")] }

(* What ends in code marked unreachable.                                  *)
Unplaced ==
  { [Simple EXCEPT ![1].cc = "other"],
    [Simple EXCEPT ![1].body[1].dst = <<"a", "b">>],
    [Simple EXCEPT ![1].body[2].vals = <<"a", "b">>] }

MCModules == {Swap, Kernels, Simple} \cup Refused \cup Unplaced
               \cup {Simple \o m : m \in Refused \cup Unplaced}

(* Two functions that both keep a value across a call.                    *)
KeepersModules ==
  { << Fn(<< >>, << Const("a", x), Call(<<"b">>, Local(2), <<"a">>), Ret(<<"a">>) >>),
       Fn(<<"a">>, << Const("b", y), Call(<< >>, Kernel("global"), <<"b">>), Ret(<<"b">>) >>) >> }

(* With one function that keeps values in registers, the first, the        *)
(* hypothesis of the theorem SourceImplemented holds of these modules.     *)
ASSUME HypothesisMet == (Keepers = {1}) => KeepersNotCalled
===============================================================================
