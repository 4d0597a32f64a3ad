------------------------------ MODULE MCBPFFrame ------------------------------
(* Sources for BPFFrame.                                                   *)
EXTENDS BPFFrame

CONSTANTS x, y

OnObject(f, n) == [k |-> "access", fi |-> f, reg |-> NoReg, off |-> n]
OnReg(r, n)    == [k |-> "access", fi |-> NoFI, reg |-> r, off |-> n]
Take(f)        == [k |-> "take", fi |-> f, reg |-> NoReg, off |-> 0]

(* Offsets that fit, alone and added to any object's, and that do not.     *)
MCPrograms ==
  { <<OnObject(x, 4), OnReg("ptr", 63), OnObject(y, 0)>>,
    <<Take(x), OnObject(y, 4), OnReg("obj", -4), OnReg("obj", 63)>>,
    <<OnObject(x, 64), OnReg("ptr", -65), OnObject(y, 8)>>,
    <<Take(y), OnReg("obj", 100), OnReg("ptr", 4), OnReg("obj", 0)>> }

ASSUME SumsFit == Programs = MCPrograms => FramesFit

(* An offset that fits, and does not once the object's is added.           *)
EdgePrograms == { <<OnObject(x, -64)>>, <<OnObject(x, 0), OnObject(y, -50)>> }
=============================================================================
