------------------------------- MODULE LLCSpec --------------------------------
(***************************************************************************)
(* What llc promises about files, a whole run being one step: its output   *)
(* is written completely or is not there, whenever the program itself ends *)
(* the run, and nothing else is touched.  LLCDriver implements this.       *)
(***************************************************************************)
EXTENDS Sequences

CONSTANTS
  Names,       (* of files and of the standard streams                     *)
  Stdout,      (* the name of the standard output                          *)
  IRs,         (* what a file that parses may hold                         *)
  Types        (* of output                                                *)

Absent   == <<"absent">>
Partial  == <<"partial">>
IR(m)    == <<"ir", m>>
Code(m, t) == <<"code", m, t>>

Contents == {Absent, Partial} \cup {IR(m) : m \in IRs}
              \cup {Code(m, t) : m \in IRs, t \in Types}

VARIABLES
  disk,        (* the contents of each file                                *)
  exit         (* how the last run ended                                   *)

\* Disks after a file was compiled, or was not.  The standard output cannot be
\* taken back.
Compiled(in, out, t) ==
  {[disk EXCEPT ![out] = Code(m, t)] : m \in {i \in IRs : disk[in] = IR(i)}}
Refused(out) ==
  {disk, [disk EXCEPT ![out] = IF out = Stdout THEN Partial ELSE Absent]}

Edit(file, c) == disk' = [disk EXCEPT ![file] = c] /\ UNCHANGED exit

Compile(in, out, t)   == disk' \in Compiled(in, out, t) /\ exit' = "0"
Refuse(out)           == disk' \in Refused(out) /\ exit' = "1"
Interrupt(in, out, t) == disk' \in Refused(out) \cup Compiled(in, out, t) /\ exit' = "signal"

\* Only a kill leaves a file that is neither the old one nor the new one.
Kill(in, out, t) ==
  /\ disk' \in Refused(out) \cup {[disk EXCEPT ![out] = Partial]} \cup Compiled(in, out, t)
  /\ exit' = "killed"

Init == disk \in [Names -> Contents] /\ exit = "none"

Next ==
  \/ \E file \in Names, c \in Contents : Edit(file, c)
  \/ \E in, out \in Names, t \in Types :
       Compile(in, out, t) \/ Refuse(out) \/ Interrupt(in, out, t) \/ Kill(in, out, t)

Spec == Init /\ [][Next]_<<disk, exit>>
===============================================================================
