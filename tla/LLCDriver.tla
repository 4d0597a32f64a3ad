------------------------------ MODULE LLCDriver -------------------------------
(***************************************************************************)
(* The driver, tools/llc/llc.cpp: main as one step per place where it may  *)
(* end, and the tool_output_file it writes to (external: opened with       *)
(* truncation, registered for removal on a signal, removed by its          *)
(* destructor unless keep was called), run several times over the same     *)
(* files.                                                                  *)
(*                                                                         *)
(* A file name is the sequence of its parts between dots.                  *)
(***************************************************************************)
EXTENDS Naturals, Sequences, SequencesExt

CONSTANTS
  IRs,         (* modules a file may hold                                  *)
  Inputs,      (* names given as the input                                 *)
  Outputs,     (* names given with -o                                      *)
  Commands,    (* the command lines                                        *)
  Edits,       (* contents the user may give to an input                   *)
  MaxRuns      (* bound on the runs of llc                                 *)

Dash   == <<"-">>
Stdout == <<"stdout">>
None   == << >>
Types  == {"asm", "obj", "null"}
Passes == {"", "registered", "unknown"}

Command ==
  [in : Inputs, out : Outputs \cup {None}, type : Types, level : {" ", "0", "1", "2", "3", "x"},
   startAfter : Passes, stopAfter : Passes]

ASSUME CommandsAssumption ==
  Commands \subseteq Command /\ {Dash, Stdout, None} \cap Outputs \subseteq {Dash}
ASSUME NamesAssumption == Inputs \cup Outputs \subseteq Seq(STRING)
ASSUME RunsAssumption == MaxRuns \in Nat

VARIABLES
  disk,        (* contents of the files and the standard streams           *)
  phase,       (* where main is; "idle" between runs                       *)
  cmd,         (* the command line                                         *)
  mod,         (* the parsed module                                        *)
  done,        (* PM.run has returned: all of the output is in the stream  *)
  kept,        (* tool_output_file::keep was called                        *)
  result,      (* what main returns                                        *)
  exit,        (* how the last run ended                                   *)
  before,      (* history: the disk as it was when a run last started or ended *)
  runs         (* runs started so far                                      *)

vars == <<disk, phase, cmd, mod, done, kept, result, exit, before, runs>>

-----------------------------------------------------------------------------
(***************************************************************************)
(* Names.                                                                  *)
(***************************************************************************)

\* Mutant: any extension is stripped.
GetFileNameRoot_Any(name) == IF Len(name) > 1 THEN Front(name) ELSE name

GetFileNameRoot(name) ==
  IF Len(name) > 1 /\ Last(name) \in {"bc", "ll"} THEN Front(name) ELSE name

Extension(type) == CASE type = "asm" -> "s" [] type = "obj" -> "o" [] type = "null" -> "null"

OutputFilename(c) ==
  IF c.out # None THEN c.out
  ELSE IF c.in = Dash THEN Dash ELSE Append(GetFileNameRoot(c.in), Extension(c.type))

\* Where an output file name leads: "-" is the standard output.
Stream(name) == IF name = Dash THEN Stdout ELSE name

Names == Inputs \cup {Stdout} \cup {Stream(OutputFilename(c)) : c \in Commands}

L == INSTANCE LLCSpec

ASSUME EditsAssumption == Edits \subseteq L!Contents

-----------------------------------------------------------------------------
(***************************************************************************)
(* The output file.                                                        *)
(***************************************************************************)
Out      == Stream(OutputFilename(cmd))
IsOpen   == phase \in {"passes", "run", "keep", "close"}

\* The output file is not there.  The standard output stays as it is.
Removed  == IF Out = Stdout THEN disk ELSE [disk EXCEPT ![Out] = L!Absent]

\* A buffer full of output has reached the file.
Flushed  == [disk EXCEPT ![Out] = L!Partial]

\* The whole stream has.  Without output the file is the empty one of the open.
Closed == IF done THEN [disk EXCEPT ![Out] = L!Code(mod, cmd.type)] ELSE disk

-----------------------------------------------------------------------------
(***************************************************************************)
(* main.                                                                   *)
(***************************************************************************)
Init ==
  /\ disk \in [Names -> Edits \cup {L!Absent}] /\ \A n \in Names \ Inputs : disk[n] = L!Absent
  /\ phase = "idle" /\ cmd = None /\ mod = None
  /\ done = FALSE /\ kept = FALSE /\ result = "none" /\ exit = "none"
  /\ before = disk /\ runs = 0

Edit(file, c) ==
  /\ phase = "idle" /\ disk' = [disk EXCEPT ![file] = c] /\ before' = disk'
  /\ UNCHANGED <<phase, cmd, mod, done, kept, result, exit, runs>>

Start(c) ==
  /\ phase = "idle" /\ runs < MaxRuns
  /\ cmd' = c /\ phase' = "parse" /\ runs' = runs + 1
  /\ UNCHANGED <<disk, mod, done, kept, result, exit, before>>

\* The process ends, with this status and these files.
Ends(status, files) ==
  /\ phase' = "idle" /\ exit' = status /\ disk' = files /\ before' = files
  /\ cmd' = None /\ mod' = None /\ done' = FALSE /\ kept' = FALSE /\ result' = "none"
  /\ UNCHANGED runs

\* On to the next phase of main.
Goes(next) == phase' = next /\ UNCHANGED <<cmd, exit, before, runs>>

\* main returns while the output file is open: it is closed first.
Returns(status) == result' = status /\ Goes("close")

\* Mutant: a null module is not noticed.
Parse_Unchecked ==
  /\ phase = "parse" /\ Goes("options") /\ UNCHANGED <<disk, done, kept, result>>
  /\ mod' = IF \E m \in IRs : disk[cmd.in] = L!IR(m)
            THEN CHOOSE m \in IRs : disk[cmd.in] = L!IR(m) ELSE None

\* ParseIRFile has read all of the input when it returns.
Parse ==
  /\ phase = "parse"
  /\ IF \E m \in IRs : disk[cmd.in] = L!IR(m)
     THEN /\ mod' \in {m \in IRs : disk[cmd.in] = L!IR(m)} /\ Goes("options")
          /\ UNCHANGED <<disk, done, kept, result>>
     ELSE Ends("1", disk)

Options ==
  /\ phase = "options"
  /\ IF cmd.level = "x" THEN Ends("1", disk)
     ELSE Goes("open") /\ UNCHANGED <<disk, mod, done, kept, result>>

\* Mutant: the file is kept from the start.
GetOutputStream_Keep ==
  /\ phase = "open" /\ Goes("passes") /\ kept' = TRUE
  /\ disk' = IF Out = Stdout THEN disk ELSE Flushed
  /\ UNCHANGED <<mod, done, result>>

\* The file is created, or truncated, unless that fails.
GetOutputStream ==
  /\ phase = "open"
  /\ \/ /\ Goes("passes") /\ disk' = IF Out = Stdout THEN disk ELSE Flushed
        /\ UNCHANGED <<mod, done, kept, result>>
     \/ Ends("1", disk)

\* The passes to start after and to stop after are looked up, and the target
\* adds its own, with the file open.
AddPasses ==
  /\ phase = "passes"
  /\ \/ "unknown" \notin {cmd.startAfter, cmd.stopAfter}
        /\ Goes("run") /\ UNCHANGED result
     \/ Returns("1")
  /\ UNCHANGED <<disk, mod, done, kept>>

\* PM.run writes, returns, or ends the process on an error of the back end;
\* report_fatal_error and abort remove the file.
Write ==
  /\ phase = "run" /\ disk' = Flushed
  /\ UNCHANGED <<phase, cmd, mod, done, kept, result, exit, before, runs>>

RunReturns ==
  /\ phase = "run" /\ Goes("keep") /\ done' = TRUE /\ UNCHANGED <<disk, mod, kept, result>>

RunFails == phase = "run" /\ Ends("1", Removed)

Keep ==
  /\ phase = "keep" /\ kept' = TRUE /\ Returns("0") /\ UNCHANGED <<disk, mod, done>>

\* The destructor: an error of the stream is fatal, and then the file goes
\* even if it was to be kept.
Close ==
  /\ phase = "close"
  /\ \/ /\ Goes("exit") /\ disk' = IF kept \/ Out = Stdout THEN Closed ELSE Removed
        /\ UNCHANGED <<mod, done, kept, result>>
     \/ Ends("1", IF Out = Stdout /\ done THEN Flushed ELSE Removed)

Exit == phase = "exit" /\ Ends(result, disk)

\* A signal that can be caught removes the file while it is registered.
Signal == phase # "idle" /\ Ends("signal", IF IsOpen THEN Removed ELSE disk)
Kill   == phase # "idle" /\ Ends("killed", disk)

Next ==
  \/ \E c \in Commands : Start(c)
  \/ \E file \in Inputs, c \in Edits : Edit(file, c)
  \/ Parse \/ Options \/ GetOutputStream \/ AddPasses \/ Write \/ RunReturns
  \/ RunFails \/ Keep \/ Close \/ Exit \/ Signal \/ Kill

Spec == Init /\ [][Next]_vars

-----------------------------------------------------------------------------
(***************************************************************************)
(* Properties.                                                             *)
(***************************************************************************)

\* Type invariant.
TypeOK ==
  /\ disk \in [Names -> L!Contents] /\ before \in [Names -> L!Contents]
  /\ phase \in {"idle", "parse", "options", "open", "passes", "run", "keep", "close", "exit"}
  /\ cmd \in (IF phase = "idle" THEN {None} ELSE Commands) /\ runs \in 0 .. MaxRuns
  /\ mod \in IRs \cup {None} /\ (IsOpen => mod \in IRs)
  /\ done \in BOOLEAN /\ kept \in BOOLEAN /\ result \in {"none", "0", "1"}
  /\ exit \in {"none", "0", "1", "signal", "killed"}

\* Seen from outside, a run of main is one step of LLCSpec, taken when the
\* process ends: with exit status 0 the output is the compiled input, as it was
\* when the run started, even if both have the same name; with 1 there is the
\* old output or none, never a part of the new one.
Promise    == INSTANCE LLCSpec WITH disk <- before
Implements == Promise!Spec

\* A run that was not given an output name does not touch its input, whatever
\* the input is called.
InputSurvives == [][phase # "idle" /\ cmd.out = None => disk'[cmd.in] = disk[cmd.in]]_vars
===============================================================================
