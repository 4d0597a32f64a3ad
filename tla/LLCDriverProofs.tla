---------------------------- MODULE LLCDriverProofs ----------------------------
(***************************************************************************)
(* A run of main is one step of LLCSpec, whatever the files, the command   *)
(* lines and the number of runs, and does not touch an input that it was   *)
(* not told to write to.                                                   *)
(***************************************************************************)
EXTENDS LLCDriver, SequenceTheorems, TLAPS

Opened == {"passes", "run", "keep", "close"}

\* The disk with this in the output file.
Holding(c) == [before EXCEPT ![Out] = c]

\* The disk while main runs: the output file is the only one that differs from
\* what was there before, and how it does depends on how far main is.
DiskInv ==
  /\ phase \in {"idle", "parse", "options", "open"} => disk = before
  /\ phase \in Opened => disk \in {before, Holding(L!Partial)}
  /\ phase = "exit" /\ result = "0" => disk = Holding(L!Code(mod, cmd.type))
  /\ phase = "exit" /\ result = "1" =>
       disk \in {before, Holding(IF Out = Stdout THEN L!Partial ELSE L!Absent)}

\* What is known of the module and of the outcome.
PhaseInv ==
  /\ phase \notin {"idle", "parse"} => mod \in IRs /\ before[cmd.in] = L!IR(mod)
  /\ phase \notin {"keep", "close", "exit"} => ~done /\ ~kept
  /\ phase = "keep" => done /\ ~kept
  /\ phase = "close" => \/ result = "0" /\ done /\ kept
                        \/ result = "1" /\ ~done /\ ~kept
  /\ phase = "exit" => result \in {"0", "1"}

IInv == TypeOK /\ DiskInv /\ PhaseInv

-----------------------------------------------------------------------------
(***************************************************************************)
(* Names and contents.                                                     *)
(***************************************************************************)

\* The files a command line names are files.
LEMMA CommandNames ==
  ASSUME NEW c \in Commands
  PROVE  /\ c.in \in Names /\ Stream(OutputFilename(c)) \in Names /\ c.type \in Types
BY CommandsAssumption DEF Command, Names

\* What main writes is something a file may hold.
LEMMA ContentsOK ==
  /\ L!Absent \in L!Contents /\ L!Partial \in L!Contents
  /\ \A m \in IRs, t \in Types : L!Code(m, t) \in L!Contents
BY DEF L!Contents, L!Absent, L!Partial, L!Code

\* A disk with another content in one of its files is a disk.
LEMMA DiskUpdate ==
  ASSUME NEW d \in [Names -> L!Contents], NEW n \in Names, NEW c \in L!Contents
  PROVE  [d EXCEPT ![n] = c] \in [Names -> L!Contents]
OBVIOUS

\* A name derived from the input's is not the input's.
LEMMA DerivedNameDiffers ==
  ASSUME NEW c \in Commands, c.out = None
  PROVE  Stream(OutputFilename(c)) # c.in
<1> DEFINE root == GetFileNameRoot(c.in)
           ext  == Extension(c.type)
<1>1. c.in \in Seq(STRING) /\ c.type \in Types
  BY CommandsAssumption, NamesAssumption DEF Command
<1>2. ext \in {"s", "o", "null"}
  BY <1>1 DEF Types, Extension
<1>3. CASE c.in = Dash
  BY <1>3 DEF OutputFilename, Stream, Dash, Stdout, None
<1>4. CASE c.in # Dash
  <2>1. OutputFilename(c) = Append(root, ext)
    BY <1>4 DEF OutputFilename
  <2>2. root \in Seq(STRING) /\ Len(root) \in Nat /\ Len(c.in) \in Nat
    <3>1. CASE Len(c.in) > 1 /\ Last(c.in) \in {"bc", "ll"}
      <4>1. root = SubSeq(c.in, 1, Len(c.in) - 1)
        BY <3>1 DEF GetFileNameRoot, Front
      <4>2. Len(c.in) \in Nat /\ \A i \in 1 .. Len(c.in) - 1 : c.in[i] \in STRING
        BY <1>1
      <4> QED BY <1>1, <4>1, <4>2, SubSeqProperties
    <3>2. CASE ~(Len(c.in) > 1 /\ Last(c.in) \in {"bc", "ll"})
      BY <1>1, <3>2 DEF GetFileNameRoot
    <3> QED BY <3>1, <3>2
  <2>3. /\ Len(Append(root, ext)) = Len(root) + 1
        /\ Append(root, ext)[Len(root) + 1] = ext
    BY <1>2, <2>2, AppendProperties
  <2>4. Append(root, ext) # c.in
    <3>1. CASE Len(c.in) > 1 /\ Last(c.in) \in {"bc", "ll"}
      <4>1. Append(root, ext) = c.in => Last(c.in) = ext
        BY <2>3 DEF Last
      <4> QED BY <1>2, <3>1, <4>1
    <3>2. CASE ~(Len(c.in) > 1 /\ Last(c.in) \in {"bc", "ll"})
      <4>1. root = c.in
        BY <3>2 DEF GetFileNameRoot
      <4> QED BY <2>2, <2>3, <4>1
    <3> QED BY <3>1, <3>2
  <2>5. Append(root, ext) # Dash
    <3>1. Append(root, ext) = Dash => Len(root) = 0 /\ ext = "-"
      BY <2>2, <2>3 DEF Dash
    <3> QED BY <1>2, <3>1
  <2> QED BY <2>1, <2>4, <2>5 DEF Stream
<1> QED BY <1>3, <1>4

-----------------------------------------------------------------------------
(***************************************************************************)
(* The invariant.                                                          *)
(***************************************************************************)

LEMMA InitEstablishesIInv == Init => IInv
<1> SUFFICES ASSUME Init PROVE IInv
  OBVIOUS
<1>1. disk \in [Names -> L!Contents]
  BY EditsAssumption, ContentsOK DEF Init
<1>2. TypeOK
  <2>1. before \in [Names -> L!Contents] /\ runs \in 0 .. MaxRuns /\ phase = "idle"
    BY <1>1, RunsAssumption DEF Init
  <2>2. cmd = None /\ mod = None /\ done = FALSE /\ kept = FALSE /\ result = "none" /\ exit = "none"
    BY DEF Init
  <2> QED BY <1>1, <2>1, <2>2 DEF TypeOK, IsOpen
<1>3. DiskInv /\ PhaseInv
  BY DEF Init, DiskInv, PhaseInv, Opened
<1> QED BY <1>2, <1>3 DEF IInv

\* When the process ends, only the files need a look.
LEMMA EndsKeepsIInv ==
  ASSUME IInv, NEW s \in {"0", "1", "signal", "killed"}, NEW d \in [Names -> L!Contents],
         Ends(s, d)
  PROVE  IInv'
<1>1. TypeOK'
  BY DEF IInv, TypeOK, Ends, IsOpen
<1>2. DiskInv' /\ PhaseInv'
  BY DEF Ends, DiskInv, PhaseInv, Opened
<1> QED BY <1>1, <1>2 DEF IInv

\* The disks main leaves.
LEMMA Disks ==
  ASSUME IInv, phase # "idle"
  PROVE  /\ cmd \in Commands /\ cmd.in \in Names /\ Out \in Names /\ cmd.type \in Types
         /\ \A c \in L!Contents : Holding(c) \in [Names -> L!Contents]
         /\ disk \in [Names -> L!Contents]
         /\ Removed \in [Names -> L!Contents] /\ Flushed \in [Names -> L!Contents]
         /\ IsOpen => Closed \in [Names -> L!Contents]
<1>1. cmd \in Commands
  BY DEF IInv, TypeOK
<1>2. cmd.in \in Names /\ Out \in Names /\ cmd.type \in Types
  BY <1>1, CommandNames DEF Out
<1>3. disk \in [Names -> L!Contents] /\ before \in [Names -> L!Contents]
  BY DEF IInv, TypeOK
<1>4. \A c \in L!Contents : Holding(c) \in [Names -> L!Contents]
  BY <1>2, <1>3 DEF Holding
<1>5. Removed \in [Names -> L!Contents] /\ Flushed \in [Names -> L!Contents]
  BY <1>2, <1>3, ContentsOK DEF Removed, Flushed
<1>6. IsOpen => mod \in IRs
  BY DEF IInv, TypeOK
<1>7. IsOpen => Closed \in [Names -> L!Contents]
  BY <1>2, <1>3, <1>6, ContentsOK DEF Closed
<1> QED BY <1>1, <1>2, <1>3, <1>4, <1>5, <1>7

\* Writing to the output file of a disk that differs in it only.
LEMMA Overwritten ==
  ASSUME IInv, phase \in Opened, NEW c \in L!Contents
  PROVE  [disk EXCEPT ![Out] = c] = Holding(c)
<1>1. disk \in {before, Holding(L!Partial)}
  BY DEF IInv, DiskInv
<1>2. before \in [Names -> L!Contents]
  BY DEF IInv, TypeOK
<1> QED BY <1>1, <1>2 DEF Holding

LEMMA StepKeepsIInv == IInv /\ [Next]_vars => IInv'
<1> SUFFICES ASSUME IInv, [Next]_vars PROVE IInv'
  OBVIOUS
<1> USE DEF IInv
<1>1. ASSUME NEW c \in Commands, Start(c) PROVE IInv'
  <2>1. TypeOK'
    BY <1>1, RunsAssumption DEF TypeOK, Start, IsOpen
  <2>2. DiskInv' /\ PhaseInv'
    BY <1>1 DEF DiskInv, PhaseInv, Start, Opened
  <2> QED BY <2>1, <2>2
<1>2. ASSUME NEW file \in Inputs, NEW c \in Edits, Edit(file, c) PROVE IInv'
  <2>1. file \in Names /\ c \in L!Contents
    BY EditsAssumption DEF Names
  <2>2. disk' \in [Names -> L!Contents]
    BY <1>2, <2>1 DEF TypeOK, Edit
  <2>3. TypeOK'
    BY <1>2, <2>2 DEF TypeOK, Edit, IsOpen
  <2>4. DiskInv' /\ PhaseInv'
    BY <1>2 DEF DiskInv, PhaseInv, Edit, Opened
  <2> QED BY <2>3, <2>4
<1>3. CASE Parse
  <2>1. CASE \E m \in IRs : disk[cmd.in] = L!IR(m)
    <3>1. TypeOK'
      BY <1>3, <2>1 DEF TypeOK, Parse, Goes, IsOpen
    <3>2. DiskInv' /\ PhaseInv'
      BY <1>3, <2>1 DEF DiskInv, PhaseInv, Parse, Goes, Opened
    <3> QED BY <3>1, <3>2
  <2>2. CASE ~ \E m \in IRs : disk[cmd.in] = L!IR(m)
    BY <1>3, <2>2, Disks, EndsKeepsIInv DEF Parse
  <2> QED BY <2>1, <2>2
<1>4. CASE Options
  <2>1. CASE cmd.level = "x"
    BY <1>4, <2>1, Disks, EndsKeepsIInv DEF Options
  <2>2. CASE cmd.level # "x"
    <3>1. TypeOK'
      BY <1>4, <2>2 DEF TypeOK, Options, Goes, IsOpen
    <3>2. DiskInv' /\ PhaseInv'
      BY <1>4, <2>2 DEF DiskInv, PhaseInv, Options, Goes, Opened
    <3> QED BY <3>1, <3>2
  <2> QED BY <2>1, <2>2
<1>5. CASE GetOutputStream
  <2>1. CASE Ends("1", disk)
    BY <1>5, <2>1, Disks, EndsKeepsIInv DEF GetOutputStream
  <2>2. CASE /\ Goes("passes") /\ disk' = IF Out = Stdout THEN disk ELSE Flushed
             /\ UNCHANGED <<mod, done, kept, result>>
    <3>1. disk' \in [Names -> L!Contents]
      BY <1>5, <2>2, Disks DEF GetOutputStream
    <3>2. phase = "open" /\ disk = before
      BY <1>5 DEF GetOutputStream, DiskInv
    <3>3. TypeOK'
      BY <2>2, <3>1, <3>2 DEF TypeOK, PhaseInv, Goes, IsOpen
    <3>4. DiskInv'
      BY <2>2, <3>2 DEF DiskInv, Goes, Opened, Flushed, Holding, Out
    <3>5. PhaseInv'
      BY <2>2, <3>2 DEF PhaseInv, Goes
    <3> QED BY <3>3, <3>4, <3>5
  <2> QED BY <1>5, <2>1, <2>2 DEF GetOutputStream
<1>6. CASE AddPasses
  <2>1. TypeOK'
    BY <1>6 DEF TypeOK, AddPasses, Returns, Goes, IsOpen
  <2>2. DiskInv' /\ PhaseInv'
    BY <1>6 DEF DiskInv, PhaseInv, AddPasses, Returns, Goes, Opened, Holding, Out
  <2> QED BY <2>1, <2>2
<1>7. CASE Write
  <2>1. disk' = Holding(L!Partial) /\ disk' \in [Names -> L!Contents]
    BY <1>7, Overwritten, ContentsOK, Disks DEF Write, Flushed, Opened
  <2>2. TypeOK'
    BY <1>7, <2>1 DEF TypeOK, Write, IsOpen
  <2>3. DiskInv' /\ PhaseInv'
    BY <1>7, <2>1 DEF DiskInv, PhaseInv, Write, Opened, Holding, Out
  <2> QED BY <2>2, <2>3
<1>8. CASE RunReturns
  <2>1. TypeOK'
    BY <1>8 DEF TypeOK, RunReturns, Goes, IsOpen
  <2>2. DiskInv' /\ PhaseInv'
    BY <1>8 DEF DiskInv, PhaseInv, RunReturns, Goes, Opened, Holding, Out
  <2> QED BY <2>1, <2>2
<1>9. CASE RunFails
  BY <1>9, Disks, EndsKeepsIInv DEF RunFails
<1>10. CASE Keep
  <2>1. TypeOK'
    BY <1>10 DEF TypeOK, Keep, Returns, Goes, IsOpen
  <2>2. DiskInv' /\ PhaseInv'
    BY <1>10 DEF DiskInv, PhaseInv, Keep, Returns, Goes, Opened, Holding, Out
  <2> QED BY <2>1, <2>2
<1>11. CASE Close
  <2>1. CASE Ends("1", IF Out = Stdout /\ done THEN Flushed ELSE Removed)
    BY <1>11, <2>1, Disks, EndsKeepsIInv DEF Close
  <2>2. CASE /\ Goes("exit") /\ disk' = IF kept \/ Out = Stdout THEN Closed ELSE Removed
             /\ UNCHANGED <<mod, done, kept, result>>
    <3>1. phase = "close" /\ IsOpen /\ phase \in Opened /\ phase # "idle"
      BY <1>11 DEF Close, IsOpen, Opened
    <3>2. disk' \in [Names -> L!Contents]
      BY <2>2, <3>1, Disks
    <3>3. TypeOK'
      BY <2>2, <3>1, <3>2 DEF TypeOK, Goes, IsOpen
    <3>4. PhaseInv'
      BY <2>2, <3>1 DEF PhaseInv, Goes
    <3>5. DiskInv'
      <4>1. CASE result = "0" /\ done /\ kept
        <5>1. L!Code(mod, cmd.type) \in L!Contents
          BY <3>1, Disks, ContentsOK DEF TypeOK
        <5>2. disk' = Holding(L!Code(mod, cmd.type))
          BY <2>2, <4>1, <5>1, <3>1, Overwritten DEF Closed
        <5> QED BY <2>2, <4>1, <5>2 DEF DiskInv, Goes, Opened, Holding, Out
      <4>2. CASE result = "1" /\ ~done /\ ~kept
        <5>1. disk \in {before, Holding(L!Partial)}
          BY <3>1 DEF DiskInv
        <5>2. Out # Stdout => disk' = Holding(L!Absent)
          BY <2>2, <4>2, <3>1, Overwritten, ContentsOK DEF Removed
        <5>3. Out = Stdout => disk' = disk
          BY <2>2, <4>2 DEF Closed
        <5> QED BY <2>2, <4>2, <5>1, <5>2, <5>3 DEF DiskInv, Goes, Opened, Holding, Out
      <4> QED BY <3>1, <4>1, <4>2 DEF PhaseInv
    <3> QED BY <3>3, <3>4, <3>5
  <2> QED BY <1>11, <2>1, <2>2 DEF Close
<1>12. CASE Exit
  <2>1. phase = "exit" /\ result \in {"0", "1"}
    BY <1>12 DEF Exit, PhaseInv
  <2> QED BY <1>12, <2>1, Disks, EndsKeepsIInv DEF Exit
<1>13. CASE Signal
  BY <1>13, Disks, EndsKeepsIInv DEF Signal
<1>14. CASE Kill
  BY <1>14, Disks, EndsKeepsIInv DEF Kill
<1>15. CASE UNCHANGED vars
  BY <1>15 DEF TypeOK, DiskInv, PhaseInv, vars, IsOpen, Opened, Holding, Out
<1> QED
  BY <1>1, <1>2, <1>3, <1>4, <1>5, <1>6, <1>7, <1>8, <1>9, <1>10, <1>11, <1>12, <1>13,
     <1>14, <1>15 DEF Next

LEMMA InvariantHolds == Spec => []IInv
<1>1. Init => IInv
  BY InitEstablishesIInv
<1>2. IInv /\ [Next]_vars => IInv'
  BY StepKeepsIInv
<1> QED BY <1>1, <1>2, PTL DEF Spec

\* The state of the driver is well typed; while the output file is open there is
\* a module to compile.
THEOREM TypeCorrect == Spec => []TypeOK
<1>1. IInv => TypeOK
  BY DEF IInv
<1> QED BY <1>1, InvariantHolds, PTL

-----------------------------------------------------------------------------
(***************************************************************************)
(* Refinement.                                                             *)
(***************************************************************************)

\* A process that ends with its output complete has compiled.
LEMMA EndCompiled ==
  ASSUME IInv, phase \notin {"idle", "parse"}, NEW s, NEW d,
         before' = d, exit' = s, d = Holding(L!Code(mod, cmd.type))
  PROVE  before' \in Promise!Compiled(cmd.in, Out, cmd.type)
BY DEF IInv, PhaseInv, Promise!Compiled, Promise!IR, Promise!Code, L!IR, L!Code, Holding

\* One that ends without has not.
LEMMA EndRefused ==
  ASSUME IInv, phase # "idle", NEW d, before' = d,
         d \in {before, Holding(IF Out = Stdout THEN L!Partial ELSE L!Absent)}
  PROVE  before' \in Promise!Refused(Out)
BY DEF Promise!Refused, Promise!Partial, Promise!Absent, L!Partial, L!Absent, Holding

\* What is there once the file has been removed.
LEMMA RemovedIsRefused ==
  ASSUME IInv, phase \in Opened
  PROVE  Removed \in {before, Holding(IF Out = Stdout THEN L!Partial ELSE L!Absent)}
<1>1. CASE Out = Stdout
  BY <1>1 DEF IInv, DiskInv, Removed
<1>2. CASE Out # Stdout
  BY <1>2, Overwritten, ContentsOK DEF Removed
<1> QED BY <1>1, <1>2

LEMMA StepRefines == IInv /\ [Next]_vars => [Promise!Next]_<<before, exit>>
<1> SUFFICES ASSUME IInv, [Next]_vars, ~ UNCHANGED <<before, exit>>
             PROVE  Promise!Next
  OBVIOUS
<1> USE DEF IInv
<1>1. phase # "idle" => cmd.in \in Names /\ Out \in Names /\ cmd.type \in Types
  BY Disks
<1>2. ASSUME phase # "idle", Promise!Refuse(Out) PROVE Promise!Next
  BY <1>1, <1>2 DEF Promise!Next
<1>3. ASSUME NEW c \in Commands, Start(c) PROVE FALSE
  BY <1>3 DEF Start
<1>4. ASSUME NEW file \in Inputs, NEW c \in Edits, Edit(file, c) PROVE Promise!Next
  <2>1. file \in Names /\ c \in Promise!Contents
    BY EditsAssumption DEF Names, L!Contents, L!Absent, L!Partial, L!IR, L!Code,
       Promise!Contents, Promise!Absent, Promise!Partial, Promise!IR, Promise!Code
  <2>2. disk = before
    BY <1>4 DEF Edit, DiskInv
  <2>3. Promise!Edit(file, c)
    BY <1>4, <2>2 DEF Edit, Promise!Edit
  <2> QED BY <2>1, <2>3 DEF Promise!Next
<1>5. CASE Parse
  <2>1. phase # "idle" /\ before' = before /\ exit' = "1"
    BY <1>5 DEF Parse, Goes, Ends, DiskInv
  <2> QED BY <1>2, <2>1, EndRefused DEF Promise!Refuse
<1>6. CASE Options
  <2>1. phase # "idle" /\ before' = before /\ exit' = "1"
    BY <1>6 DEF Options, Goes, Ends, DiskInv
  <2> QED BY <1>2, <2>1, EndRefused DEF Promise!Refuse
<1>7. CASE GetOutputStream
  <2>1. phase # "idle" /\ before' = before /\ exit' = "1"
    BY <1>7 DEF GetOutputStream, Goes, Ends, DiskInv
  <2> QED BY <1>2, <2>1, EndRefused DEF Promise!Refuse
<1>8. CASE AddPasses \/ Write \/ RunReturns \/ Keep
  BY <1>8 DEF AddPasses, Write, RunReturns, Keep, Returns, Goes
<1>9. CASE RunFails
  <2>1. phase \in Opened /\ phase # "idle" /\ before' = Removed /\ exit' = "1"
    BY <1>9 DEF RunFails, Ends, Opened
  <2> QED BY <1>2, <2>1, RemovedIsRefused, EndRefused DEF Promise!Refuse
<1>10. CASE Close
  <2>1. /\ phase \in Opened /\ phase # "idle" /\ exit' = "1"
        /\ before' = IF Out = Stdout /\ done THEN Flushed ELSE Removed
    BY <1>10 DEF Close, Goes, Ends, Opened
  <2>2. before' \in {before, Holding(IF Out = Stdout THEN L!Partial ELSE L!Absent)}
    BY <2>1, Overwritten, ContentsOK, RemovedIsRefused DEF Flushed
  <2> QED BY <1>2, <2>1, <2>2, EndRefused DEF Promise!Refuse
<1>11. CASE Exit
  <2>1. phase = "exit" /\ before' = disk /\ exit' = result /\ result \in {"0", "1"}
    BY <1>11 DEF Exit, Ends, PhaseInv
  <2>2. CASE result = "0"
    <3>1. before' \in Promise!Compiled(cmd.in, Out, cmd.type)
      BY <2>1, <2>2, EndCompiled DEF DiskInv
    <3> QED BY <1>1, <2>1, <2>2, <3>1 DEF Promise!Next, Promise!Compile
  <2>3. CASE result = "1"
    BY <1>2, <2>1, <2>3, EndRefused DEF DiskInv, Promise!Refuse
  <2> QED BY <2>1, <2>2, <2>3
<1>12. CASE Signal
  <2>1. phase # "idle" /\ exit' = "signal" /\ before' = IF IsOpen THEN Removed ELSE disk
    BY <1>12 DEF Signal, Ends
  <2>2. before' \in Promise!Refused(Out) \cup Promise!Compiled(cmd.in, Out, cmd.type)
    <3>1. CASE IsOpen
      BY <2>1, <3>1, RemovedIsRefused, EndRefused DEF IsOpen, Opened
    <3>2. CASE phase = "exit" /\ result = "0"
      BY <2>1, <3>2, EndCompiled DEF DiskInv, IsOpen
    <3>3. CASE phase = "exit" /\ result = "1"
      BY <2>1, <3>3, EndRefused DEF DiskInv, IsOpen
    <3>4. CASE phase \in {"parse", "options", "open"}
      BY <2>1, <3>4, EndRefused DEF DiskInv, IsOpen
    <3> QED BY <2>1, <3>1, <3>2, <3>3, <3>4 DEF TypeOK, IsOpen, PhaseInv
  <2> QED BY <1>1, <2>1, <2>2 DEF Promise!Next, Promise!Interrupt
<1>13. CASE Kill
  <2>1. phase # "idle" /\ exit' = "killed" /\ before' = disk
    BY <1>13 DEF Kill, Ends
  <2>2. before' \in Promise!Refused(Out) \cup {[before EXCEPT ![Out] = Promise!Partial]}
                      \cup Promise!Compiled(cmd.in, Out, cmd.type)
    <3>1. CASE phase \in Opened
      <4>1. Holding(L!Partial) = [before EXCEPT ![Out] = Promise!Partial]
        BY DEF Holding, L!Partial, Promise!Partial
      <4>2. before \in Promise!Refused(Out)
        BY DEF Promise!Refused
      <4> QED BY <2>1, <3>1, <4>1, <4>2 DEF DiskInv
    <3>2. CASE phase = "exit" /\ result = "0"
      BY <2>1, <3>2, EndCompiled DEF DiskInv
    <3>3. CASE phase = "exit" /\ result = "1"
      BY <2>1, <3>3, EndRefused DEF DiskInv
    <3>4. CASE phase \in {"parse", "options", "open"}
      BY <2>1, <3>4, EndRefused DEF DiskInv
    <3> QED BY <2>1, <3>1, <3>2, <3>3, <3>4 DEF TypeOK, Opened, PhaseInv
  <2> QED BY <1>1, <2>1, <2>2 DEF Promise!Next, Promise!Kill
<1>14. CASE UNCHANGED vars
  BY <1>14 DEF vars
<1> QED
  BY <1>3, <1>4, <1>5, <1>6, <1>7, <1>8, <1>9, <1>10, <1>11, <1>12, <1>13, <1>14 DEF Next

\* The driver implements LLCSpec: seen from outside, a run of main is one step, at
\* whose end the output is complete or was given up, for any command lines.
THEOREM DriverImplements == Spec => Implements
<1>1. Init => Promise!Init
  <2>1. Init => IInv
    BY InitEstablishesIInv
  <2>2. L!Contents = Promise!Contents
    BY DEF L!Contents, L!Absent, L!Partial, L!IR, L!Code,
       Promise!Contents, Promise!Absent, Promise!Partial, Promise!IR, Promise!Code
  <2> QED BY <2>1, <2>2 DEF Init, Promise!Init, IInv, TypeOK
<1>2. IInv /\ [Next]_vars => [Promise!Next]_<<before, exit>>
  BY StepRefines
<1> QED BY <1>1, <1>2, InvariantHolds, PTL DEF Spec, Implements, Promise!Spec

-----------------------------------------------------------------------------
(***************************************************************************)
(* The input.                                                              *)
(***************************************************************************)

LEMMA StepKeepsInput ==
  IInv /\ [Next]_vars =>
    [phase # "idle" /\ cmd.out = None => disk'[cmd.in] = disk[cmd.in]]_vars
<1> SUFFICES ASSUME IInv, Next, phase # "idle", cmd.out = None
             PROVE  disk'[cmd.in] = disk[cmd.in]
  OBVIOUS
<1>1. cmd.in # Out
  BY Disks, DerivedNameDiffers DEF Out
<1>2. Removed[cmd.in] = disk[cmd.in] /\ Flushed[cmd.in] = disk[cmd.in] /\ Closed[cmd.in] = disk[cmd.in]
  BY <1>1, Disks DEF Removed, Flushed, Closed
<1>3. disk' \in {disk, Removed, Flushed, Closed}
  BY DEF Next, Start, Edit, Parse, Options, GetOutputStream, AddPasses, Write, RunReturns,
     RunFails, Keep, Close, Exit, Signal, Kill, Ends, Goes, Returns
<1> QED BY <1>2, <1>3

\* Without -o, no input is ever overwritten, by whatever name it goes.
THEOREM InputsSurvive == Spec => InputSurvives
<1>1. IInv /\ [Next]_vars =>
        [phase # "idle" /\ cmd.out = None => disk'[cmd.in] = disk[cmd.in]]_vars
  BY StepKeepsInput
<1> QED BY <1>1, InvariantHolds, PTL DEF Spec, InputSurvives
===============================================================================
