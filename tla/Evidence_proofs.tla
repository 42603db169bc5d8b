-------------------------- MODULE Evidence_proofs --------------------------
(***************************************************************************)
(* Proofs about Evidence: for any number of commands, any experiments and  *)
(* any faults, what the files hold was measured to its end, a summary says *)
(* of itself what is true, a manifest with exit code 0 is about a          *)
(* measurement that passed, and no demo changes canonical evidence.        *)
(***************************************************************************)
EXTENDS Evidence, FiniteSetTheorems, TLAPS

-----------------------------------------------------------------------------
(* The invariant.                                                          *)

Entries == [kind : Kinds, set : ParameterSets, by : SUBSET Run]
RunRecords ==
  [kind : Kinds \cup {"summary", "none"}, set : ParameterSets, via : Ways \cup {"none"}, pc : Places,
   rc : {0, 2}, measured : BOOLEAN, passed : BOOLEAN, read : SUBSET Kinds, missing : Nat,
   seen : SUBSET Entries, status : {"none", "COMPLETE", "PARTIAL"}]

Types ==
  /\ run \in [Run -> RunRecords]
  /\ evidence \in [Kinds -> [ParameterSets -> FileStates]]
  /\ trials \in [Kinds -> [ParameterSets -> FileStates]]
  /\ final \in FileStates
  /\ manifest \in [Run -> {"none", "text", "both"}]

\* Where a command writes what it has measured.
AfterPlaces == {"save", "saved", "open", "close"}

\* A command has an experiment of its own from the start to its result file,
\* and it has measured when it comes to the files it writes after that.
PlaceInv ==
  \A n \in Run :
    /\ run[n].pc \in AfterPlaces \cup {"openTrials", "measure"} => run[n].kind \in Kinds
    /\ run[n].pc \in {"summarise", "section"} => run[n].kind = "summary"
    /\ run[n].pc \in AfterPlaces => run[n].measured
    /\ run[n].via = "demo" => run[n].pc # "none" /\ run[n].set = DemoSet

\* An empty file belongs to the last command that opened it, which has not
\* closed it yet; a full one to commands that have measured.  The bytes of
\* demos are not in files with canonical parameters.
FileInv ==
  \A k \in Kinds, s \in ParameterSets :
    /\ evidence[k][s].state = "full" => \A n \in evidence[k][s].by : run[n].measured
    /\ evidence[k][s].state = "empty" =>
         \E n \in evidence[k][s].by :
           run[n].kind = k /\ run[n].set = s /\ run[n].pc \in {"close", "killed"}
    /\ \A n \in evidence[k][s].by :
         run[n].pc # "none" /\ (s = "canonical" => run[n].via # "demo")

\* The file beside the result is there, for the commands that look.
Saved(n) ==
  run[n].kind \in (EarlyKinds \cup LateKinds) \ IndifferentKinds => TrialsWritten(n)

\* A command that comes to its result file with exit code 0 has the file
\* beside it; and those hold no bytes of demos either.
TrialInv ==
  /\ \A n \in Run : run[n].pc \in {"open", "close"} /\ run[n].rc = 0 => Saved(n)
  /\ \A k \in Kinds, s \in ParameterSets : \A n \in trials[k][s].by :
       run[n].pc # "none" /\ (s = "canonical" => run[n].via # "demo")

\* What a command can show for its exit code 0.
Shown(n) ==
  /\ run[n].kind \in Kinds
  /\ run[n].measured /\ run[n].passed
  /\ ResultWritten(n) \/ run[n].kind \in IndifferentKinds
  /\ Saved(n)

\* Past its files, or recorded, with exit code 0: it can show for it.
CodeInv ==
  \A n \in Run :
    /\ manifest[n] # "none" => run[n].pc \in {"csv", "done", "killed"}
    /\ (run[n].pc \in {"txt", "csv", "done"} \/ manifest[n] # "none")
         /\ run[n].rc = 0 /\ run[n].kind # "summary" => Shown(n)

Unseen(n) == {k \in run[n].read : \A e \in run[n].seen : e.kind # k}

\* What a summary has read, whatever has become of the files since.
SummaryInv ==
  \A n \in Run :
    /\ IsFiniteSet(run[n].read)
    /\ \A e \in run[n].seen : e.kind \in run[n].read /\ \A m \in e.by : run[m].measured
    /\ run[n].missing = Cardinality(Unseen(n))
    /\ run[n].status # "none" =>
         run[n].read = Kinds /\ (run[n].status = "COMPLETE" <=> run[n].missing = 0)

IInv == Types /\ PlaceInv /\ FileInv /\ TrialInv /\ CodeInv /\ SummaryInv
-----------------------------------------------------------------------------
(* A command that goes on.                                                 *)

\* The other commands stay as they are.
OnlyMoves(n) ==
  /\ run' \in [Run -> RunRecords]
  /\ \A m \in Run : m # n => run'[m] = run[m]

\* What a command is does not change once it was started, and neither does
\* what its summary has read but in the steps that read.
SameCommand(n) ==
  /\ run'[n].kind = run[n].kind /\ run'[n].set = run[n].set /\ run'[n].via = run[n].via
  /\ run[n].pc # "none" /\ run'[n].pc # "none"
SameReading(n) ==
  /\ run'[n].read = run[n].read /\ run'[n].missing = run[n].missing
  /\ run'[n].seen = run[n].seen /\ run'[n].status = run[n].status

\* It goes to place p with exit code c.
GoesTo(n, p, c) ==
  /\ OnlyMoves(n) /\ SameCommand(n) /\ SameReading(n)
  /\ run'[n].measured = run[n].measured /\ run'[n].passed = run[n].passed
  /\ run'[n].pc = p /\ run'[n].rc = c

\* A step from one place to another changes nothing else of the command.
LEMMA StepGoes ==
  ASSUME Types, NEW n \in Run, NEW p \in Places \ {"none"}, run[n].pc # "none", Step(n, p)
  PROVE  GoesTo(n, p, run[n].rc)
BY DEF Types, Step, GoesTo, OnlyMoves, SameCommand, SameReading, RunRecords

\* A command that is done goes to its manifest with what it returns.
LEMMA ReturnGoes ==
  ASSUME Types, NEW n \in Run, run[n].pc # "none", NEW c \in {0, 2},
         run' = [run EXCEPT ![n].pc = "txt", ![n].rc = c]
  PROVE  GoesTo(n, "txt", c)
<1>1. run \in [Run -> RunRecords] /\ run[n] \in RunRecords
  BY DEF Types
<1>2. /\ DOMAIN run' = Run /\ run'[n] = [run[n] EXCEPT !.pc = "txt", !.rc = c]
      /\ run' = [m \in Run |-> run'[m]]
      /\ \A m \in Run : m # n => run'[m] = run[m]
  BY <1>1
<1>3. run'[n] \in RunRecords
  BY <1>1, <1>2 DEF RunRecords, Places
<1>4. run' \in [Run -> RunRecords]
  BY <1>1, <1>2, <1>3
<1> QED
  BY <1>1, <1>2, <1>4 DEF GoesTo, OnlyMoves, SameCommand, SameReading, RunRecords

\* What is returned of a failure, and of a measurement.
LEMMA FailGoes ==
  ASSUME Types, NEW n \in Run, run[n].pc # "none", Fail(n)
  PROVE  GoesTo(n, "txt", 2)
BY ReturnGoes DEF Fail

LEMMA CodeGoes ==
  ASSUME Types, NEW n \in Run, run[n].pc # "none",
         run' = [run EXCEPT ![n].pc = "txt", ![n].rc = CodeOf(n)]
  PROVE  GoesTo(n, "txt", CodeOf(n)) /\ (CodeOf(n) = 0 <=> run[n].passed /\ run[n].rc = 0)
<1>1. CodeOf(n) \in {0, 2} /\ (CodeOf(n) = 0 <=> run[n].passed /\ run[n].rc = 0)
  BY DEF CodeOf
<1> QED
  BY <1>1, ReturnGoes

-----------------------------------------------------------------------------
(* What a command that goes on cannot disturb.                             *)

\* What summaries have read stays measured.
LEMMA SummaryStays ==
  ASSUME Types, SummaryInv, NEW n \in Run, OnlyMoves(n), SameReading(n),
         run[n].measured => run'[n].measured
  PROVE  SummaryInv'
<1>1. \A m \in Run :
        /\ run'[m].read = run[m].read /\ run'[m].missing = run[m].missing
        /\ run'[m].seen = run[m].seen /\ run'[m].status = run[m].status
        /\ run[m].measured => run'[m].measured
  BY DEF OnlyMoves, SameReading
<1>2. \A m \in Run : Unseen(m)' = Unseen(m)
  BY <1>1 DEF Unseen
<1>3. \A m \in Run : \A e \in run[m].seen : e.by \subseteq Run
  BY DEF Types, RunRecords, Entries
<1> QED
  BY <1>1, <1>2, <1>3 DEF SummaryInv

\* The places of a command that goes to p.
LEMMA PlaceStays ==
  ASSUME Types, PlaceInv, NEW n \in Run, OnlyMoves(n), SameCommand(n),
         run'[n].pc \in AfterPlaces \cup {"openTrials", "measure"} => run[n].kind \in Kinds,
         run'[n].pc \in {"summarise", "section"} => run[n].kind = "summary",
         run'[n].pc \in AfterPlaces => run'[n].measured
  PROVE  PlaceInv'
BY DEF PlaceInv, OnlyMoves, SameCommand

\* The files, which are touched only by a command that is about to close one.
LEMMA FileStays ==
  ASSUME Types, FileInv, NEW n \in Run, OnlyMoves(n), SameCommand(n), UNCHANGED evidence,
         run[n].measured => run'[n].measured,
         run[n].pc \in {"close", "killed"} => run'[n].pc = "killed"
  PROVE  FileInv'
<1>1. \A m \in Run :
        /\ run'[m].kind = run[m].kind /\ run'[m].set = run[m].set /\ run'[m].via = run[m].via
        /\ run[m].pc # "none" => run'[m].pc # "none"
        /\ run[m].measured => run'[m].measured
        /\ run[m].pc \in {"close", "killed"} => run'[m].pc \in {"close", "killed"}
  BY DEF OnlyMoves, SameCommand
<1>2. \A k \in Kinds, s \in ParameterSets : evidence[k][s].by \subseteq Run
  BY DEF Types, FileStates
<1> QED
  BY <1>1, <1>2 DEF FileInv

\* The files, where a command that has measured opens or closes its own: it
\* is among those whose bytes are in it, and who else is was so before.
LEMMA NewFile ==
  ASSUME IInv, NEW n \in Run, OnlyMoves(n), SameCommand(n),
         run[n].kind \in Kinds, run[n].set \in ParameterSets,
         run[n].measured, run'[n].measured,
         NEW f,
         \/ f = [state |-> "empty", by |-> {n}] /\ run'[n].pc = "close"
         \/ f = [state |-> "full", by |-> {n}]
         \/ /\ evidence[run[n].kind][run[n].set].state = "full"
            /\ f = [state |-> "full", by |-> evidence[run[n].kind][run[n].set].by \cup {n}],
         \A k \in Kinds, s \in ParameterSets :
           evidence'[k][s] = IF k = run[n].kind /\ s = run[n].set THEN f ELSE evidence[k][s]
  PROVE  FileInv'
<1> DEFINE kind == run[n].kind  set == run[n].set
<1>1. \A m \in Run :
        /\ run'[m].kind = run[m].kind /\ run'[m].set = run[m].set /\ run'[m].via = run[m].via
        /\ run[m].pc # "none" => run'[m].pc # "none"
        /\ run[m].measured => run'[m].measured
        /\ m # n => run'[m].pc = run[m].pc
  BY DEF OnlyMoves, SameCommand
<1>2. \A k \in Kinds, s \in ParameterSets : evidence[k][s].by \subseteq Run
  BY DEF IInv, Types, FileStates
<1>3. run[n].pc # "none" /\ (set = "canonical" => run[n].via # "demo")
  BY DEF SameCommand, IInv, PlaceInv, DemoSet
<1>4. /\ f.state = "full" => \A m \in f.by : run'[m].measured
      /\ f.state = "empty" => run'[n].pc = "close" /\ n \in f.by
      /\ \A m \in f.by : m \in Run /\ run'[m].pc # "none" /\ (set = "canonical" => run'[m].via # "demo")
  <2>1. \A m \in evidence[kind][set].by :
          /\ evidence[kind][set].state = "full" => run[m].measured
          /\ run[m].pc # "none" /\ (set = "canonical" => run[m].via # "demo")
    BY DEF IInv, FileInv
  <2> HIDE DEF kind, set
  <2>2. \A m \in evidence[kind][set].by : m \in Run
    BY <1>2 DEF kind, set
  <2> QED
    BY <1>1, <1>3, <2>1, <2>2 DEF kind, set
<1>5. ASSUME NEW k \in Kinds, NEW s \in ParameterSets, ~ (k = kind /\ s = set)
      PROVE  /\ evidence'[k][s] = evidence[k][s]
             /\ \A m \in evidence[k][s].by : run[m].kind = k /\ run[m].set = s => m # n
  BY <1>5
<1> QED
  BY <1>1, <1>2, <1>4, <1>5 DEF IInv, FileInv

\* The file beside the result, if a step touches one: the command's own, and
\* who else has bytes in it had so before.
OwnTrials(n) ==
  \/ UNCHANGED trials
  \/ /\ run[n].kind \in Kinds
     /\ \E f \in FileStates :
          /\ n \in f.by /\ f.by \subseteq trials[run[n].kind][run[n].set].by \cup {n}
          /\ trials' = [trials EXCEPT ![run[n].kind][run[n].set] = f]

\* A file that has bytes never loses them all.
LEMMA TrialsGrow ==
  ASSUME Types, NEW n \in Run, OwnTrials(n)
  PROVE  /\ trials' \in [Kinds -> [ParameterSets -> FileStates]]
         /\ \A k \in Kinds, s \in ParameterSets :
              /\ trials[k][s].by # {} => trials'[k][s].by # {}
              /\ trials'[k][s].by \subseteq trials[k][s].by \cup {n}
              /\ n \in trials'[k][s].by \ trials[k][s].by => s = run[n].set
<1>1. CASE UNCHANGED trials
  BY <1>1 DEF Types
<1>2. CASE ~ UNCHANGED trials
  <2>1. PICK f \in FileStates :
          /\ n \in f.by /\ f.by \subseteq trials[run[n].kind][run[n].set].by \cup {n}
          /\ trials' = [trials EXCEPT ![run[n].kind][run[n].set] = f]
    BY <1>2 DEF OwnTrials
  <2>2. run[n].kind \in Kinds /\ run[n].set \in ParameterSets
    BY <1>2 DEF OwnTrials, Types, RunRecords
  <2>3. \A k \in Kinds, s \in ParameterSets :
          trials'[k][s] = IF k = run[n].kind /\ s = run[n].set THEN f ELSE trials[k][s]
    BY <2>1, <2>2 DEF Types
  <2>4. trials' \in [Kinds -> [ParameterSets -> FileStates]]
    BY <2>1, <2>2 DEF Types
  <2> QED
    BY <2>1, <2>3, <2>4
<1> QED
  BY <1>1, <1>2

\* What another command has beside its result stays there.
LEMMA SavedStays ==
  ASSUME Types, NEW n \in Run, OwnTrials(n), NEW m \in Run,
         run'[m].kind = run[m].kind, run'[m].set = run[m].set, run[m].kind \in Kinds, Saved(m)
  PROVE  Saved(m)'
<1>1. run[m].set \in ParameterSets
  BY DEF Types, RunRecords
<1> QED
  BY <1>1, TrialsGrow DEF Saved, TrialsWritten

\* The files beside the results, once the command that moves has its own
\* when it comes to its result file.
LEMMA TrialsStay ==
  ASSUME Types, PlaceInv, TrialInv, NEW n \in Run, OnlyMoves(n), SameCommand(n), OwnTrials(n),
         run'[n].pc \in {"open", "close"} /\ run'[n].rc = 0 => Saved(n)'
  PROVE  TrialInv'
<1>1. \A m \in Run :
        /\ run'[m].kind = run[m].kind /\ run'[m].set = run[m].set /\ run'[m].via = run[m].via
        /\ run[m].pc # "none" => run'[m].pc # "none"
        /\ m # n => run'[m] = run[m]
  BY DEF OnlyMoves, SameCommand
<1>2. ASSUME NEW m \in Run, run'[m].pc \in {"open", "close"}, run'[m].rc = 0
      PROVE  Saved(m)'
  <2>1. CASE m = n
    BY <1>2, <2>1
  <2>2. CASE m # n
    <3>1. run[m].pc \in {"open", "close"} /\ run[m].rc = 0
      BY <1>1, <1>2, <2>2
    <3>2. Saved(m) /\ run[m].kind \in Kinds
      BY <3>1 DEF TrialInv, PlaceInv, AfterPlaces
    <3> QED
      BY <1>1, <3>2, SavedStays
  <2> QED
    BY <2>1, <2>2
<1>3. run[n].pc # "none" /\ (run[n].set = "canonical" => run[n].via # "demo")
  BY DEF SameCommand, PlaceInv, DemoSet
<1>4. ASSUME NEW k \in Kinds, NEW s \in ParameterSets, NEW m \in trials'[k][s].by
      PROVE  run'[m].pc # "none" /\ (s = "canonical" => run'[m].via # "demo")
  <2>1. trials[k][s].by \subseteq Run
    BY DEF Types, FileStates
  <2>2. CASE m \in trials[k][s].by
    <3>1. run[m].pc # "none" /\ (s = "canonical" => run[m].via # "demo")
      BY <2>2 DEF TrialInv
    <3> QED
      BY <1>1, <2>1, <2>2, <3>1
  <2>3. CASE m \notin trials[k][s].by
    <3>1. m = n /\ s = run[n].set
      BY <1>4, <2>3, TrialsGrow
    <3> QED
      BY <1>1, <1>3, <3>1
  <2> QED
    BY <2>2, <2>3
<1> QED
  BY <1>2, <1>4 DEF TrialInv

\* The codes, once a file that has bytes never loses them all.
LEMMA CodeStays ==
  ASSUME Types, CodeInv, NEW n \in Run, OnlyMoves(n), SameCommand(n), OwnTrials(n),
         \A k \in Kinds, s \in ParameterSets :
           evidence[k][s].by # {} => evidence'[k][s].by # {},
         \A m \in Run : m # n => manifest'[m] = manifest[m],
         manifest'[n] # "none" => run'[n].pc \in {"csv", "done", "killed"},
         (run'[n].pc \in {"txt", "csv", "done"} \/ manifest'[n] # "none")
           /\ run'[n].rc = 0 /\ run[n].kind # "summary" => Shown(n)'
  PROVE  CodeInv'
<1> SUFFICES ASSUME NEW m \in Run
             PROVE  (/\ manifest[m] # "none" => run[m].pc \in {"csv", "done", "killed"}
                     /\ (run[m].pc \in {"txt", "csv", "done"} \/ manifest[m] # "none")
                          /\ run[m].rc = 0 /\ run[m].kind # "summary" => Shown(m))'
  BY DEF CodeInv
<1>1. CASE m = n
  BY <1>1 DEF SameCommand
<1>2. CASE m # n
  <2>1. run'[m] = run[m] /\ manifest'[m] = manifest[m]
    BY <1>2 DEF OnlyMoves
  <2>2. run[m].set \in ParameterSets
    BY DEF Types, RunRecords
  <2>3. ASSUME Shown(m) PROVE Shown(m)'
    <3>1. Saved(m)'
      BY <2>1, <2>3, SavedStays DEF Shown
    <3> QED
      BY <2>1, <2>2, <2>3, <3>1 DEF Shown, ResultWritten
  <2> QED
    BY <2>1, <2>3 DEF CodeInv
<1> QED
  BY <1>1, <1>2

\* A command that goes to p with code c and leaves the result files alone
\* keeps the invariant, if its place and its code keep theirs.
LEMMA GoesOn ==
  ASSUME IInv, NEW n \in Run, NEW p \in Places, NEW c \in {0, 2}, GoesTo(n, p, c),
         UNCHANGED evidence, OwnTrials(n), final' \in FileStates,
         manifest' \in [Run -> {"none", "text", "both"}],
         \A m \in Run : m # n => manifest'[m] = manifest[m],
         p \notin {"openTrials", "save", "close", "summarise"},
         p \in {"measure", "saved", "open"} => run[n].kind \in Kinds,
         p \in {"saved", "open"} => run[n].measured,
         p = "open" /\ c = 0 => Saved(n)',
         p = "section" => run[n].kind = "summary",
         run[n].pc \in {"close", "killed"} => p = "killed",
         manifest'[n] # "none" => p \in {"csv", "done", "killed"},
         (p \in {"txt", "csv", "done"} \/ manifest'[n] # "none")
           /\ c = 0 /\ run[n].kind # "summary" => Shown(n)
  PROVE  IInv'
<1>1. /\ OnlyMoves(n) /\ SameCommand(n) /\ SameReading(n)
      /\ run'[n].measured = run[n].measured /\ run'[n].passed = run[n].passed
      /\ run'[n].pc = p /\ run'[n].rc = c
  BY DEF GoesTo
<1>2. Types'
  BY <1>1, TrialsGrow DEF IInv, Types, OnlyMoves
<1>3. PlaceInv'
  BY <1>1, PlaceStays DEF IInv, AfterPlaces
<1>4. FileInv'
  BY <1>1, FileStays DEF IInv
<1>5. TrialInv'
  BY <1>1, TrialsStay DEF IInv
<1>6. CodeInv'
  <2>1. ASSUME Shown(n) PROVE Shown(n)'
    <3>1. Saved(n)'
      BY <1>1, <2>1, SavedStays DEF Shown, SameCommand, IInv
    <3> QED
      BY <1>1, <2>1, <3>1 DEF Shown, ResultWritten, SameCommand
  <2> QED
    BY <1>1, <2>1, CodeStays DEF IInv
<1>7. SummaryInv'
  BY <1>1, SummaryStays DEF IInv
<1> QED
  BY <1>2, <1>3, <1>4, <1>5, <1>6, <1>7 DEF IInv

-----------------------------------------------------------------------------
(* Every action keeps the invariant.                                       *)

\* Nothing has happened yet.
LEMMA InitInv == Init => IInv
<1> SUFFICES ASSUME Init PROVE IInv
  OBVIOUS
<1>1. NotStarted \in RunRecords
  BY DEF NotStarted, RunRecords, ParameterSets, Places
<1>2. \A n \in Run : run[n] = NotStarted
  BY DEF Init
<1>3. /\ \A k \in Kinds, s \in ParameterSets :
           evidence[k][s] \in {Absent, FromBefore} /\ evidence[k][s].by = {}
      /\ evidence \in [Kinds -> [ParameterSets -> FileStates]]
  BY DEF Init, Absent, FromBefore, FileStates
<1>4. Types
  BY <1>1, <1>3 DEF Init, Types, Absent, FileStates
<1>5. PlaceInv /\ CodeInv /\ TrialInv
  BY <1>2 DEF Init, PlaceInv, CodeInv, TrialInv, NotStarted, AfterPlaces, Absent
<1>6. FileInv
  BY <1>3 DEF FileInv, Absent, FromBefore
<1>7. SummaryInv
  <2>1. IsFiniteSet({}) /\ Cardinality({}) = 0
    BY FS_EmptySet
  <2>2. \A n \in Run : Unseen(n) = {}
    BY <1>2 DEF Unseen, NotStarted
  <2> QED
    BY <1>2, <2>1, <2>2 DEF SummaryInv, NotStarted
<1> QED
  BY <1>4, <1>5, <1>6, <1>7 DEF IInv

\* No file has bytes of a command that was not started.
LEMMA StartKeeps == ASSUME IInv, NEW n \in Run, Start(n) PROVE IInv'
<1>1. PICK kind \in Kinds \cup {"summary"}, set \in ParameterSets, via \in Ways :
        /\ MayStart(kind, set, via)
        /\ run' = [run EXCEPT ![n].kind = kind, ![n].set = set, ![n].via = via,
                              ![n].pc = FirstPlace(kind)]
  BY DEF Start
<1>2. /\ run[n].pc = "none"
      /\ UNCHANGED <<evidence, trials, final, manifest>>
  BY DEF Start, At
<1> DEFINE first == FirstPlace(kind)
<1>3. /\ \/ first = "summarise" /\ kind = "summary"
         \/ first \in {"openTrials", "measure"} /\ kind \in Kinds
      /\ first \in Places
  <2>1. CASE kind = "summary"
    BY <2>1 DEF FirstPlace, Places, EarlyKinds
  <2>2. CASE kind # "summary" /\ kind \in EarlyKinds
    BY <2>2 DEF FirstPlace, Places
  <2>3. CASE kind # "summary" /\ kind \notin EarlyKinds
    BY <2>3 DEF FirstPlace, Places
  <2> QED
    BY <2>1, <2>2, <2>3
<1>4. via = "demo" => set = DemoSet
  BY <1>1 DEF MayStart
<1> HIDE DEF first
<1>5. /\ run'[n] = [run[n] EXCEPT !.kind = kind, !.set = set, !.via = via, !.pc = first]
      /\ DOMAIN run' = Run /\ run' = [m \in Run |-> run'[m]]
      /\ \A m \in Run : m # n => run'[m] = run[m]
  BY <1>1 DEF IInv, Types, first
<1>6. run[n] \in RunRecords
  BY DEF IInv, Types
<1>7. run'[n] \in RunRecords
  BY <1>3, <1>5, <1>6 DEF RunRecords
<1>8. OnlyMoves(n)
  BY <1>5, <1>6, <1>7 DEF OnlyMoves, IInv, Types
<1>9. /\ run'[n].kind = kind /\ run'[n].set = set /\ run'[n].via = via /\ run'[n].pc = first
      /\ SameReading(n) /\ run'[n].measured = run[n].measured
  BY <1>5, <1>6 DEF RunRecords, SameReading
<1>10. Types'
  BY <1>2, <1>8 DEF OnlyMoves, IInv, Types
<1>11. PlaceInv'
  <2>1. /\ run'[n].pc \in {"openTrials", "measure"} => run'[n].kind \in Kinds
        /\ run'[n].pc = "summarise" => run'[n].kind = "summary"
        /\ run'[n].pc \in {"summarise", "openTrials", "measure"}
        /\ run'[n].via = "demo" => run'[n].set = DemoSet
    BY <1>3, <1>4, <1>9
  <2>2. ASSUME NEW m \in Run, m # n
        PROVE  run'[m] = run[m]
    BY <1>5, <2>2
  <2> QED
    BY <2>1, <2>2 DEF IInv, PlaceInv, DemoSet, AfterPlaces
<1>12. FileInv'
  <2>1. \A k \in Kinds, s \in ParameterSets :
          n \notin evidence[k][s].by /\ evidence[k][s].by \subseteq Run
    BY <1>2 DEF IInv, FileInv, Types, FileStates
  <2> QED
    BY <1>2, <1>5, <2>1 DEF IInv, FileInv
<1>13. run'[n].pc \in {"summarise", "openTrials", "measure"}
  BY <1>3, <1>9
<1>14. ASSUME NEW m \in Run, m # n
       PROVE  run'[m] = run[m] /\ manifest'[m] = manifest[m] /\ Saved(m)' = Saved(m)
              /\ Shown(m)' = Shown(m)
  <2>1. run'[m] = run[m] /\ UNCHANGED <<evidence, trials, manifest>>
    BY <1>2, <1>5, <1>14
  <2> QED
    BY <2>1 DEF Shown, Saved, ResultWritten, TrialsWritten
<1>15. TrialInv'
  <2>1. \A k \in Kinds, s \in ParameterSets :
          n \notin trials[k][s].by /\ trials[k][s].by \subseteq Run
    BY <1>2 DEF IInv, TrialInv, Types, FileStates
  <2>2. \A m \in Run : run'[m].pc \in {"open", "close"} /\ run'[m].rc = 0 => Saved(m)'
    BY <1>13, <1>14 DEF IInv, TrialInv
  <2>3. \A k \in Kinds, s \in ParameterSets : \A m \in trials'[k][s].by :
          run'[m].pc # "none" /\ (s = "canonical" => run'[m].via # "demo")
    BY <1>2, <1>14, <2>1 DEF IInv, TrialInv
  <2> QED
    BY <2>2, <2>3 DEF TrialInv
<1>16. CodeInv'
  <2>1. manifest'[n] = "none"
    BY <1>2 DEF IInv, CodeInv
  <2>2. ASSUME NEW m \in Run
        PROVE  /\ manifest'[m] # "none" => run'[m].pc \in {"csv", "done", "killed"}
               /\ (run'[m].pc \in {"txt", "csv", "done"} \/ manifest'[m] # "none")
                    /\ run'[m].rc = 0 /\ run'[m].kind # "summary" => Shown(m)'
    <3>1. CASE m = n
      BY <1>13, <2>1, <3>1
    <3>2. CASE m # n
      BY <1>14, <3>2 DEF IInv, CodeInv
    <3> QED
      BY <3>1, <3>2
  <2> QED
    BY <2>2 DEF CodeInv
<1>17. SummaryInv'
  BY <1>8, <1>9, SummaryStays DEF IInv
<1> QED
  BY <1>10, <1>11, <1>12, <1>15, <1>16, <1>17 DEF IInv

\* A file of the command's own beside its result, opened or closed.
LEMMA OwnFile ==
  ASSUME Types, NEW n \in Run, run[n].kind \in Kinds,
         NEW f \in FileStates, n \in f.by,
         f.by \subseteq trials[run[n].kind][run[n].set].by \cup {n},
         trials' = [trials EXCEPT ![run[n].kind][run[n].set] = f]
  PROVE  OwnTrials(n) /\ trials'[run[n].kind][run[n].set].by # {}
<1>1. run[n].set \in ParameterSets
  BY DEF Types, RunRecords
<1>2. trials'[run[n].kind][run[n].set] = f
  BY <1>1 DEF Types
<1>3. OwnTrials(n)
  BY DEF OwnTrials
<1> QED
  BY <1>2, <1>3

LEMMA OwnNewFile ==
  ASSUME Types, NEW n \in Run, run[n].kind \in Kinds, NEW s \in {"empty", "partial", "full"},
         trials' = [trials EXCEPT ![run[n].kind][run[n].set] = File(s, n)]
  PROVE  OwnTrials(n) /\ trials'[run[n].kind][run[n].set].by # {}
<1>1. File(s, n) \in FileStates /\ File(s, n).by = {n}
  BY DEF File, FileStates
<1> QED
  BY <1>1, OwnFile

\* Only the trials file is touched.
LEMMA OpenTrialsKeeps == ASSUME IInv, NEW n \in Run, OpenTrials(n) PROVE IInv'
<1>1. /\ run[n].pc = "openTrials" /\ run[n].kind \in Kinds /\ run[n].set \in ParameterSets
      /\ UNCHANGED <<evidence, final, manifest>> /\ manifest[n] = "none" /\ Types
      /\ final' \in FileStates /\ manifest' \in [Run -> {"none", "text", "both"}]
  BY DEF OpenTrials, At, IInv, PlaceInv, CodeInv, Types, RunRecords
<1>2. CASE /\ Step(n, "measure")
           /\ trials' = [trials EXCEPT ![run[n].kind][run[n].set] = File("empty", n)]
  <2>1. GoesTo(n, "measure", run[n].rc) /\ run[n].rc \in {0, 2} /\ "measure" \in Places
    BY <1>1, <1>2, StepGoes DEF Places, Types, RunRecords
  <2>2. OwnTrials(n)
    BY <1>1, <1>2, OwnNewFile
  <2> QED
    BY <1>1, <2>1, <2>2, GoesOn
<1>3. CASE Fail(n) /\ UNCHANGED trials
  <2>1. GoesTo(n, "txt", 2) /\ "txt" \in Places
    BY <1>1, <1>3, FailGoes DEF Places
  <2>2. OwnTrials(n)
    BY <1>3 DEF OwnTrials
  <2> QED
    BY <1>1, <2>1, <2>2, GoesOn
<1> QED
  BY <1>2, <1>3 DEF OpenTrials

\* A command goes to its files only when it has measured, and straight to
\* its result file only if it has no other or has that one already.
LEMMA MeasureKeeps == ASSUME IInv, NEW n \in Run, Measure(n) PROVE IInv'
<1>1. /\ run[n].pc = "measure" /\ run[n].kind \in Kinds /\ run[n].set \in ParameterSets
      /\ UNCHANGED <<evidence, final, manifest>> /\ manifest[n] = "none" /\ Types
      /\ final' \in FileStates /\ manifest' \in [Run -> {"none", "text", "both"}]
  BY DEF Measure, At, IInv, PlaceInv, CodeInv, Types, RunRecords
<1>2. /\ OwnTrials(n)
      /\ run[n].kind \in EarlyKinds => trials'[run[n].kind][run[n].set].by # {}
  <2>1. CASE run[n].kind \notin EarlyKinds
    BY <2>1 DEF Measure, OwnTrials
  <2>2. CASE run[n].kind \in EarlyKinds
    <3>1. PICK s \in {"full", "partial"} :
            trials' = [trials EXCEPT ![run[n].kind][run[n].set] = File(s, n)]
      BY <2>2 DEF Measure
    <3> QED
      BY <1>1, <3>1, OwnNewFile
  <2> QED
    BY <2>1, <2>2
<1>3. CASE Fail(n)
  <2>1. GoesTo(n, "txt", 2) /\ "txt" \in Places
    BY <1>1, <1>3, FailGoes DEF Places
  <2> QED
    BY <1>1, <1>2, <2>1, GoesOn
<1> DEFINE after == AfterMeasuring(run[n].kind)
<1>4. /\ after \in {"save", "open"} /\ after \in Places
      /\ after = "open" => run[n].kind \notin LateKinds
  BY DEF AfterMeasuring, Places
<1> HIDE DEF after
<1>5. ASSUME NEW p \in BOOLEAN,
             run' = [run EXCEPT ![n].pc = after, ![n].measured = TRUE, ![n].passed = p]
      PROVE  IInv'
  <2>1. run \in [Run -> RunRecords] /\ run[n] \in RunRecords
    BY <1>1 DEF Types
  <2>2. /\ DOMAIN run' = Run /\ run' = [m \in Run |-> run'[m]]
        /\ run'[n] = [run[n] EXCEPT !.pc = after, !.measured = TRUE, !.passed = p]
        /\ \A m \in Run : m # n => run'[m] = run[m]
    BY <1>5, <2>1
  <2>3. run'[n] \in RunRecords
    BY <1>4, <2>1, <2>2 DEF RunRecords
  <2>4. OnlyMoves(n)
    BY <2>1, <2>2, <2>3 DEF OnlyMoves
  <2>5. Types'
    BY <1>1, <1>2, <2>4, TrialsGrow DEF OnlyMoves, Types
  <2>6. /\ SameCommand(n) /\ SameReading(n)
        /\ run'[n].pc = after /\ run'[n].measured
    BY <1>1, <1>4, <2>1, <2>2 DEF SameCommand, SameReading, RunRecords
  <2>7. PlaceInv'
    BY <1>1, <1>4, <2>4, <2>6, PlaceStays DEF IInv
  <2>8. FileInv'
    BY <1>1, <2>4, <2>6, FileStays DEF IInv
  <2>9. TrialInv'
    <3>1. after = "open" => Saved(n)'
      BY <1>2, <1>4, <2>6 DEF Saved, TrialsWritten, SameCommand
    <3>2. run'[n].pc \in {"open", "close"} => Saved(n)'
      BY <1>4, <2>6, <3>1
    <3> QED
      BY <1>2, <2>4, <2>6, <3>2, TrialsStay DEF IInv
  <2>10. CodeInv'
    BY <1>1, <1>2, <1>4, <2>4, <2>6, CodeStays DEF IInv
  <2>11. SummaryInv'
    BY <2>4, <2>6, SummaryStays DEF IInv
  <2> QED
    BY <2>5, <2>7, <2>8, <2>9, <2>10, <2>11 DEF IInv
<1> QED
  BY <1>3, <1>5 DEF Measure, after

\* Without the file beside the result a command fails, is one that does not
\* look, or remembers it.
LEMMA SaveTrialsKeeps == ASSUME IInv, NEW n \in Run, SaveTrials(n) PROVE IInv'
<1>1. /\ run[n].pc = "save" /\ run[n].kind \in Kinds /\ run[n].measured
      /\ run[n].rc \in {0, 2}
      /\ UNCHANGED <<evidence, final, manifest>> /\ manifest[n] = "none" /\ Types
      /\ final' \in FileStates /\ manifest' \in [Run -> {"none", "text", "both"}]
  BY DEF SaveTrials, At, IInv, PlaceInv, CodeInv, Types, RunRecords, AfterPlaces
<1>2. CASE /\ Step(n, "saved")
           /\ trials' = [trials EXCEPT ![run[n].kind][run[n].set] = File("empty", n)]
  <2>1. GoesTo(n, "saved", run[n].rc) /\ "saved" \in Places
    BY <1>1, <1>2, StepGoes DEF Places
  <2>2. OwnTrials(n)
    BY <1>1, <1>2, OwnNewFile
  <2> QED
    BY <1>1, <2>1, <2>2, GoesOn
<1>3. ASSUME UNCHANGED trials PROVE OwnTrials(n)
  BY <1>3 DEF OwnTrials
<1>4. CASE UNCHANGED trials /\ run[n].kind \in IndifferentKinds /\ Step(n, "open")
  <2>1. GoesTo(n, "open", run[n].rc) /\ "open" \in Places
    BY <1>1, <1>4, StepGoes DEF Places
  <2>2. Saved(n)'
    BY <1>4, <2>1 DEF Saved, GoesTo, SameCommand
  <2> QED
    BY <1>1, <1>3, <1>4, <2>1, <2>2, GoesOn
<1>5. CASE UNCHANGED trials /\ run' = [run EXCEPT ![n].pc = "open", ![n].rc = 2]
  <2>1. run \in [Run -> RunRecords] /\ run[n] \in RunRecords
    BY <1>1 DEF Types
  <2>2. /\ DOMAIN run' = Run /\ run'[n] = [run[n] EXCEPT !.pc = "open", !.rc = 2]
        /\ run' = [m \in Run |-> run'[m]]
        /\ \A m \in Run : m # n => run'[m] = run[m]
    BY <1>5, <2>1
  <2>3. run'[n] \in RunRecords /\ "open" \in Places
    BY <2>1, <2>2 DEF RunRecords, Places
  <2>4. OnlyMoves(n)
    BY <2>1, <2>2, <2>3 DEF OnlyMoves
  <2>5. GoesTo(n, "open", 2)
    BY <1>1, <2>1, <2>2, <2>4 DEF GoesTo, SameCommand, SameReading, RunRecords
  <2> QED
    BY <1>1, <1>3, <1>5, <2>3, <2>5, GoesOn
<1>6. CASE UNCHANGED trials /\ Fail(n)
  <2>1. GoesTo(n, "txt", 2) /\ "txt" \in Places
    BY <1>1, <1>6, FailGoes DEF Places
  <2> QED
    BY <1>1, <1>3, <1>6, <2>1, GoesOn
<1> QED
  BY <1>2, <1>4, <1>5, <1>6 DEF SaveTrials

\* The file that is closed is there.
LEMMA CloseTrialsKeeps == ASSUME IInv, NEW n \in Run, CloseTrials(n) PROVE IInv'
<1>1. /\ run[n].pc = "saved" /\ run[n].kind \in Kinds /\ run[n].measured
      /\ run[n].rc \in {0, 2} /\ Step(n, "open")
      /\ UNCHANGED <<evidence, final, manifest>> /\ manifest[n] = "none" /\ Types
      /\ final' \in FileStates /\ manifest' \in [Run -> {"none", "text", "both"}]
  BY DEF CloseTrials, At, IInv, PlaceInv, CodeInv, Types, RunRecords, AfterPlaces
<1>2. PICK f \in Closed(trials[run[n].kind][run[n].set], n) :
        trials' = [trials EXCEPT ![run[n].kind][run[n].set] = f]
  BY DEF CloseTrials
<1>3. /\ n \in f.by /\ f.by \subseteq trials[run[n].kind][run[n].set].by \cup {n}
      /\ f \in FileStates
  <2>1. trials[run[n].kind][run[n].set].by \subseteq Run
    BY <1>1 DEF Types, FileStates, RunRecords
  <2> QED
    BY <1>2, <2>1 DEF Closed, File, FileStates
<1>4. OwnTrials(n) /\ trials'[run[n].kind][run[n].set].by # {}
  BY <1>1, <1>2, <1>3, OwnFile
<1>5. GoesTo(n, "open", run[n].rc) /\ "open" \in Places
  BY <1>1, StepGoes DEF Places
<1>6. Saved(n)'
  BY <1>4, <1>5 DEF Saved, TrialsWritten, GoesTo, SameCommand
<1> QED
  BY <1>1, <1>4, <1>5, <1>6, GoesOn

\* What the command puts in place of the file is its own.
LEMMA OpenEvidenceKeeps == ASSUME IInv, NEW n \in Run, OpenEvidence(n) PROVE IInv'
<1>1. /\ run[n].pc = "open" /\ run[n].kind \in Kinds /\ run[n].set \in ParameterSets
      /\ UNCHANGED <<trials, final, manifest>> /\ manifest[n] = "none" /\ Types
      /\ run[n].measured /\ OwnTrials(n) /\ (run[n].rc = 0 => Saved(n))
      /\ final' \in FileStates /\ manifest' \in [Run -> {"none", "text", "both"}]
  BY DEF OpenEvidence, At, IInv, PlaceInv, TrialInv, CodeInv, Types, RunRecords, OwnTrials,
         AfterPlaces
<1>2. CASE UNCHANGED evidence /\ Fail(n)
  <2>1. GoesTo(n, "txt", 2) /\ "txt" \in Places
    BY <1>1, <1>2, FailGoes DEF Places
  <2> QED
    BY <1>1, <1>2, <2>1, GoesOn
<1>3. CASE /\ UNCHANGED evidence /\ run[n].kind \in IndifferentKinds
           /\ run' = [run EXCEPT ![n].pc = "txt", ![n].rc = CodeOf(n)]
  <2>1. /\ GoesTo(n, "txt", CodeOf(n)) /\ "txt" \in Places
        /\ CodeOf(n) \in {0, 2} /\ (CodeOf(n) = 0 => run[n].passed /\ run[n].rc = 0)
    BY <1>1, <1>3, CodeGoes DEF Places, CodeOf
  <2>2. CodeOf(n) = 0 => Shown(n)
    BY <1>1, <1>3, <2>1 DEF Shown
  <2> QED
    BY <1>1, <1>3, <2>1, <2>2, GoesOn
<1>4. CASE /\ Step(n, "close")
           /\ evidence' = [evidence EXCEPT ![run[n].kind][run[n].set] = File("empty", n)]
  <2>1. /\ OnlyMoves(n) /\ SameCommand(n) /\ SameReading(n)
        /\ run'[n].measured = run[n].measured /\ run'[n].pc = "close" /\ run'[n].rc = run[n].rc
    BY <1>1, <1>4, StepGoes DEF Places, GoesTo
  <2>2. File("empty", n) \in FileStates /\ File("empty", n) = [state |-> "empty", by |-> {n}]
    BY DEF File, FileStates
  <2>3. Types'
    BY <1>1, <1>4, <2>1, <2>2 DEF Types, OnlyMoves
  <2>4. PlaceInv'
    BY <1>1, <2>1, PlaceStays DEF IInv, AfterPlaces
  <2>5. \A k \in Kinds, s \in ParameterSets :
          evidence'[k][s] = IF k = run[n].kind /\ s = run[n].set
                            THEN [state |-> "empty", by |-> {n}] ELSE evidence[k][s]
    BY <1>1, <1>4, <2>2 DEF Types
  <2>6. FileInv'
    <3> DEFINE f == [state |-> "empty", by |-> {n}]
    <3>1. run'[n].measured
      BY <1>1, <2>1
    <3> HIDE DEF f
    <3>2. \A k \in Kinds, s \in ParameterSets :
            evidence'[k][s] = IF k = run[n].kind /\ s = run[n].set THEN f ELSE evidence[k][s]
      BY <2>5 DEF f
    <3>3. f = [state |-> "empty", by |-> {n}] /\ run'[n].pc = "close"
      BY <2>1 DEF f
    <3> QED
      BY <1>1, <2>1, <3>1, <3>2, <3>3, NewFile
  <2>7. CodeInv'
    BY <1>1, <2>1, <2>3, <2>5, CodeStays DEF IInv
  <2>8. SummaryInv'
    BY <2>1, SummaryStays DEF IInv
  <2>9. TrialInv'
    <3>1. run'[n].rc = 0 => Saved(n)'
      BY <1>1, <2>1, SavedStays DEF SameCommand
    <3> QED
      BY <1>1, <2>1, <3>1, TrialsStay DEF IInv
  <2> QED
    BY <2>3, <2>4, <2>6, <2>7, <2>8, <2>9 DEF IInv
<1> QED
  BY <1>2, <1>3, <1>4 DEF OpenEvidence

\* A file that is closed is full, by commands that have measured.
LEMMA CloseEvidenceKeeps == ASSUME IInv, NEW n \in Run, CloseEvidence(n) PROVE IInv'
<1>1. /\ run[n].pc = "close" /\ run[n].kind \in Kinds /\ run[n].set \in ParameterSets
      /\ UNCHANGED <<trials, final, manifest>> /\ manifest[n] = "none" /\ Types
      /\ run[n].measured /\ OwnTrials(n) /\ (run[n].rc = 0 => Saved(n))
  BY DEF CloseEvidence, At, IInv, PlaceInv, TrialInv, CodeInv, Types, RunRecords, OwnTrials,
         AfterPlaces
<1> DEFINE old == evidence[run[n].kind][run[n].set]
<1>2. PICK f \in Closed(old, n) :
        evidence' = [evidence EXCEPT ![run[n].kind][run[n].set] = f]
  BY DEF CloseEvidence
<1>3. /\ GoesTo(n, "txt", CodeOf(n)) /\ "txt" \in Places
      /\ CodeOf(n) \in {0, 2} /\ (CodeOf(n) = 0 => run[n].passed /\ run[n].rc = 0)
  BY <1>1, CodeGoes DEF CloseEvidence, Places, CodeOf
<1>4. /\ OnlyMoves(n) /\ SameCommand(n) /\ SameReading(n) /\ run'[n].passed = run[n].passed
      /\ run'[n].measured /\ run'[n].pc = "txt" /\ run'[n].rc = CodeOf(n)
  BY <1>1, <1>3 DEF GoesTo
<1>5. /\ \/ f = [state |-> "full", by |-> {n}]
         \/ old.state = "full" /\ f = [state |-> "full", by |-> old.by \cup {n}]
      /\ old.by \subseteq Run
  BY <1>1 DEF Closed, File, Types, FileStates
<1>6. f \in FileStates /\ n \in f.by
  BY <1>5 DEF FileStates
<1>7. \A k \in Kinds, s \in ParameterSets :
        evidence'[k][s] = IF k = run[n].kind /\ s = run[n].set THEN f ELSE evidence[k][s]
  BY <1>1, <1>2 DEF Types
<1>8. Types'
  BY <1>1, <1>2, <1>4, <1>6 DEF Types, OnlyMoves
<1>9. PlaceInv'
  BY <1>1, <1>4, PlaceStays DEF IInv, AfterPlaces
<1>10. FileInv'
  BY <1>1, <1>4, <1>5, <1>7, NewFile
<1>11. CodeInv'
  <2>1. \A k \in Kinds, s \in ParameterSets : evidence[k][s].by # {} => evidence'[k][s].by # {}
    BY <1>6, <1>7
  <2>2. evidence'[run[n].kind][run[n].set].by # {}
    BY <1>1, <1>6, <1>7
  <2>3. CodeOf(n) = 0 => Shown(n)'
    <3>1. run[n].rc = 0 => Saved(n)'
      BY <1>1, <1>4, SavedStays DEF SameCommand
    <3> QED
      BY <1>1, <1>3, <1>4, <2>2, <3>1 DEF Shown, ResultWritten, SameCommand
  <2> QED
    BY <1>1, <1>4, <2>1, <2>3, CodeStays DEF IInv
<1>12. SummaryInv'
  BY <1>1, <1>4, SummaryStays DEF IInv
<1>13. TrialInv'
  BY <1>1, <1>4, TrialsStay DEF IInv
<1> QED
  BY <1>8, <1>9, <1>10, <1>11, <1>12, <1>13 DEF IInv

\* The manifest is of a command that has returned its code.
LEMMA RecordKeeps ==
  ASSUME IInv, NEW n \in Run, RecordText(n) \/ RecordCsv(n)
  PROVE  IInv'
<1>1. /\ run[n].pc \in {"txt", "csv"} /\ UNCHANGED <<evidence, trials, final>> /\ Types
      /\ run[n].rc \in {0, 2} /\ OwnTrials(n) /\ final' \in FileStates
  BY DEF RecordText, RecordCsv, At, IInv, Types, RunRecords, OwnTrials
<1>2. \E t \in {"text", "both"} : manifest' = [manifest EXCEPT ![n] = t] \/ manifest' = manifest
  BY DEF RecordText, RecordCsv
<1>3. /\ manifest' \in [Run -> {"none", "text", "both"}]
      /\ \A m \in Run : m # n => manifest'[m] = manifest[m]
  BY <1>1, <1>2 DEF Types
<1>4. PICK p \in {"csv", "done"} : Step(n, p)
  BY DEF RecordText, RecordCsv
<1>5. p \in Places \ {"none"}
  BY DEF Places
<1>6. GoesTo(n, p, run[n].rc)
  BY <1>1, <1>4, <1>5, StepGoes
<1>7. run[n].rc = 0 /\ run[n].kind # "summary" => Shown(n)
  BY <1>1 DEF IInv, CodeInv
<1> QED
  BY <1>1, <1>3, <1>5, <1>6, <1>7, GoesOn

\* The summary opens its own files.
LEMMA SummariseKeeps == ASSUME IInv, NEW n \in Run, Summarise(n) PROVE IInv'
<1>1. /\ run[n].pc = "summarise" /\ run[n].kind = "summary" /\ run[n].rc \in {0, 2}
      /\ UNCHANGED <<evidence, trials, manifest>> /\ manifest[n] = "none" /\ Types
      /\ OwnTrials(n) /\ manifest' \in [Run -> {"none", "text", "both"}]
  BY DEF Summarise, At, IInv, PlaceInv, CodeInv, Types, RunRecords, OwnTrials
<1>2. final' \in FileStates
  BY <1>1 DEF Summarise, File, FileStates, Types
<1>3. CASE Step(n, "section")
  <2>1. GoesTo(n, "section", run[n].rc) /\ "section" \in Places
    BY <1>1, <1>3, StepGoes DEF Places
  <2> QED
    BY <1>1, <1>2, <2>1, GoesOn
<1>4. CASE Fail(n)
  <2>1. GoesTo(n, "txt", 2) /\ "txt" \in Places
    BY <1>1, <1>4, FailGoes DEF Places
  <2> QED
    BY <1>1, <1>2, <2>1, GoesOn
<1> QED
  BY <1>3, <1>4 DEF Summarise

\* A killed command leaves everything where it is.
LEMMA KillKeeps == ASSUME IInv, NEW n \in Run, Kill(n) PROVE IInv'
<1>1. /\ run[n].pc \notin {"none", "done", "killed"} /\ run[n].rc \in {0, 2}
      /\ UNCHANGED <<evidence, trials, final, manifest>> /\ Step(n, "killed") /\ Types
      /\ OwnTrials(n) /\ final' \in FileStates
      /\ manifest' \in [Run -> {"none", "text", "both"}]
  BY DEF Kill, IInv, Types, RunRecords, OwnTrials
<1>2. GoesTo(n, "killed", run[n].rc) /\ "killed" \in Places
  BY <1>1, StepGoes DEF Places
<1>3. manifest[n] # "none" /\ run[n].rc = 0 /\ run[n].kind # "summary" => Shown(n)
  BY DEF IInv, CodeInv
<1> QED
  BY <1>1, <1>2, <1>3, GoesOn

\* What is reported of a section is of its kind, and was measured.
LEMMA ReportedFacts ==
  ASSUME IInv, NEW kind \in Kinds
  PROVE  /\ Reported(kind) \subseteq Entries
         /\ \A e \in Reported(kind) : e.kind = kind /\ \A m \in e.by : run[m].measured
<1>1. SetsRead(kind) \subseteq ParameterSets
  BY DEF SetsRead, ParameterSets
<1> SUFFICES ASSUME NEW e \in Reported(kind)
             PROVE  e \in Entries /\ e.kind = kind /\ \A m \in e.by : run[m].measured
  OBVIOUS
<1>2. PICK s \in SetsRead(kind) :
        /\ evidence[kind][s].state = "full"
        /\ e = [kind |-> kind, set |-> s, by |-> evidence[kind][s].by]
  BY DEF Reported
<1>3. s \in ParameterSets /\ evidence[kind][s].by \in SUBSET Run
  BY <1>1, <1>2 DEF IInv, Types, FileStates
<1>4. \A m \in evidence[kind][s].by : run[m].measured
  BY <1>2, <1>3 DEF IInv, FileInv
<1> QED
  BY <1>2, <1>3, <1>4 DEF Entries

\* A section counts as missing once, when nothing is reported of it.
LEMMA ReadSectionKeeps == ASSUME IInv, NEW n \in Run, ReadSection(n) PROVE IInv'
<1>1. /\ run[n].pc = "section" /\ run[n].kind = "summary" /\ manifest[n] = "none"
      /\ UNCHANGED <<evidence, trials, final, manifest>> /\ Types
      /\ run \in [Run -> RunRecords] /\ run[n] \in RunRecords /\ OwnTrials(n)
  BY DEF ReadSection, At, IInv, PlaceInv, CodeInv, Types, OwnTrials
<1>2. PICK kind \in Kinds :
        /\ IsNext(kind, run[n].read)
        /\ run' = [run EXCEPT ![n].read = @ \cup {kind},
                              ![n].seen = @ \cup Reported(kind),
                              ![n].missing = IF Reported(kind) = {} THEN @ + 1 ELSE @]
  BY DEF ReadSection
<1> DEFINE more == IF Reported(kind) = {} THEN run[n].missing + 1 ELSE run[n].missing
           r == Reported(kind)
<1>3. /\ DOMAIN run' = Run /\ run' = [m \in Run |-> run'[m]]
      /\ run'[n] = [run[n] EXCEPT !.read = @ \cup {kind}, !.seen = @ \cup r, !.missing = more]
      /\ \A m \in Run : m # n => run'[m] = run[m]
  BY <1>1, <1>2
<1>4. /\ r \subseteq Entries
      /\ \A e \in r : e.kind = kind /\ \A m \in e.by : run[m].measured
  BY ReportedFacts
<1>5. more \in Nat /\ (r = {} => more = run[n].missing + 1) /\ (r # {} => more = run[n].missing)
  BY <1>1 DEF RunRecords
<1> HIDE DEF more, r
<1>6. run'[n] \in RunRecords
  <2>1. run[n].read \cup {kind} \in SUBSET Kinds /\ run[n].seen \cup r \in SUBSET Entries
    BY <1>1, <1>4 DEF RunRecords
  <2>2. run'[n] = [run[n] EXCEPT !.read = run[n].read \cup {kind},
                                 !.seen = run[n].seen \cup r, !.missing = more]
    BY <1>3
  <2> QED
    BY <1>1, <1>5, <2>1, <2>2 DEF RunRecords
<1>7. OnlyMoves(n)
  BY <1>1, <1>3, <1>6 DEF OnlyMoves
<1>8. /\ SameCommand(n) /\ run'[n].measured = run[n].measured /\ run'[n].pc = "section"
      /\ run'[n].read = run[n].read \cup {kind} /\ run'[n].seen = run[n].seen \cup r
      /\ run'[n].missing = more /\ run'[n].status = run[n].status
  BY <1>1, <1>3 DEF SameCommand, RunRecords
<1>9. Types'
  BY <1>1, <1>7 DEF OnlyMoves, Types
<1>10. PlaceInv'
  BY <1>1, <1>7, <1>8, PlaceStays DEF IInv, AfterPlaces
<1>11. FileInv'
  BY <1>1, <1>7, <1>8, FileStays DEF IInv
<1>12. CodeInv'
  BY <1>1, <1>7, <1>8, <1>9, CodeStays DEF IInv
<1>13. SummaryInv'
  <2>1. /\ \A m \in Run : run'[m].measured = run[m].measured
        /\ \A m \in Run : m # n => run'[m] = run[m] /\ Unseen(m)' = Unseen(m)
    BY <1>7, <1>8 DEF OnlyMoves, Unseen
  <2>2. /\ IsFiniteSet(run[n].read) /\ run[n].missing = Cardinality(Unseen(n))
        /\ \A e \in run[n].seen : e.kind \in run[n].read /\ \A m \in e.by : run[m].measured
        /\ run[n].status # "none" => run[n].read = Kinds
    BY DEF IInv, SummaryInv
  <2>3. kind \notin run[n].read
    BY <1>2 DEF IsNext
  <2>4. IsFiniteSet(run'[n].read)
    BY <1>8, <2>2, FS_AddElement
  <2>5. \A e \in run'[n].seen : e.kind \in run'[n].read /\ \A m \in e.by : run[m].measured
    BY <1>4, <1>8, <2>2
  <2>6. Unseen(n)' = IF r = {} THEN Unseen(n) \cup {kind} ELSE Unseen(n)
    BY <1>4, <1>8, <2>2, <2>3 DEF Unseen
  <2>7. IsFiniteSet(Unseen(n)) /\ kind \notin Unseen(n)
    <3>1. Unseen(n) \in SUBSET run[n].read
      BY DEF Unseen
    <3> QED
      BY <2>2, <2>3, <3>1, FS_Subset
  <2>8. run'[n].missing = Cardinality(Unseen(n)')
    <3>1. Cardinality(Unseen(n) \cup {kind}) = Cardinality(Unseen(n)) + 1
      BY <2>7, FS_AddElement
    <3> QED
      BY <1>5, <1>8, <2>2, <2>6, <3>1
  <2>9. run'[n].status = "none"
    BY <1>8, <2>2, <2>3
  <2>10. \A m \in Run : \A e \in run'[m].seen : e.by \subseteq Run
    BY <1>7 DEF OnlyMoves, RunRecords, Entries
  <2>11. ASSUME NEW m \in Run
         PROVE (/\ IsFiniteSet(run[m].read)
                /\ \A e \in run[m].seen : e.kind \in run[m].read /\ \A i \in e.by : run[i].measured
                /\ run[m].missing = Cardinality(Unseen(m))
                /\ run[m].status # "none" =>
                     run[m].read = Kinds /\ (run[m].status = "COMPLETE" <=> run[m].missing = 0))'
    <3>1. CASE m = n
      BY <2>1, <2>4, <2>5, <2>8, <2>9, <2>10, <3>1
    <3>2. CASE m # n
      BY <2>1, <2>10, <3>2 DEF IInv, SummaryInv
    <3> QED
      BY <3>1, <3>2
  <2> QED
    BY <2>11 DEF SummaryInv
<1>14. TrialInv'
  BY <1>1, <1>7, <1>8, TrialsStay DEF IInv
<1> QED
  BY <1>9, <1>10, <1>11, <1>12, <1>13, <1>14 DEF IInv

\* The status says what was counted.
LEMMA CloseSummaryKeeps == ASSUME IInv, NEW n \in Run, CloseSummary(n) PROVE IInv'
<1>1. /\ run[n].pc = "section" /\ run[n].kind = "summary" /\ manifest[n] = "none"
      /\ UNCHANGED <<evidence, trials, manifest>> /\ Types /\ run[n].read = Kinds
      /\ run \in [Run -> RunRecords] /\ run[n] \in RunRecords /\ OwnTrials(n)
  BY DEF CloseSummary, At, IInv, PlaceInv, CodeInv, Types, OwnTrials
<1> DEFINE status == IF run[n].missing = 0 THEN "COMPLETE" ELSE "PARTIAL"
<1>2. run' = [run EXCEPT ![n].pc = "txt", ![n].status = status]
  BY DEF CloseSummary
<1>3. /\ status \in {"none", "COMPLETE", "PARTIAL"}
      /\ status = "COMPLETE" <=> run[n].missing = 0
  OBVIOUS
<1> HIDE DEF status
<1>4. /\ DOMAIN run' = Run /\ run' = [m \in Run |-> run'[m]]
      /\ run'[n] = [run[n] EXCEPT !.pc = "txt", !.status = status]
      /\ \A m \in Run : m # n => run'[m] = run[m]
  BY <1>1, <1>2
<1>5. run'[n] \in RunRecords
  BY <1>1, <1>3, <1>4 DEF RunRecords, Places
<1>6. OnlyMoves(n)
  BY <1>1, <1>4, <1>5 DEF OnlyMoves
<1>7. /\ SameCommand(n) /\ run'[n].measured = run[n].measured /\ run'[n].pc = "txt"
      /\ run'[n].read = run[n].read /\ run'[n].seen = run[n].seen
      /\ run'[n].missing = run[n].missing /\ run'[n].status = status
  BY <1>1, <1>4 DEF SameCommand, RunRecords
<1>8. final' \in FileStates
  <2>1. final.by \subseteq Run
    BY <1>1 DEF Types, FileStates
  <2> QED
    BY <2>1 DEF CloseSummary, Closed, File, FileStates
<1>9. Types'
  BY <1>1, <1>6, <1>8 DEF OnlyMoves, Types
<1>10. PlaceInv'
  BY <1>1, <1>6, <1>7, PlaceStays DEF IInv, AfterPlaces
<1>11. FileInv'
  BY <1>1, <1>6, <1>7, FileStays DEF IInv
<1>12. CodeInv'
  BY <1>1, <1>6, <1>7, <1>9, CodeStays DEF IInv
<1>13. SummaryInv'
  <2>1. \A m \in Run :
          /\ run'[m].measured = run[m].measured
          /\ run'[m].read = run[m].read /\ run'[m].seen = run[m].seen
          /\ run'[m].missing = run[m].missing
          /\ Unseen(m)' = Unseen(m)
          /\ m # n => run'[m].status = run[m].status
    BY <1>6, <1>7 DEF OnlyMoves, Unseen
  <2>2. \A m \in Run : \A e \in run[m].seen : e.by \subseteq Run
    BY <1>1 DEF RunRecords, Entries
  <2> QED
    BY <1>1, <1>3, <1>7, <2>1, <2>2 DEF IInv, SummaryInv
<1>14. TrialInv'
  BY <1>1, <1>6, <1>7, TrialsStay DEF IInv
<1> QED
  BY <1>9, <1>10, <1>11, <1>12, <1>13, <1>14 DEF IInv

LEMMA NextInv == IInv /\ [Next]_vars => IInv'
<1> SUFFICES ASSUME IInv, [Next]_vars PROVE IInv'
  OBVIOUS
<1>1. CASE UNCHANGED vars
  <2>1. run' = run /\ evidence' = evidence /\ trials' = trials /\ final' = final /\ manifest' = manifest
    BY <1>1 DEF vars
  <2>2. Types' /\ PlaceInv' /\ FileInv'
    BY <2>1 DEF IInv, Types, PlaceInv, FileInv
  <2>3. TrialInv' /\ CodeInv' /\ SummaryInv'
    BY <2>1 DEF IInv, TrialInv, CodeInv, SummaryInv, Unseen, Shown, Saved, ResultWritten,
                TrialsWritten
  <2> QED
    BY <2>2, <2>3 DEF IInv
<1>2. CASE Next
  BY <1>2, StartKeeps, OpenTrialsKeeps, MeasureKeeps, SaveTrialsKeeps, CloseTrialsKeeps,
     OpenEvidenceKeeps, CloseEvidenceKeeps, RecordKeeps, SummariseKeeps, ReadSectionKeeps, CloseSummaryKeeps, KillKeeps
     DEF Next
<1> QED
  BY <1>1, <1>2

LEMMA EvidenceInvariant == Spec => []IInv
BY InitInv, NextInv, PTL DEF Spec

-----------------------------------------------------------------------------
(* What follows.                                                           *)

\* The types TypeOK names, the count of missing sections among them.
LEMMA TypesFollow == IInv => TypeOK
<1> SUFFICES ASSUME IInv PROVE TypeOK
  OBVIOUS
<1>1. \A n \in Run : run[n].missing \in 0..Cardinality(run[n].read)
  <2> TAKE n \in Run
  <2>1. Unseen(n) \in SUBSET run[n].read /\ IsFiniteSet(run[n].read)
    BY DEF Unseen, IInv, SummaryInv
  <2>2. /\ Cardinality(Unseen(n)) =< Cardinality(run[n].read)
        /\ Cardinality(Unseen(n)) \in Nat /\ Cardinality(run[n].read) \in Nat
    BY <2>1, FS_Subset, FS_CardinalityType
  <2> QED
    BY <2>2 DEF IInv, SummaryInv
<1> QED
  BY <1>1 DEF IInv, Types, RunRecords, TypeOK

\* Whatever commands run at once, fail or are killed: a result file that is
\* full is the work of measurements that came to their end, and one that is
\* empty of a command about to fill it, or killed (benchmark_suite.c:178-211).
THEOREM EvidenceEarned == Spec => []EvidenceIsEarned
<1>1. IInv => EvidenceIsEarned
  BY TypesFollow DEF IInv, FileInv, EvidenceIsEarned, At, Types, FileStates
<1> QED
  BY <1>1, EvidenceInvariant, PTL

\* However the files change while a summary reads them: it says COMPLETE
\* exactly when it reports something in every section, it counts the others
\* as missing, and what it reports was measured (final_summary.c:3461-3556).
THEOREM SummariesHonest == Spec => []SummaryIsHonest
<1>1. IInv => SummaryIsHonest
  <2> SUFFICES ASSUME IInv, NEW n \in Run, run[n].status # "none"
               PROVE  /\ run[n].status = "COMPLETE" <=>
                            \A k \in Kinds : \E e \in run[n].seen : e.kind = k
                      /\ run[n].missing = Cardinality({k \in Kinds : \A e \in run[n].seen : e.kind # k})
                      /\ \A e \in run[n].seen : \A m \in e.by : run[m].measured
    BY DEF SummaryIsHonest
  <2>1. /\ IsFiniteSet(run[n].read) /\ run[n].missing = Cardinality(Unseen(n))
        /\ run[n].read = Kinds /\ (run[n].status = "COMPLETE" <=> run[n].missing = 0)
        /\ \A e \in run[n].seen : \A m \in e.by : run[m].measured
    BY DEF IInv, SummaryInv
  <2>2. Unseen(n) = {k \in Kinds : \A e \in run[n].seen : e.kind # k}
    BY <2>1 DEF Unseen
  <2>3. Cardinality(Unseen(n)) = 0 <=> Unseen(n) = {}
    <3>1. Unseen(n) \in SUBSET run[n].read
      BY DEF Unseen
    <3> QED
      BY <2>1, <3>1, FS_Subset, FS_EmptySet
  <2> QED
    BY <2>1, <2>2, <2>3
<1> QED
  BY <1>1, EvidenceInvariant, PTL

\* A manifest with exit code 0 is of a measurement that was made and passed;
\* its result file and the one beside it were written by some command, but
\* for the three that do not look (integrity_verifier.c:2377,
\* syscall_profiler.c:919-924, shm_optimizer.c:148-182).
THEOREM ManifestsTrue == Spec => []ManifestsAreTrue
<1>1. IInv => ManifestsAreTrue
  BY DEF IInv, CodeInv, Shown, Saved, ManifestsAreTrue
<1> QED
  BY <1>1, EvidenceInvariant, PTL

\* No demo changes a file with canonical parameters, and none has bytes in
\* one that others change (README.md:319).
THEOREM DemosKeep == Spec => DemosKeepEvidence
<1> DEFINE Kept ==
      \A k \in Kinds :
        \A file \in {<<evidence[k]["canonical"], evidence'[k]["canonical"]>>,
                     <<trials[k]["canonical"], trials'[k]["canonical"]>>} :
          file[1] # file[2] => \A n \in file[2].by : run[n].via # "demo"
<1>1. IInv /\ [Next]_vars => [Kept]_vars
  <2> SUFFICES ASSUME IInv, Next, NEW k \in Kinds
               PROVE  /\ evidence[k]["canonical"] # evidence'[k]["canonical"] =>
                            \A n \in evidence'[k]["canonical"].by : run[n].via # "demo"
                      /\ trials[k]["canonical"] # trials'[k]["canonical"] =>
                            \A n \in trials'[k]["canonical"].by : run[n].via # "demo"
    OBVIOUS
  <2>1. /\ evidence \in [Kinds -> [ParameterSets -> FileStates]]
        /\ trials \in [Kinds -> [ParameterSets -> FileStates]]
        /\ \A m \in evidence[k]["canonical"].by : run[m].via # "demo"
        /\ \A m \in trials[k]["canonical"].by : run[m].via # "demo"
        /\ \A m \in Run : run[m].via = "demo" => run[m].set # "canonical"
    BY DEF IInv, Types, FileInv, TrialInv, PlaceInv, ParameterSets, DemoSet
  <2>2. ASSUME NEW n \in Run, UNCHANGED <<evidence, trials>>
        PROVE  /\ evidence[k]["canonical"] = evidence'[k]["canonical"]
               /\ trials[k]["canonical"] = trials'[k]["canonical"]
    BY <2>2
  <2>3. ASSUME NEW n \in Run, NEW f, UNCHANGED evidence,
               f.by \subseteq trials[run[n].kind][run[n].set].by \cup {n},
               trials' = [trials EXCEPT ![run[n].kind][run[n].set] = f]
        PROVE  trials[k]["canonical"] # trials'[k]["canonical"] =>
                 \A m \in trials'[k]["canonical"].by : run[m].via # "demo"
    <3>1. CASE run[n].kind = k /\ run[n].set = "canonical"
      BY <2>1, <2>3, <3>1
    <3>2. CASE ~ (run[n].kind = k /\ run[n].set = "canonical")
      BY <2>1, <2>3, <3>2
    <3> QED
      BY <3>1, <3>2
  <2>4. ASSUME NEW n \in Run, NEW f, UNCHANGED trials,
               f.by \subseteq evidence[run[n].kind][run[n].set].by \cup {n},
               evidence' = [evidence EXCEPT ![run[n].kind][run[n].set] = f]
        PROVE  evidence[k]["canonical"] # evidence'[k]["canonical"] =>
                 \A m \in evidence'[k]["canonical"].by : run[m].via # "demo"
    <3>1. CASE run[n].kind = k /\ run[n].set = "canonical"
      BY <2>1, <2>4, <3>1
    <3>2. CASE ~ (run[n].kind = k /\ run[n].set = "canonical")
      BY <2>1, <2>4, <3>2
    <3> QED
      BY <3>1, <3>2
  <2> PICK n \in Run :
        \/ Start(n) \/ OpenTrials(n) \/ Measure(n) \/ SaveTrials(n) \/ CloseTrials(n)
        \/ OpenEvidence(n) \/ CloseEvidence(n)
        \/ RecordText(n) \/ RecordCsv(n) \/ Summarise(n) \/ ReadSection(n) \/ CloseSummary(n)
        \/ Kill(n)
    BY DEF Next
  <2>5. CASE UNCHANGED <<evidence, trials>>
    BY <2>2, <2>5
  <2>6. CASE OpenTrials(n)
    <3>1. File("empty", n).by = {n}
      BY DEF File
    <3>2. \/ UNCHANGED <<evidence, trials>>
          \/ /\ UNCHANGED evidence
             /\ trials' = [trials EXCEPT ![run[n].kind][run[n].set] = File("empty", n)]
      BY <2>6 DEF OpenTrials
    <3> QED
      BY <2>2, <2>3, <3>1, <3>2
  <2>7. CASE Measure(n)
    <3>1. File("full", n).by = {n} /\ File("partial", n).by = {n}
      BY DEF File
    <3>2. /\ UNCHANGED evidence
          /\ \/ UNCHANGED trials
             \/ trials' = [trials EXCEPT ![run[n].kind][run[n].set] = File("full", n)]
             \/ trials' = [trials EXCEPT ![run[n].kind][run[n].set] = File("partial", n)]
      BY <2>7 DEF Measure
    <3> QED
      BY <2>2, <2>3, <3>1, <3>2
  <2>8. CASE OpenEvidence(n)
    <3>1. File("empty", n).by = {n}
      BY DEF File
    <3>2. \/ UNCHANGED <<evidence, trials>>
          \/ /\ UNCHANGED trials
             /\ evidence' = [evidence EXCEPT ![run[n].kind][run[n].set] = File("empty", n)]
      BY <2>8 DEF OpenEvidence
    <3> QED
      BY <2>2, <2>4, <3>1, <3>2
  <2>9. CASE CloseEvidence(n)
    <3>1. PICK f \in Closed(evidence[run[n].kind][run[n].set], n) :
            /\ UNCHANGED trials
            /\ evidence' = [evidence EXCEPT ![run[n].kind][run[n].set] = f]
      BY <2>9 DEF CloseEvidence
    <3>2. f.by \subseteq evidence[run[n].kind][run[n].set].by \cup {n}
      BY <3>1 DEF Closed, File
    <3> QED
      BY <2>4, <3>1, <3>2
  <2>10. CASE SaveTrials(n)
    <3>1. File("empty", n).by = {n}
      BY DEF File
    <3>2. \/ UNCHANGED <<evidence, trials>>
          \/ /\ UNCHANGED evidence
             /\ trials' = [trials EXCEPT ![run[n].kind][run[n].set] = File("empty", n)]
      BY <2>10 DEF SaveTrials
    <3> QED
      BY <2>2, <2>3, <3>1, <3>2
  <2>11. CASE CloseTrials(n)
    <3>1. PICK f \in Closed(trials[run[n].kind][run[n].set], n) :
            /\ UNCHANGED evidence
            /\ trials' = [trials EXCEPT ![run[n].kind][run[n].set] = f]
      BY <2>11 DEF CloseTrials
    <3>2. f.by \subseteq trials[run[n].kind][run[n].set].by \cup {n}
      BY <3>1 DEF Closed, File
    <3> QED
      BY <2>3, <3>1, <3>2
  <2> QED
    BY <2>5, <2>6, <2>7, <2>8, <2>9, <2>10, <2>11
       DEF Start, RecordText, RecordCsv, Summarise, ReadSection, CloseSummary, Kill
<1> QED
  BY <1>1, EvidenceInvariant, PTL DEF Spec, DemosKeepEvidence
=============================================================================
