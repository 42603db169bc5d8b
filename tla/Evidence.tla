------------------------------ MODULE Evidence ------------------------------
(***************************************************************************)
(* The results directory: what the commands of fastipc, started from a     *)
(* shell, by the dashboard's experiment page or by one of its demo         *)
(* presets, do to the evidence files, and what final-summary makes of      *)
(* them.  Nothing serialises the commands: the dashboard answers requests  *)
(* in threads, and kills a command that takes longer than its timeout.     *)
(*                                                                         *)
(* A command is its measurement, its result file, with some a file beside  *)
(* it, and its manifest.  A file of evidence is never only partly there    *)
(* for a reader: it fits one stdio buffer, so that it is empty from        *)
(* fopen("w") to fclose and then holds all its rows; two commands that     *)
(* have it open at once write over each other.  (The summary and the files *)
(* beside the results may be longer, but no command reads them.)  Which    *)
(* rows matter to a reader is kept, their values are not.                  *)
(***************************************************************************)
EXTENDS Integers, Sequences, FiniteSets

CONSTANTS Kinds,        \* the experiments that are run, a subset of AllKinds
          Ways,         \* how commands are started, a subset of AllWays
          MaxRuns,      \* bound on the number of commands that are started
          Faults        \* what may go wrong, a subset of FaultKinds

AllKinds == {"benchmark", "chunk", "shm", "syscalls", "workloads", "verify", "slots", "affinity",
             "memory", "environment"}
AllWays == {"shell", "dashboard", "demo"}
FaultKinds == {"measure", "open", "manifest", "kill"}

ASSUME KindsAssumption == Kinds \subseteq AllKinds
ASSUME WaysAssumption == Ways \subseteq AllWays
ASSUME BoundAssumption == MaxRuns \in Nat
ASSUME FaultAssumption == Faults \subseteq FaultKinds

VARIABLES
  run,        \* the commands, in the order they were started
  evidence,   \* the result file of each experiment and set of parameters
  trials,     \* the file beside it, where it has one: single trials, all rows, a report
  final,      \* results/final_summary.txt and .csv
  manifest    \* what each command has recorded of itself

vars == <<run, evidence, trials, final, manifest>>

Run == 1..MaxRuns

\* The canonical parameters are 100 MB and 64 KB; all others are one set.
ParameterSets == {"canonical", "other"}

\* A file's state and the commands whose bytes are in it.
Absent == [state |-> "absent", by |-> {}]
FromBefore == [state |-> "full", by |-> {}]
File(s, n) == [state |-> s, by |-> {n}]

\* What fclose makes of file f.  Whoever had it open at the same time has
\* written from its start as well: a longer end of theirs stays.
Closed(f, n) ==
  {File("full", n)} \cup
  IF f.state = "full" THEN {[state |-> "full", by |-> f.by \cup {n}]} ELSE {}

\* The experiments whose trials file is opened before the first trial.
EarlyKinds == {"affinity", "memory"}

\* The ones that write a file beside the result after measuring, before the
\* result; the trials of the two rings of optimize-shm count as one file.
LateKinds == {"chunk", "shm", "slots", "environment"}

\* The ones that go on, and answer nothing of it, when a file they write after
\* measuring cannot be opened.
IndifferentKinds == {"verify", "syscalls", "shm"}

\* The ones a demo preset runs, and the parameters it runs them with.
DemoKinds == {"benchmark", "shm", "verify", "affinity", "memory"}
DemoSetCanonical == "canonical"
DemoSet == "other"

\* COMMAND_SPECS has every command but build-workloads.
MayStart(kind, set, via) ==
  CASE via = "demo" -> kind \in DemoKinds /\ set = DemoSet
    [] via = "dashboard" -> kind # "workloads"
    [] via = "shell" -> TRUE

\* Neither of these takes parameters.
Parameterless == {"workloads", "environment", "summary"}

NotStarted == [kind |-> "none", set |-> "canonical", via |-> "none", pc |-> "none", rc |-> 0,
               measured |-> FALSE, passed |-> FALSE, read |-> {}, missing |-> 0, seen |-> {},
               status |-> "none"]

Init ==
  /\ run = [n \in Run |-> NotStarted]
  /\ \E kept \in SUBSET Kinds :
       evidence = [k \in Kinds |-> [s \in ParameterSets |->
                     IF s = "canonical" /\ k \in kept THEN FromBefore ELSE Absent]]
  /\ trials = [k \in Kinds |-> [s \in ParameterSets |-> Absent]]
  /\ final = Absent
  /\ manifest = [n \in Run |-> "none"]

-----------------------------------------------------------------------------
(* A command that measures.                                                *)

At(n, p) == run[n].pc = p
Step(n, p) == run' = [run EXCEPT ![n].pc = p]
Fail(n) == run' = [run EXCEPT ![n].pc = "txt", ![n].rc = 2]
Fault(f) == f \in Faults

FirstPlace(kind) ==
  CASE kind = "summary" -> "summarise"
    [] kind \in EarlyKinds -> "openTrials"
    [] OTHER -> "measure"

Start(n) ==
  /\ At(n, "none")
  /\ \A m \in Run : m < n => ~ At(m, "none")
  /\ \E kind \in Kinds \cup {"summary"}, set \in ParameterSets, via \in Ways :
       /\ MayStart(kind, set, via)
       /\ kind \in Parameterless => set = "canonical"
       /\ run' = [run EXCEPT ![n].kind = kind, ![n].set = set, ![n].via = via,
                             ![n].pc = FirstPlace(kind)]
  /\ UNCHANGED <<evidence, trials, final, manifest>>

OpenTrials(n) ==
  /\ At(n, "openTrials")
  /\ \/ /\ Step(n, "measure")
        /\ trials' = [trials EXCEPT ![run[n].kind][run[n].set] = File("empty", n)]
     \/ Fault("open") /\ Fail(n) /\ UNCHANGED trials
  /\ UNCHANGED <<evidence, final, manifest>>

\* The first of the files that are written after measuring.
AfterMeasuring(kind) == IF kind \in LateKinds THEN "save" ELSE "open"

MeasureIntoOpenFile(n) ==
  /\ At(n, "measure")
  /\ evidence' = [evidence EXCEPT ![run[n].kind][run[n].set] = File("empty", n)]
  /\ \/ run' = [run EXCEPT ![n].pc = AfterMeasuring(run[n].kind),
                            ![n].measured = TRUE, ![n].passed = TRUE]
     \/ Fault("measure") /\ Fail(n)
  /\ UNCHANGED <<trials, final, manifest>>

\* All the trials; only a verification can come to an end and not pass.
Measure(n) ==
  /\ At(n, "measure")
  /\ LET CloseEarly(s) ==
           trials' = IF run[n].kind \in EarlyKinds
                     THEN [trials EXCEPT ![run[n].kind][run[n].set] = File(s, n)]
                     ELSE trials
     IN \/ /\ \E p \in BOOLEAN :
                /\ run[n].kind # "verify" => p
                /\ run' = [run EXCEPT ![n].pc = AfterMeasuring(run[n].kind),
                                      ![n].measured = TRUE, ![n].passed = p]
           /\ CloseEarly("full")
        \/ Fault("measure") /\ Fail(n) /\ CloseEarly("partial")
  /\ UNCHANGED <<evidence, final, manifest>>

\* The file beside the result.  Without it optimize-shm goes on, and so does
\* optimize-ring-slots, which remembers it for what it returns.
SaveTrials(n) ==
  /\ At(n, "save")
  /\ \/ /\ Step(n, "saved")
        /\ trials' = [trials EXCEPT ![run[n].kind][run[n].set] = File("empty", n)]
     \/ /\ Fault("open")
        /\ \/ run[n].kind \in IndifferentKinds /\ Step(n, "open")
           \/ run[n].kind = "slots" /\ run' = [run EXCEPT ![n].pc = "open", ![n].rc = 2]
           \/ run[n].kind \notin IndifferentKinds \cup {"slots"} /\ Fail(n)
        /\ UNCHANGED trials
  /\ UNCHANGED <<evidence, final, manifest>>

CloseTrials(n) ==
  /\ At(n, "saved")
  /\ \E f \in Closed(trials[run[n].kind][run[n].set], n) :
       trials' = [trials EXCEPT ![run[n].kind][run[n].set] = f]
  /\ Step(n, "open")
  /\ UNCHANGED <<evidence, final, manifest>>

\* What the command returns once its measurement is done and its files are
\* written: a verification that did not pass and a file that is missing are
\* failures.
CodeOfLastFile(n) == IF run[n].passed THEN 0 ELSE 2
CodeOf(n) == IF run[n].passed /\ run[n].rc = 0 THEN 0 ELSE 2

OpenEvidence(n) ==
  /\ At(n, "open")
  /\ \/ /\ Step(n, "close")
        /\ evidence' = [evidence EXCEPT ![run[n].kind][run[n].set] = File("empty", n)]
     \/ /\ Fault("open")
        /\ IF run[n].kind \in IndifferentKinds
           THEN run' = [run EXCEPT ![n].pc = "txt", ![n].rc = CodeOf(n)]
           ELSE Fail(n)
        /\ UNCHANGED evidence
  /\ UNCHANGED <<trials, final, manifest>>

CloseEvidence(n) ==
  /\ At(n, "close")
  /\ \E f \in Closed(evidence[run[n].kind][run[n].set], n) :
       evidence' = [evidence EXCEPT ![run[n].kind][run[n].set] = f]
  /\ run' = [run EXCEPT ![n].pc = "txt", ![n].rc = CodeOf(n)]
  /\ UNCHANGED <<trials, final, manifest>>

-----------------------------------------------------------------------------
(* The manifest: a text file, then a CSV.  Failing to write it is a        *)
(* warning.                                                                *)

RecordText(n) ==
  /\ At(n, "txt")
  /\ \/ manifest' = [manifest EXCEPT ![n] = "text"] /\ Step(n, "csv")
     \/ Fault("manifest") /\ Step(n, "done") /\ UNCHANGED manifest
  /\ UNCHANGED <<evidence, trials, final>>

RecordCsv(n) ==
  /\ At(n, "csv")
  /\ \/ manifest' = [manifest EXCEPT ![n] = "both"]
     \/ Fault("manifest") /\ UNCHANGED manifest
  /\ Step(n, "done")
  /\ UNCHANGED <<evidence, trials, final>>

-----------------------------------------------------------------------------
(* final-summary.  The rows of a full file, and the ones without which a   *)
(* section is marked missing; a file that is empty has not even its header.*)

Rows(kind) ==
  CASE kind = "shm" -> {"header", "baseline", "ringbuffer"}
    [] kind = "slots" -> {"header", "slots", "selected"}
    [] kind = "affinity" -> {"header", "UNPINNED", "selected"}
    [] kind = "memory" -> {"header", "DEMAND", "critical", "strategy"}
    [] OTHER -> {"header", "row"}

BaselineFound(rows) == "header" \in rows /\ rows # {"header"}
ChunkFound(rows) == "header" \in rows
ShmSyncFound(rows) == {"header", "baseline", "ringbuffer"} \subseteq rows
SyscallsFound(rows) == "header" \in rows
WorkloadsFound(rows) == "header" \in rows
IntegrityFound(rows) == {"header", "row"} \subseteq rows
RingSlotsFound(rows) == {"header", "selected"} \subseteq rows
AffinityFound(rows) == {"header", "UNPINNED", "selected"} \subseteq rows
MemoryFound(rows) == {"header", "DEMAND", "critical", "strategy"} \subseteq rows
EnvironmentFound(rows) == {"header", "row"} \subseteq rows

Found(kind, rows) ==
  CASE kind = "benchmark" -> BaselineFound(rows)
    [] kind = "chunk" -> ChunkFound(rows)
    [] kind = "shm" -> ShmSyncFound(rows)
    [] kind = "syscalls" -> SyscallsFound(rows)
    [] kind = "workloads" -> WorkloadsFound(rows)
    [] kind = "verify" -> IntegrityFound(rows)
    [] kind = "slots" -> RingSlotsFound(rows)
    [] kind = "affinity" -> AffinityFound(rows)
    [] kind = "memory" -> MemoryFound(rows)
    [] kind = "environment" -> EnvironmentFound(rows)

\* The order of run_final_summary.  The manifests are a section that can
\* not be missing.
Sections == <<"benchmark", "chunk", "shm", "syscalls", "workloads", "verify", "slots", "affinity",
              "memory", "environment">>

Before(a, b) == \E i, j \in DOMAIN Sections : i < j /\ Sections[i] = a /\ Sections[j] = b

\* The section after those of the kinds read.
IsNext(kind, read) == kind \notin read /\ \A other \in Kinds \ read : ~ Before(other, kind)

\* The files a section is made from: the verifications are found by their
\* names, whatever their parameters.
SetsRead(kind) == IF kind = "verify" THEN ParameterSets ELSE {"canonical"}

Reported(kind) ==
  {[kind |-> kind, set |-> s, by |-> evidence[kind][s].by] :
     s \in {s \in SetsRead(kind) :
              /\ evidence[kind][s].state = "full"
              /\ Found(kind, Rows(kind))}}

Summarise(n) ==
  /\ At(n, "summarise")
  /\ \/ Step(n, "section") /\ final' = File("empty", n)
     \/ Fault("open") /\ Fail(n) /\ UNCHANGED final
  /\ UNCHANGED <<evidence, trials, manifest>>

ReadSectionUnmarked(n) ==
  /\ At(n, "section")
  /\ \E kind \in Kinds :
       /\ IsNext(kind, run[n].read)
       /\ run' = [run EXCEPT ![n].read = @ \cup {kind}, ![n].seen = @ \cup Reported(kind)]
  /\ UNCHANGED <<evidence, trials, final, manifest>>

ReadSection(n) ==
  /\ At(n, "section")
  /\ \E kind \in Kinds :
       /\ IsNext(kind, run[n].read)
       /\ run' = [run EXCEPT ![n].read = @ \cup {kind},
                             ![n].seen = @ \cup Reported(kind),
                             ![n].missing = IF Reported(kind) = {} THEN @ + 1 ELSE @]
  /\ UNCHANGED <<evidence, trials, final, manifest>>

CloseSummary(n) ==
  /\ At(n, "section")
  /\ run[n].read = Kinds
  /\ run' = [run EXCEPT ![n].pc = "txt",
                        ![n].status = IF run[n].missing = 0 THEN "COMPLETE" ELSE "PARTIAL"]
  /\ final' \in Closed(final, n)
  /\ UNCHANGED <<evidence, trials, manifest>>

-----------------------------------------------------------------------------
\* A signal from the shell, or the 300 seconds of the dashboard.
Kill(n) ==
  /\ Fault("kill")
  /\ run[n].pc \notin {"none", "done", "killed"}
  /\ Step(n, "killed")
  /\ UNCHANGED <<evidence, trials, final, manifest>>

Next == \E n \in Run :
  \/ Start(n) \/ OpenTrials(n) \/ Measure(n) \/ SaveTrials(n) \/ CloseTrials(n)
  \/ OpenEvidence(n) \/ CloseEvidence(n)
  \/ RecordText(n) \/ RecordCsv(n)
  \/ Summarise(n) \/ ReadSection(n) \/ CloseSummary(n)
  \/ Kill(n)

Spec == Init /\ [][Next]_vars

-----------------------------------------------------------------------------
(* What has to hold.                                                       *)

FileStates == [state : {"absent", "empty", "partial", "full"}, by : SUBSET Run]
Places == {"none", "openTrials", "measure", "save", "saved", "open", "close", "summarise",
           "section", "txt", "csv", "done", "killed"}

\* Types of all variables.
TypeOK ==
  /\ \A n \in Run :
       /\ run[n].kind \in Kinds \cup {"summary", "none"} /\ run[n].set \in ParameterSets
       /\ run[n].pc \in Places /\ run[n].rc \in {0, 2}
       /\ run[n].read \subseteq Kinds /\ run[n].missing \in 0..Cardinality(run[n].read)
  /\ evidence \in [Kinds -> [ParameterSets -> FileStates]]
  /\ trials \in [Kinds -> [ParameterSets -> FileStates]]
  /\ final \in FileStates
  /\ manifest \in [Run -> {"none", "text", "both"}]

\* Well-typed; and evidence is only ever replaced by measurements that came to their end: a
\* full file is the work of such, and a file is empty only while the command
\* that emptied it is about to fill it, or because that command was killed
\* (benchmark_suite.c:178-211, cpu_affinity_analyzer.c:1370-1448).
EvidenceIsEarned ==
  /\ TypeOK
  /\ \A k \in Kinds, s \in ParameterSets :
       LET f == evidence[k][s]
       IN /\ f.state = "full" => \A n \in f.by : run[n].measured
          /\ f.state = "empty" => \E n \in f.by : At(n, "close") \/ At(n, "killed")

\* No demo changes a file with canonical parameters ("Live GUI demos use
\* different parameters so canonical evidence is protected", README.md:319).
DemosKeepEvidence ==
  [][\A k \in Kinds :
       \A file \in {<<evidence[k]["canonical"], evidence'[k]["canonical"]>>,
                    <<trials[k]["canonical"], trials'[k]["canonical"]>>} :
         file[1] # file[2] => \A n \in file[2].by : run[n].via # "demo"]_vars

\* A summary says COMPLETE exactly when it has something to report in every
\* section, and all it reports was measured to the end, however many
\* commands rewrite their files while it reads (final_summary.c:3461-3556).
SummaryIsHonest ==
  \A n \in Run : run[n].status # "none" =>
    /\ run[n].status = "COMPLETE" <=> \A k \in Kinds : \E e \in run[n].seen : e.kind = k
    /\ run[n].missing = Cardinality({k \in Kinds : \A e \in run[n].seen : e.kind # k})
    /\ \A e \in run[n].seen : \A m \in e.by : run[m].measured

ResultWritten(n) == evidence[run[n].kind][run[n].set].by # {}
TrialsWritten(n) == trials[run[n].kind][run[n].set].by # {}

\* A manifest with exit code 0 is about a measurement that was made and
\* passed; and, but for the three commands that do not look
\* (integrity_verifier.c:2377, syscall_profiler.c:919-924,
\* shm_optimizer.c:148-182), its result file and the one beside it were
\* written, also where the command went on after a failure to save one
\* (shm_ring_slot_optimizer.c:1916-1951).
ManifestsAreTrue ==
  \A n \in Run : manifest[n] # "none" /\ run[n].rc = 0 /\ run[n].kind # "summary" =>
    /\ run[n].measured /\ run[n].passed
    /\ run[n].kind \notin IndifferentKinds =>
         /\ ResultWritten(n)
         /\ run[n].kind \in EarlyKinds \cup LateKinds => TrialsWritten(n)

\* What the documentation says of final-summary: it "consolidates canonical
\* CSV evidence" (README.md:127).
SummaryIsCanonical ==
  \A n \in Run : \A e \in run[n].seen : e.set = "canonical"
=============================================================================
