------------------------------ MODULE Selector ------------------------------
(***************************************************************************)
(* The adaptive selector and the workload profiler, for one payload: which *)
(* measurements a recommendation rests on, while other commands measure,   *)
(* recommend and are killed.                                               *)
(*                                                                         *)
(* A command is recommend, auto or build-workloads, or one of the two that *)
(* measure.  What passes between them are three kinds of files: the        *)
(* summary of the chunk optimizer, one comparison of shm with its ring per *)
(* chunk size, and the adaptive profile.  As in Evidence a file is empty   *)
(* from fopen("w") to fclose and read in one piece; what was measured is   *)
(* chosen when it is published, as nobody sees it before.                  *)
(***************************************************************************)
EXTENDS Integers, Sequences, FiniteSets, SequencesExt

CONSTANTS Streams,      \* the methods other than SHM, in the order of the CSV
          RingChunks,   \* the chunk sizes shm and ring are compared at
          DefaultChunk, \* the one build-workloads uses
          Latencies,    \* the medians that are measured
          MaxCommands,  \* bound on the number of commands that are started
          MaxMeasured,  \* bound on the number of measurements they publish
          Faults        \* what may go wrong, a subset of FaultKinds

FaultKinds == {"measure", "open", "transfer", "kill"}

\* What whoever takes an instance of this module has to assume.
SelectorAssumption ==
  /\ Streams \in Seq(STRING)
  /\ IsFiniteSet(RingChunks) /\ DefaultChunk \in RingChunks /\ "chunk" \notin RingChunks
  /\ Latencies \subseteq Nat \ {0}
  /\ MaxCommands \in Nat /\ MaxMeasured \in Nat
  /\ Faults \subseteq FaultKinds

VARIABLES
  cmd,        \* the commands, in the order they were started
  summary,    \* chunk_optimization_summary: a median for each method
  ring,       \* shm_sync_optimization: the median of the ring, by chunk size
  profile,    \* adaptive_profile
  clock,      \* how many measurements have been published
  measured    \* all rows ever published

vars == <<cmd, summary, ring, profile, clock, measured>>

Command == 1..MaxCommands
Kinds == {"recommend", "auto", "workloads", "optimizeChunk", "optimizeShm"}

\* A row says which file it was measured for and, which the code does not
\* keep, when: a chunk size for a comparison, "chunk" for the optimizer.
Row(method, ms, from, stamp) == [method |-> method, ms |-> ms, from |-> from, stamp |-> stamp]
NoRow == Row("none", 0, "none", 0)

\* The rows of a chunk optimization; SHM is the last of its methods.
ChunkRows(ms, stamp) ==
  [i \in 1..(Len(Streams) + 1) |->
     Row(IF i =< Len(Streams) THEN Streams[i] ELSE "SHM", ms[i], "chunk", stamp)]
Measurements == [1..(Len(Streams) + 1) -> Latencies]

\* tail: the file goes on after its rows, with the end of a longer text that
\* another command wrote into it at the same time.
Absent == [state |-> "absent", rows |-> <<>>, best |-> 0, tail |-> FALSE]
Empty == [Absent EXCEPT !.state = "empty"]
Full(rows, best) == [state |-> "full", rows |-> rows, best |-> best, tail |-> FALSE]

Sources == {"chunk"} \cup RingChunks
Stamp(file) == IF file.state = "full" THEN file.rows[1].stamp ELSE 0

NoReport == [source |-> "none", cand |-> <<>>, best |-> 0]
NotStarted == [kind |-> "none", pc |-> "none", cand |-> <<>>, ring |-> NoRow, todo |-> {},
               since |-> [f \in Sources |-> 0], report |-> NoReport, result |-> NoRow, origin |-> "none"]

LowerOrSame(a, b) == a.ms =< b.ms
Lower(a, b) == a.ms < b.ms

\* The loop over the candidates: the first, then every lower one.
BestOf(cand) ==
  LET upTo[i \in DOMAIN cand] ==
        IF i = 1 THEN 1 ELSE IF Lower(cand[i], cand[upTo[i - 1]]) THEN i ELSE upTo[i - 1]
  IN upTo[Len(cand)]

\* What earlier commands may have left: measurements, then a profile of them.
Init ==
  /\ cmd = [n \in Command |-> NotStarted]
  /\ clock = 0
  /\ \/ summary = Absent
     \/ \E ms \in Measurements : summary = Full(ChunkRows(ms, 0), 0)
  /\ \/ ring = [c \in RingChunks |-> Absent]
     \/ \E ms \in Latencies :
          ring = [c \in RingChunks |-> IF c = DefaultChunk
                                       THEN Full(<<Row("SHM-RING", ms, c, 0)>>, 0) ELSE Absent]
  /\ measured = UNION {ToSet(file.rows) : file \in {summary} \cup {ring[c] : c \in RingChunks}}
  /\ \/ profile = Absent
     \/ /\ summary.state = "full" /\ ring[DefaultChunk].state = "full"
        /\ LET cand == Append(Front(summary.rows), ring[DefaultChunk].rows[1])
           IN profile = Full(cand, BestOf(cand))

At(n, place) == cmd[n].pc = place
Goto(n, place) == cmd' = [cmd EXCEPT ![n].pc = place]
Fault(f) == f \in Faults

\* A process that ends takes its memory with it; what it reported stays said.
End(n, how) == cmd' = [cmd EXCEPT ![n].pc = how, ![n].cand = <<>>, ![n].ring = NoRow,
                                  ![n].todo = {}]
Fail(n) == End(n, "failed")

FirstPlace(kind) ==
  CASE kind = "recommend" -> "check"
    [] kind = "auto" -> "autoCheck"
    [] kind = "workloads" -> "workloadCheck"
    [] kind = "optimizeChunk" -> "sweep"
    [] kind = "optimizeShm" -> "compare"

Start(n) ==
  /\ At(n, "none")
  /\ \A m \in Command : m < n => ~ At(m, "none")
  /\ \E kind \in Kinds :
       cmd' = [cmd EXCEPT ![n].kind = kind, ![n].pc = FirstPlace(kind),
                          ![n].since = [f \in Sources |->
                                          Stamp(IF f = "chunk" THEN summary ELSE ring[f])]]
  /\ UNCHANGED <<summary, ring, profile, clock, measured>>

-----------------------------------------------------------------------------
(* The measurements, on their own or as the first two steps of building a  *)
(* workload profile.                                                       *)

Sweep(n) ==
  /\ At(n, "sweep")
  /\ \/ Goto(n, "sweepClose") /\ summary' = Empty
     \/ Fault("measure") /\ Fail(n) /\ UNCHANGED summary
  /\ UNCHANGED <<ring, profile, clock, measured>>

\* Of two sweeps that have the file open the rows are those of the later:
\* load_chunk_summary stops after them, and a longer end of the other does
\* not reach it.
SweepClose(n) ==
  /\ At(n, "sweepClose")
  /\ clock < MaxMeasured
  /\ \E ms \in Measurements :
       LET rows == ChunkRows(ms, clock + 1)
       IN summary' = Full(rows, 0) /\ measured' = measured \cup ToSet(rows)
  /\ clock' = clock + 1
  /\ Goto(n, IF cmd[n].kind = "workloads" THEN "compare" ELSE "done")
  /\ UNCHANGED <<ring, profile>>

AfterCompare(n) == IF cmd[n].kind = "workloads" THEN "check" ELSE "done"

\* A comparison whose file cannot be opened counts as done.
Compare(n) ==
  /\ At(n, "compare")
  /\ \/ \E c \in (IF cmd[n].kind = "workloads" THEN {DefaultChunk} ELSE RingChunks) :
          /\ cmd' = [cmd EXCEPT ![n].pc = "compareClose", ![n].todo = {c}]
          /\ ring' = [ring EXCEPT ![c] = Empty]
     \/ Fault("measure") /\ Fail(n) /\ UNCHANGED ring
     \/ Fault("open") /\ Goto(n, AfterCompare(n)) /\ UNCHANGED ring
  /\ UNCHANGED <<summary, profile, clock, measured>>

CompareClose(n) ==
  /\ At(n, "compareClose")
  /\ clock < MaxMeasured
  /\ \E c \in cmd[n].todo, ms \in Latencies :
       LET row == Row("SHM-RING", ms, c, clock + 1)
       IN /\ ring' = [ring EXCEPT ![c] = Full(<<row>>, 0)]
          /\ measured' = measured \cup {row}
  /\ clock' = clock + 1
  /\ cmd' = [cmd EXCEPT ![n].pc = AfterCompare(n), ![n].todo = {}]
  /\ UNCHANGED <<summary, profile>>

-----------------------------------------------------------------------------
(* The two readers of a profile.                                           *)

\* load_adaptive_profile stops reading after the fourth row.
Loads(file) == file.state = "full"

\* read_selected_profile looks at every line and counts.
ReadsSelected(file) == file.state = "full" /\ ~ file.tail

-----------------------------------------------------------------------------
(* adaptive_recommend.                                                     *)

AfterRecommend(n) ==
  CASE cmd[n].kind = "recommend" -> "done"
    [] cmd[n].kind = "auto" -> "autoReload"
    [] cmd[n].kind = "workloads" -> "workloadReload"

Existing(file) == [source |-> "existing", cand |-> file.rows, best |-> file.best]

Check(n) ==
  /\ At(n, "check")
  /\ cmd' = IF Loads(profile)
            THEN [cmd EXCEPT ![n].pc = AfterRecommend(n), ![n].report = Existing(profile)]
            ELSE [cmd EXCEPT ![n].pc = "readSummary"]
  /\ UNCHANGED <<summary, ring, profile, clock, measured>>

ReadSummary(n) ==
  /\ At(n, "readSummary")
  /\ IF summary.state = "full"
     THEN cmd' = [cmd EXCEPT ![n].pc = "readRing", ![n].cand = summary.rows,
                             ![n].todo = RingChunks]
     ELSE Fail(n)
  /\ UNCHANGED <<summary, ring, profile, clock, measured>>

\* The directory lists the comparisons in any order; the lowest is kept.
BetterRing(new, old) == old = NoRow \/ new.ms < old.ms

ReadRing(n) ==
  /\ At(n, "readRing")
  /\ \E c \in cmd[n].todo :
       LET better == ring[c].state = "full" /\ BetterRing(ring[c].rows[1], cmd[n].ring)
       IN cmd' = [cmd EXCEPT ![n].todo = @ \ {c},
                             ![n].ring = IF better THEN ring[c].rows[1] ELSE @]
  /\ UNCHANGED <<summary, ring, profile, clock, measured>>

\* The candidates: all but SHM, then the ring; without a comparison the row
\* of SHM under the name of the ring.
RingOrFallback(n) ==
  IF cmd[n].ring # NoRow THEN cmd[n].ring ELSE [Last(cmd[n].cand) EXCEPT !.method = "SHM-RING"]
Candidates(n) == Append(Front(cmd[n].cand), RingOrFallback(n))

OpenProfile(n) ==
  /\ At(n, "readRing")
  /\ cmd[n].todo = {}
  /\ \/ cmd' = [cmd EXCEPT ![n].pc = "closeProfile", ![n].cand = Candidates(n), ![n].ring = NoRow]
        /\ profile' = Empty
     \/ Fault("open") /\ Fail(n) /\ UNCHANGED profile
  /\ UNCHANGED <<summary, ring, clock, measured>>

\* The report names both sources whether or not there was a comparison.
CloseProfile(n) ==
  /\ At(n, "closeProfile")
  /\ \E longer \in BOOLEAN :
       /\ longer => profile.state = "full"
       /\ profile' = [Full(cmd[n].cand, BestOf(cmd[n].cand)) EXCEPT !.tail = longer]
  /\ cmd' = [cmd EXCEPT ![n].pc = AfterRecommend(n),
                        ![n].cand = <<>>,
                        ![n].report = [source |-> "both", cand |-> cmd[n].cand,
                                       best |-> BestOf(cmd[n].cand)]]
  /\ UNCHANGED <<summary, ring, clock, measured>>

-----------------------------------------------------------------------------
(* adaptive_auto.                                                          *)

SelectedFirst(file) == file.rows[1]
Selected(file) == file.rows[file.best]

AutoCheck(n) ==
  /\ At(n, "autoCheck")
  /\ cmd' = IF Loads(profile)
            THEN [cmd EXCEPT ![n].pc = "execute", ![n].report = Existing(profile),
                             ![n].result = Selected(profile)]
            ELSE [cmd EXCEPT ![n].pc = "check"]
  /\ UNCHANGED <<summary, ring, profile, clock, measured>>

AutoReload(n) ==
  /\ At(n, "autoReload")
  /\ IF Loads(profile)
     THEN cmd' = [cmd EXCEPT ![n].pc = "execute", ![n].result = Selected(profile)]
     ELSE Fail(n)
  /\ UNCHANGED <<summary, ring, profile, clock, measured>>

Execute(n) ==
  /\ At(n, "execute")
  /\ Goto(n, "done") \/ (Fault("transfer") /\ Fail(n))
  /\ UNCHANGED <<summary, ring, profile, clock, measured>>

-----------------------------------------------------------------------------
(* generate_workload_profile.                                              *)

WorkloadCheck(n) ==
  /\ At(n, "workloadCheck")
  /\ cmd' = IF ReadsSelected(profile)
            THEN [cmd EXCEPT ![n].pc = "save", ![n].result = Selected(profile),
                             ![n].origin = "REUSED"]
            ELSE [cmd EXCEPT ![n].pc = "sweep"]
  /\ UNCHANGED <<summary, ring, profile, clock, measured>>

WorkloadReload(n) ==
  /\ At(n, "workloadReload")
  /\ IF ReadsSelected(profile)
     THEN cmd' = [cmd EXCEPT ![n].pc = "save", ![n].result = Selected(profile),
                             ![n].origin = "GENERATED"]
     ELSE Goto(n, "invalid")
  /\ UNCHANGED <<summary, ring, profile, clock, measured>>

SaveWorkloads(n) ==
  /\ At(n, "save")
  /\ Goto(n, "done") \/ (Fault("open") /\ Fail(n))
  /\ UNCHANGED <<summary, ring, profile, clock, measured>>

-----------------------------------------------------------------------------
Ended == {"done", "failed", "invalid", "killed"}

Kill(n) ==
  /\ Fault("kill")
  /\ cmd[n].pc \notin Ended \cup {"none"}
  /\ End(n, "killed")
  /\ UNCHANGED <<summary, ring, profile, clock, measured>>

Next == \E n \in Command :
  \/ Start(n)
  \/ Sweep(n) \/ SweepClose(n) \/ Compare(n) \/ CompareClose(n)
  \/ Check(n) \/ ReadSummary(n) \/ ReadRing(n) \/ OpenProfile(n) \/ CloseProfile(n)
  \/ AutoCheck(n) \/ AutoReload(n) \/ Execute(n)
  \/ WorkloadCheck(n) \/ WorkloadReload(n) \/ SaveWorkloads(n)
  \/ Kill(n)

Spec == Init /\ [][Next]_vars

-----------------------------------------------------------------------------
(* What has to hold.                                                       *)

RowSet == [method : ToSet(Streams) \cup {"SHM", "SHM-RING", "none"}, ms : Latencies \cup {0},
           from : Sources \cup {"none"}, stamp : 0..clock]
IsFile(file, rowCounts) ==
  /\ file.state \in {"absent", "empty", "full"} /\ file.tail \in BOOLEAN
  /\ ToSet(file.rows) \subseteq RowSet
  /\ Len(file.rows) \in IF file.state = "full" THEN rowCounts ELSE {0}

\* Types of all variables.
TypeOK ==
  /\ \A n \in Command :
       /\ cmd[n].kind \in Kinds \cup {"none"} /\ cmd[n].todo \subseteq RingChunks
       /\ ToSet(cmd[n].cand) \subseteq RowSet /\ cmd[n].ring \in RowSet
       /\ cmd[n].result \in RowSet /\ cmd[n].origin \in {"none", "REUSED", "GENERATED"}
       /\ cmd[n].since \in [Sources -> 0..clock]
  /\ IsFile(summary, {Len(Streams) + 1}) /\ IsFile(profile, {Len(Streams) + 1})
  /\ \A c \in RingChunks : IsFile(ring[c], {1})
  /\ clock \in 0..MaxMeasured /\ measured \subseteq RowSet

\* The rows of one profile or report: each a measurement that was published
\* (that of SHM may stand in for the ring), one per method, and the selected
\* one the first of those with the lowest median.
SoundChoice(cand, best) ==
  /\ [i \in DOMAIN cand |-> cand[i].method] = Append(Streams, "SHM-RING")
  /\ \A i \in DOMAIN cand :
       \/ cand[i] \in measured
       \/ [cand[i] EXCEPT !.method = "SHM"] \in measured
  /\ \A i \in DOMAIN cand : /\ cand[best].ms =< cand[i].ms
                            /\ i < best => cand[best].ms < cand[i].ms

\* Whoever else measures, recommends or is killed, every profile on disk and
\* every recommendation ever given is of published measurements, and the
\* best of them.
BestOfPublished ==
  /\ profile.state = "full" => SoundChoice(profile.rows, profile.best)
  /\ \A n \in Command : cmd[n].report.source # "none" =>
       SoundChoice(cmd[n].report.cand, cmd[n].report.best)

\* A recommendation older than the measurements that were on disk when the
\* command started is one that was reused: what a command builds itself is
\* from files as they were then, or newer.
StaleOnlyIfReused ==
  \A n \in Command : cmd[n].report.source # "existing" =>
    \A i \in DOMAIN cmd[n].report.cand :
      cmd[n].report.cand[i].stamp >= cmd[n].since[cmd[n].report.cand[i].from]

\* Well-typed; and a recommendation is the best of published measurements,
\* and stale only if it was taken over from a profile that was there
\* (adaptive_selector.c:763-882, 945-1011).
RecommendationIsBest == TypeOK /\ BestOfPublished /\ StaleOnlyIfReused

\* Has written, or set out to write, the profile.
Builder(n) == cmd[n].report.source = "both" \/ At(n, "closeProfile") \/ At(n, "killed")

\* As long as no other command builds a profile, auto runs the strategy it
\* has reported, and build-workloads accepts the profile it has had built
\* and takes the row it has reported (adaptive_selector.c:1120-1150,
\* workload_profiler.c:441-471).
UndisturbedIsConsistent ==
  \A n \in Command : (\A m \in Command \ {n} : ~ Builder(m)) =>
    /\ ~ At(n, "invalid")
    /\ cmd[n].result # NoRow /\ cmd[n].report.source # "none" =>
         cmd[n].result = cmd[n].report.cand[cmd[n].report.best]

-----------------------------------------------------------------------------
(* What the source says of itself and does not do.                         *)

\* "Valid profile: exactly four candidates, exactly one selected winner"
\* (adaptive_selector.c:724).
ValidMeansFourRows == Loads(profile) => ~ profile.tail

\* A report that names the synchronization optimization as its source has
\* its ring from there (adaptive_selector.c:1037).
SourceIsNamed ==
  \A n \in Command : cmd[n].report.source = "both" =>
    Last(cmd[n].report.cand).from \in RingChunks

\* "Load newly generated profile so we know which strategy to execute"
\* (adaptive_selector.c:1120): the strategy that runs is the one reported.
RunsWhatItGenerated ==
  \A n \in Command : cmd[n].kind = "auto" /\ cmd[n].result # NoRow =>
    cmd[n].result = cmd[n].report.cand[cmd[n].report.best]
=============================================================================
