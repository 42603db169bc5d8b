---------------------------- MODULE TrialSeries -----------------------------
(***************************************************************************)
(* A series of timed trials: in which order the modes under comparison are *)
(* run, what is kept of each trial, and what is concluded from them.       *)
(*                                                                         *)
(* Four commands work this way: analyze-affinity and optimize-memory turn  *)
(* the order of their modes by one from trial to trial, optimize-ring-slots*)
(* runs all trials of a mode before the next mode, and optimize-shm runs   *)
(* the baseline and the ring in turn.  A trial itself is SlotTrial, ShmRing*)
(* or PageTrial; here it fails or yields two numbers: its elapsed time and,*)
(* for the memory optimizer, the total with the setup, for the others the  *)
(* throughput.                                                             *)
(***************************************************************************)
EXTENDS Integers, Sequences, FiniteSets, SequencesExt

CONSTANTS ModeCount,    \* how many modes a kind of series compares
          TrialCounts,  \* the values of trials a kind is called with
          Latencies,    \* the times that are measured
          Work,         \* payload per unit of time is Work \div time
          Faults        \* what may go wrong, a subset of FaultKinds

Kinds == {"affinity", "memory", "slots", "shm"}
FaultKinds == {"trial", "open", "alloc"}

ASSUME ModeAssumption == ModeCount \in [Kinds -> Nat \ {0}]
ASSUME CountAssumption == TrialCounts \in [Kinds -> SUBSET (Nat \ {0})]
ASSUME LatencyAssumption == Latencies \subseteq Nat \ {0} /\ Work \in Nat
ASSUME FaultAssumption == Faults \subseteq FaultKinds

VARIABLES
  kind, trials,   \* the command and its argument
  pc, answer,
  outer, inner,   \* the two loops
  data,           \* the arrays of results
  measured,       \* what every trial measured, with its place in the order
  rows,           \* the rows of the trials file or files
  medians,        \* the medians by mode, or what stands in for them
  summary         \* the rows of the summary

vars == <<kind, trials, pc, answer, outer, inner, data, measured, rows, medians, summary>>

Modes == ModeCount[kind]
Rotates == kind \in {"affinity", "memory"}
WritesAsItRuns == Rotates

-----------------------------------------------------------------------------
(* The order of the trials.                                                *)

OuterCount == IF kind = "slots" THEN Modes ELSE trials
InnerCount == IF kind = "slots" THEN trials ELSE Modes

UnturnedMode(t, o) == o
TurnedMode(t, o) == (t + o) % Modes

Mode == CASE Rotates -> TurnedMode(outer, inner)
          [] kind = "slots" -> outer
          [] kind = "shm" -> inner
Trial == IF kind = "slots" THEN inner ELSE outer

\* Where a result is kept: an array for each mode, or one array for all.
CellByTrial(m, t) == IF kind = "slots" THEN m + t ELSE <<m, t>>
Cell(m, t) == IF kind = "slots" THEN (m * trials) + t ELSE <<m, t>>
Cells == IF kind = "slots" THEN 0..((Modes * trials) - 1) ELSE (0..(Modes - 1)) \X (0..(trials - 1))

Zero == [ms |-> 0, second |-> 0]
Second(ms) == IF kind = "memory" THEN {t \in Latencies : t >= ms} ELSE {Work \div ms}

Init ==
  /\ kind \in Kinds /\ trials \in TrialCounts[kind]
  /\ pc = IF WritesAsItRuns THEN "openTrials" ELSE "run"
  /\ answer = "pending"
  /\ outer = 0 /\ inner = 0
  /\ data = [c \in Cells |-> Zero]
  /\ measured = {} /\ rows = {} /\ medians = <<>> /\ summary = {}

Return(a) == pc' = "returned" /\ answer' = a
Goto(place) == pc' = place /\ UNCHANGED answer
Fault(f) == f \in Faults

Row(m, t, r) == [mode |-> m, trial |-> t, ms |-> r.ms, second |-> r.second]

OpenTrials ==
  /\ pc = "openTrials"
  /\ Goto("run") \/ (Fault("open") /\ Return("failed"))
  /\ UNCHANGED <<kind, trials, outer, inner, data, measured, rows, medians, summary>>

RunTrial ==
  /\ pc = "run"
  /\ \E ms \in Latencies : \E second \in Second(ms) :
       LET result == [ms |-> ms, second |-> second]
       IN /\ data' = [data EXCEPT ![Cell(Mode, Trial)] = result]
          /\ measured' = measured \cup
               {[mode |-> Mode, trial |-> Trial, order |-> inner, ms |-> ms, second |-> second]}
          /\ rows' = IF WritesAsItRuns THEN rows \cup {Row(Mode, Trial, result)} ELSE rows
  /\ IF inner + 1 < InnerCount
     THEN inner' = inner + 1 /\ Goto("run") /\ UNCHANGED outer
     ELSE /\ inner' = 0 /\ outer' = outer + 1
          /\ Goto(CASE kind = "slots" -> "summarize"
                    [] kind = "shm" -> IF outer' < OuterCount THEN "run" ELSE "sort"
                    [] Rotates -> IF outer' < OuterCount THEN "run" ELSE "summarize")
  /\ UNCHANGED <<kind, trials, medians, summary>>

TrialFails ==
  /\ pc = "run" /\ Fault("trial")
  /\ Return("failed")
  /\ UNCHANGED <<kind, trials, outer, inner, data, measured, rows, medians, summary>>

-----------------------------------------------------------------------------
(* What is concluded.  Medians and means are kept at 2 * trials times      *)
(* their value.                                                            *)

\* The values from the lowest to the highest: the k-th is the one with k at or
\* before it, the order of equal ones being that of their places.
Sorted(values) ==
  LET places == DOMAIN values
      upTo(i) == {j \in places : values[j] < values[i] \/ (values[j] = values[i] /\ j =< i)}
  IN [k \in places |-> values[CHOOSE i \in places : Cardinality(upTo(i)) = k]]

Median(values) ==
  LET s == Sorted(values) n == Len(s)
  IN n * (IF n % 2 = 0 THEN s[n \div 2] + s[(n \div 2) + 1] ELSE 2 * s[(n \div 2) + 1])

Times(m) == [t \in 1..trials |-> data[Cell(m, t - 1)].ms]
Seconds(m) == [t \in 1..trials |-> data[Cell(m, t - 1)].second]

\* qsort of the two arrays of elapsed times, in place.
Sort ==
  /\ pc = "sort"
  /\ data' = [c \in Cells |-> [data[c] EXCEPT !.ms = Sorted(Times(c[1]))[c[2] + 1]]]
  /\ medians' = [m \in 1..Modes |->
                   [ms |-> Median(Times(m - 1)),
                    second |-> 2 * FoldSeq(LAMBDA a, b : a + b, 0, Seconds(m - 1))]]
  /\ Goto("saveTrials")
  /\ UNCHANGED <<kind, trials, outer, inner, measured, rows, summary>>

\* The next mode to be summarized.  When there is no memory for a copy of
\* the values the affinity analyzer takes 0.0 for the median; the others,
\* and each of them for want of the array of values, give up.
Summarize ==
  /\ pc = "summarize"
  /\ LET m == Len(medians)
     IN \/ /\ \E lost \in SUBSET {"ms", "second"} :
                /\ lost # {} => Fault("alloc") /\ kind = "affinity"
                /\ medians' = Append(medians,
                                [ms |-> IF "ms" \in lost THEN 0 ELSE Median(Times(m)),
                                 second |-> IF "second" \in lost THEN 0 ELSE Median(Seconds(m))])
           /\ Goto(IF m + 1 = Modes THEN IF kind = "slots" THEN "saveTrials" ELSE "saveSummary"
                   ELSE IF kind = "slots" THEN "run" ELSE "summarize")
        \/ Fault("alloc") /\ Return("failed") /\ UNCHANGED medians
  /\ UNCHANGED <<kind, trials, outer, inner, data, measured, rows, summary>>

\* The ring slot optimizer remembers a failure until the summary is written,
\* optimize-shm does not mind; its two files are opened one by one.
SaveTrials ==
  /\ pc = "saveTrials"
  /\ \E kept \in SUBSET (0..(Modes - 1)) :
       /\ kept # 0..(Modes - 1) => Fault("open")
       /\ kind = "slots" => kept \in {{}, 0..(Modes - 1)}
       /\ rows' = {Row(m, t, data[Cell(m, t)]) : m \in kept, t \in 0..(trials - 1)}
  /\ Goto("saveSummary")
  /\ UNCHANGED <<kind, trials, outer, inner, data, measured, medians, summary>>

\* The first mode, and then every one that is lower.
LowestBy(key(_)) ==
  LET upTo[m \in 1..Modes] ==
        IF m = 1 THEN 1 ELSE IF key(medians[m]) < key(medians[upTo[m - 1]]) THEN m ELSE upTo[m - 1]
  IN upTo[Modes]
BestBy == <<LowestBy(LAMBDA r : r.ms), LowestBy(LAMBDA r : r.second)>>

SummaryRow(m) == [mode |-> m - 1, ms |-> medians[m].ms, second |-> medians[m].second,
                  selected |-> kind # "shm" /\ m = BestBy[1],
                  selectedTotal |-> kind = "memory" /\ m = BestBy[2]]

SavedAll == IF kind = "slots" THEN rows # {} ELSE TRUE

SaveSummary ==
  /\ pc = "saveSummary"
  /\ \/ summary' = {SummaryRow(m) : m \in 1..Modes} /\ Return(IF SavedAll THEN "ok" ELSE "failed")
     \/ /\ Fault("open")
        /\ Return(IF kind = "shm" THEN "ok" ELSE "failed")
        /\ UNCHANGED summary
  /\ UNCHANGED <<kind, trials, outer, inner, data, measured, rows, medians>>

Next == OpenTrials \/ RunTrial \/ TrialFails \/ Sort \/ Summarize \/ SaveTrials \/ SaveSummary

Spec == Init /\ [][Next]_vars

-----------------------------------------------------------------------------
(* What has to hold.                                                       *)

\* Types of all variables.
TypeOK ==
  /\ kind \in Kinds /\ trials \in TrialCounts[kind]
  /\ pc \in {"openTrials", "run", "sort", "summarize", "saveTrials", "saveSummary", "returned"}
  /\ answer \in {"pending", "ok", "failed"}
  /\ outer \in 0..OuterCount /\ inner \in 0..(InnerCount - 1)
  /\ \A m \in measured : /\ m.mode \in 0..(Modes - 1) /\ m.trial \in 0..(trials - 1)
                         /\ m.order \in Nat
  /\ Len(medians) =< Modes

\* No mode runs twice in a trial, and none runs at the same place of the
\* order again before every other mode was there: with the order turned, no
\* mode is systematically the first or the last (cpu_affinity_analyzer.c:
\* 1061-1090, memory_optimizer.c:1287-1320).
RotationIsFair ==
  Rotates => \A a, b \in measured : a # b /\ a.mode = b.mode =>
    /\ a.trial # b.trial
    /\ a.order = b.order => a.trial - b.trial >= Modes \/ b.trial - a.trial >= Modes

OneTrial(m) == [mode |-> m.mode, trial |-> m.trial, ms |-> m.ms, second |-> m.second]

\* Every row on disk has the two numbers of one and the same trial, under
\* that trial's mode and number; in a row of optimize-shm the elapsed time
\* may be that of another trial of the mode.  A series that ends well has
\* all of them, and its summary.
RowsAreTrue ==
  /\ kind # "shm" => rows \subseteq {OneTrial(m) : m \in measured}
  /\ kind = "shm" => \A r \in rows : \E a, b \in measured :
       /\ r = [OneTrial(a) EXCEPT !.ms = b.ms]
       /\ a.mode = b.mode
  /\ answer = "ok" /\ kind # "shm" =>
       /\ {<<r.mode, r.trial>> : r \in rows} = (0..(Modes - 1)) \X (0..(trials - 1))
       /\ Cardinality(summary) = Modes

MeasuredTimes(m) == [t \in 0..(trials - 1) |->
                       (CHOOSE r \in measured : r.mode = m /\ r.trial = t).ms]
MeasuredSeconds(m) == [t \in 0..(trials - 1) |->
                         (CHOOSE r \in measured : r.mode = m /\ r.trial = t).second]

\* The k-th lowest, counted from 0, of some values is v.
IsRanked(values, k, v) ==
  /\ Cardinality({t \in DOMAIN values : values[t] < v}) =< k
  /\ Cardinality({t \in DOMAIN values : values[t] =< v}) > k
IsMedian(values, x) ==
  \E t, u \in DOMAIN values : /\ IsRanked(values, (trials - 1) \div 2, values[t])
                              /\ IsRanked(values, trials \div 2, values[u])
                              /\ x = trials * (values[t] + values[u])

First(m, key(_)) ==
  \A r \in summary : /\ key(m) =< key(r)
                     /\ r.mode < m.mode => key(m) < key(r)

\* The medians of a summary are those of what was measured, unless lost, and
\* the selected mode is the first of those with the lowest.
SelectionIsBest ==
  \A r \in summary :
    /\ r.ms # 0 => IsMedian(MeasuredTimes(r.mode), r.ms)
    /\ kind # "shm" => /\ r.selected <=> First(r, LAMBDA s : s.ms)
                       /\ kind = "memory" => (r.selectedTotal <=> First(r, LAMBDA s : s.second))

\* Well-typed; and whatever trial, file or allocation fails, the rows are
\* those of the trials, and the summary follows from them
\* (shm_ring_slot_optimizer.c:1344, 1661, 1705, 1729-1750, 1915-1945,
\* memory_optimizer.c:1738-1770, shm_optimizer.c:125-182).
ResultsAreTrue == TypeOK /\ RowsAreTrue /\ SelectionIsBest

-----------------------------------------------------------------------------
(* What the source says of itself and does not do.                         *)

\* "trial,elapsed_ms,throughput_mbps,..." (shm_optimizer.c:150): the columns
\* of a row are those of its trial.
RowsAreOfOneTrial == rows \subseteq {OneTrial(m) : m \in measured}

\* "median_throughput_mbps" (shm_optimizer.c:166): the column has the median.
SecondIsMedian == \A r \in summary : r.second # 0 => IsMedian(MeasuredSeconds(r.mode), r.second)

\* "Best measured mode" (cpu_affinity_analyzer.c:1537): what was selected
\* was selected for a measured median.
BestIsMeasured == \A r \in summary : r.selected => IsMedian(MeasuredTimes(r.mode), r.ms)
=============================================================================
