---------------------------- MODULE MemorySeries ----------------------------
(***************************************************************************)
(* TrialSeries with the trials of the memory optimizer taken step by step: *)
(* between two results of a series of that kind lies a whole PageTrial,    *)
(* whose failure ends the series.  The trials of the other kinds stay one  *)
(* step.                                                                   *)
(***************************************************************************)
EXTENDS TrialSeries

CONSTANTS PageSize, Totals, Chunks,   \* of PageTrial
          TrialFaults                 \* what may go wrong in a trial

VARIABLES call, step, held, ended, offset, completed, mapped, hinted, minflt, usage, written

Page == INSTANCE PageTrial WITH pc <- step, answer <- ended, Faults <- TrialFaults

ASSUME PageTrialAssumption == Page!PageAssumption
ASSUME TrialFaultAssumption == TrialFaults # {} => "trial" \in Faults

pageVars == <<call, step, held, ended, offset, completed, mapped, hinted, minflt, usage, written>>
allVars == <<vars, pageVars>>

MemoryModeName == <<"DEMAND", "PREFAULT", "WILLNEED">>
ASSUME ThreeMemoryModes == ModeCount["memory"] = Len(MemoryModeName)

\* The calls of a series differ in the mode alone; a series of another kind
\* makes none.
SeriesInit ==
  /\ Init
  /\ Page!Init
  /\ call.mode = MemoryModeName[1]
  /\ kind # "memory" => \A total \in Totals, chunk \in Chunks :
                          call.total =< total /\ call.chunk =< chunk

InTrial == kind = "memory" /\ pc = "run"

TrialStep == InTrial /\ Page!Next /\ UNCHANGED vars

\* A result is kept and the next mapping is a fresh one; the count of faults
\* of the process goes on.
KeepTrial ==
  /\ InTrial /\ ended = "ok"
  /\ RunTrial
  /\ call' = [call EXCEPT !.mode = MemoryModeName[Mode' + 1]]
  /\ step' = "shm_open" /\ ended' = "pending"
  /\ offset' = 0 /\ completed' = 0 /\ mapped' = {} /\ hinted' = {}
  /\ usage' = Page!NoUsage /\ written' = [b \in Page!Bytes |-> 0]
  /\ UNCHANGED <<held, minflt>>

\* A break out of the loop over the modes in place of the return.
GiveUpBreaks ==
  /\ InTrial /\ ended = "failed"
  /\ Goto("summarize")
  /\ UNCHANGED <<kind, trials, outer, inner, data, measured, rows, medians, summary, pageVars>>

GiveUp == InTrial /\ ended = "failed" /\ TrialFails /\ UNCHANGED pageVars

\* What is not inside a trial of the memory optimizer.
Outside ==
  /\ ~ InTrial
  /\ OpenTrials \/ RunTrial \/ TrialFails \/ Sort \/ Summarize \/ SaveTrials \/ SaveSummary
  /\ UNCHANGED pageVars

SeriesNext == TrialStep \/ KeepTrial \/ GiveUp \/ Outside

SeriesSpec == SeriesInit /\ [][SeriesNext]_allVars

-----------------------------------------------------------------------------
(* What has to hold.                                                       *)

\* Every trial of a series starts with nothing held over from the one
\* before, and its faults add up although the counts go on: what the summary
\* sets side by side was measured on the same work
\* (memory_optimizer.c:379-455, 711-985, 1301-1345).
TrialsAreComparable ==
  /\ Page!FaultsAddUp
  /\ Page!NothingLeaks
  /\ step = "shm_open" => held = {}

\* The memory optimizer is a TrialSeries: the steps inside a trial change
\* nothing of the series, and only a trial that came to its end has a result
\* (memory_optimizer.c:1328-1345).
IsSeries == Spec
=============================================================================
