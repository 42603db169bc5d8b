------------------------------ MODULE Commands -------------------------------
(***************************************************************************)
(* Five parts of fastipc that have no state in common, side by side: main  *)
(* with its arguments (CommandLine), the adaptive selector, the            *)
(* system-call profiler, the way of the environment profile into the final *)
(* summary, and the sweeps of optimize-chunk.  Which one it is is chosen   *)
(* at the start; the others stay as they are.                              *)
(***************************************************************************)
EXTENDS CommandLine

\* Several commands at a time: their number, and the times they measure.
CONSTANTS MaxCommands, Latencies

CONSTANTS Streams, RingChunks, DefaultChunk, MaxMeasured, SelectorFaults
VARIABLES commands, summary, ring, profile, clock, measured
selectorVars == <<commands, summary, ring, profile, clock, measured>>

Selector == INSTANCE Selector WITH cmd <- commands, Faults <- SelectorFaults

CONSTANTS Methods, Names, ProfilerFaults
VARIABLES profilers, strace, raw, csv, comparison
syscallsVars == <<profilers, strace, raw, csv, comparison>>

Syscalls == INSTANCE Syscalls WITH cmd <- profilers, Faults <- ProfilerFaults

CONSTANTS Columns, FieldTexts, MaxFields, EnvironmentFaults
VARIABLES stage, saved, found, row, fields
environmentVars == <<stage, saved, found, row, fields>>

EnvironmentRow == INSTANCE EnvironmentCsv WITH
  pc <- stage, answer <- saved, Texts <- FieldTexts, Faults <- EnvironmentFaults

CONSTANTS Sweeps, ChunkCount, MethodCount, SweepFaults
VARIABLES sweeping, chunk, buffers, medians, linked, rows, best, published, tmp
sweepVars == <<sweeping, chunk, buffers, medians, linked, rows, best, published, tmp>>

Sweep == INSTANCE ChunkSweep WITH pc <- sweeping, Faults <- SweepFaults

ASSUME SelectorInstance == Selector!SelectorAssumption
ASSUME SyscallsInstance == Syscalls!SyscallsAssumption
ASSUME EnvironmentInstance == EnvironmentRow!EnvironmentAssumption
ASSUME SweepInstance == Sweep!SweepAssumption

VARIABLE part
allVars == <<part, vars, selectorVars, syscallsVars, environmentVars, sweepVars>>

-----------------------------------------------------------------------------
(* The parts side by side.                                                 *)

\* main without a command, and nothing of the others.
NoMain == cmd = "none" /\ argc = "wrong" /\ Init
NoSelector == /\ commands = 0 /\ summary = 0 /\ ring = 0 /\ profile = 0 /\ clock = 0
              /\ measured = 0
NoSyscalls == profilers = 0 /\ strace = 0 /\ raw = 0 /\ csv = 0 /\ comparison = 0
NoEnvironment == stage = 0 /\ saved = 0 /\ found = 0 /\ row = 0 /\ fields = 0
NoSweep == /\ sweeping = 0 /\ chunk = 0 /\ buffers = 0 /\ medians = 0 /\ linked = 0 /\ rows = 0
           /\ best = 0 /\ published = 0 /\ tmp = 0

CommandsInit ==
  \/ part = "main" /\ Init /\ NoSelector /\ NoSyscalls /\ NoEnvironment /\ NoSweep
  \/ part = "selector" /\ Selector!Init /\ NoMain /\ NoSyscalls /\ NoEnvironment /\ NoSweep
  \/ part = "syscalls" /\ Syscalls!Init /\ NoMain /\ NoSelector /\ NoEnvironment /\ NoSweep
  \/ part = "environment" /\ EnvironmentRow!Init /\ NoMain /\ NoSelector /\ NoSyscalls /\ NoSweep
  \/ part = "sweep" /\ Sweep!Init /\ NoMain /\ NoSelector /\ NoSyscalls /\ NoEnvironment

MainNext ==
  /\ part = "main" /\ Next
  /\ UNCHANGED <<part, selectorVars, syscallsVars, environmentVars, sweepVars>>
SelectorNext ==
  /\ part = "selector" /\ Selector!Next
  /\ UNCHANGED <<part, vars, syscallsVars, environmentVars, sweepVars>>
SyscallsNext ==
  /\ part = "syscalls" /\ Syscalls!Next
  /\ UNCHANGED <<part, vars, selectorVars, environmentVars, sweepVars>>
EnvironmentNext ==
  /\ part = "environment" /\ EnvironmentRow!Next
  /\ UNCHANGED <<part, vars, selectorVars, syscallsVars, sweepVars>>
SweepNext ==
  /\ part = "sweep" /\ Sweep!Next
  /\ UNCHANGED <<part, vars, selectorVars, syscallsVars, environmentVars>>

CommandsNext == MainNext \/ SelectorNext \/ SyscallsNext \/ EnvironmentNext \/ SweepNext

CommandsSpec == CommandsInit /\ [][CommandsNext]_allVars

-----------------------------------------------------------------------------
(* What has to hold.                                                       *)

(* OutputsAreNamed is that of CommandLine; the others are about the part   *)
(* that was chosen.                                                        *)

\* Selector: a recommendation is the best of published measurements, and
\* stale only if it was taken over (adaptive_selector.c:763-1011).
RecommendationIsBest == part = "selector" => Selector!RecommendationIsBest

\* Selector: a command that no other disturbs runs the strategy it reported
\* (adaptive_selector.c:1120-1150, workload_profiler.c:441-471).
UndisturbedIsConsistent == part = "selector" => Selector!UndisturbedIsConsistent

\* Syscalls: a profile that no other strace has touched is of its own run
\* (syscall_profiler.c:101-178, 653-690).
ProfileIsOwn == part = "syscalls" => Syscalls!ProfileIsOwn

\* EnvironmentCsv: the row is read back column by column, up to the first
\* text with a comma (environment_profiler.c:574-609, final_summary.c:329-392).
RowIsReadBack == part = "environment" => EnvironmentRow!RowIsReadBack

\* ChunkSweep: whoever else is sweeping, what a sweep publishes is complete,
\* and the best chunk size is the smallest with the lowest median
\* (optimizer.c:74-126).
SweepIsSound == part = "sweep" => Sweep!SweepIsSound

\* ChunkSweep: a file is only left behind by a sweep that did not get to its
\* end (optimizer.c:111).
NoFileLeft == part = "sweep" => Sweep!NoFileLeft
=============================================================================
