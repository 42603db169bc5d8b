----------------------------- MODULE ChunkSweep -----------------------------
(***************************************************************************)
(* optimize-chunk: run_chunk_optimizer has run_benchmark_suite measure     *)
(* every method once per chunk size, reads back the CSV the suite wrote    *)
(* and marks the best chunk size of each method.                           *)
(*                                                                         *)
(* The CSV between the two is named after the chunk size alone, so that    *)
(* two sweeps that run at the same time share it.  A file is empty from    *)
(* fopen("w") to fclose and then holds all its rows; reading one takes a   *)
(* single read, so that opening it and reading it are one step here.  A    *)
(* file that is unlinked while a suite has it open is lost to everyone     *)
(* but that suite.                                                         *)
(***************************************************************************)
EXTENDS Integers, FiniteSets

CONSTANTS Sweeps,       \* the sweeps that are running
          ChunkCount,   \* nchunks: sizes are numbered from 1
          MethodCount,  \* nmethods, also numbered from 1
          Latencies,    \* the medians that are measured
          Faults        \* what may go wrong, a subset of FaultKinds

FaultKinds == {"alloc", "trial", "open", "output", "kill"}

\* What whoever takes an instance of this module has to assume.
SweepAssumption ==
  /\ IsFiniteSet(Sweeps)
  /\ ChunkCount \in Nat \ {0} /\ MethodCount \in Nat \ {0}
  /\ Latencies \subseteq Nat \ {0}
  /\ Faults \subseteq FaultKinds

Chunk == 1..ChunkCount
Method == 1..MethodCount

VARIABLES
  pc,         \* where each sweep is
  chunk,      \* the chunk size it is at
  buffers,    \* how many of its trial buffers have been allocated
  medians,    \* what its suite measured at this chunk size
  linked,     \* whether the file it has open for writing still has its name
  rows,       \* what it has read back, by chunk size and method
  best,       \* the best chunk size of each method, 0 before it is known
  published,  \* the result files it has written
  tmp         \* the CSV of each chunk size

vars == <<pc, chunk, buffers, medians, linked, rows, best, published, tmp>>

NoFile == [state |-> "absent", by |-> 0, chunk |-> 0, ms |-> <<>>]
EmptyFile == [NoFile EXCEPT !.state = "empty"]

\* A row of the OptRow array: calloc leaves zeros.
Zero == [by |-> 0, chunk |-> 0, method |-> 0, ms |-> 0]

Init ==
  /\ pc = [p \in Sweeps |-> "suite"]
  /\ chunk = [p \in Sweeps |-> 1]
  /\ buffers = [p \in Sweeps |-> 0]
  /\ medians = [p \in Sweeps |-> [m \in Method |-> 0]]
  /\ linked = [p \in Sweeps |-> FALSE]
  /\ rows = [p \in Sweeps |-> [c \in Chunk |-> [m \in Method |-> Zero]]]
  /\ best = [p \in Sweeps |-> [m \in Method |-> 0]]
  /\ published = [p \in Sweeps |-> {}]
  /\ tmp = [c \in Chunk |-> NoFile]

At(p, place) == pc[p] = place
Goto(p, place) == pc' = [pc EXCEPT ![p] = place]
Fault(f) == f \in Faults

-----------------------------------------------------------------------------
(* The suite.                                                              *)

\* The buffer of the next method, and its trials.  When these fail, every
\* element of trial_buffers is freed, also the ones that were never set:
\* free() takes a null pointer and aborts on most other values.
RunMethod(p) ==
  /\ At(p, "suite")
  /\ buffers[p] < MethodCount
  /\ \/ /\ \E ms \in Latencies :
             medians' = [medians EXCEPT ![p][buffers[p] + 1] = ms]
        /\ buffers' = [buffers EXCEPT ![p] = @ + 1]
        /\ UNCHANGED pc
     \/ Fault("alloc") /\ Goto(p, "failed") /\ UNCHANGED <<buffers, medians>>
     \/ /\ Fault("trial")
        /\ \/ Goto(p, "failed")
           \/ buffers[p] + 1 < MethodCount /\ Goto(p, "crashed")
        /\ UNCHANGED <<buffers, medians>>
  /\ UNCHANGED <<chunk, linked, rows, best, published, tmp>>

\* The name of the file the suite is told to write.
TmpNameShared(c) == 1
TmpName(c) == c

OpenCsv(p) ==
  /\ At(p, "suite")
  /\ buffers[p] = MethodCount
  /\ \/ /\ tmp' = [tmp EXCEPT ![TmpName(chunk[p])] = EmptyFile]
        /\ linked' = [linked EXCEPT ![p] = TRUE]
        /\ Goto(p, "close")
     \/ Fault("open") /\ Goto(p, "failed") /\ UNCHANGED <<tmp, linked>>
  /\ UNCHANGED <<chunk, buffers, medians, rows, best, published>>

CloseCsv(p) ==
  /\ At(p, "close")
  /\ tmp' = IF linked[p]
            THEN [tmp EXCEPT ![TmpName(chunk[p])] =
                    [state |-> "full", by |-> p, chunk |-> chunk[p], ms |-> medians[p]]]
            ELSE tmp
  /\ buffers' = [buffers EXCEPT ![p] = 0]
  /\ medians' = [medians EXCEPT ![p] = [m \in Method |-> 0]]
  /\ Goto(p, "parse")
  /\ UNCHANGED <<chunk, linked, rows, best, published>>

-----------------------------------------------------------------------------
(* The optimizer.                                                          *)

\* Nothing is unlinked on the way out.
ParseCsv(p) ==
  /\ At(p, "parse")
  /\ LET file == tmp[TmpName(chunk[p])]
     IN IF file.state = "full"
        THEN /\ rows' = [rows EXCEPT ![p][chunk[p]] =
                           [m \in Method |-> [by |-> file.by, chunk |-> file.chunk,
                                              method |-> m, ms |-> file.ms[m]]]]
             /\ Goto(p, "unlink")
        ELSE Goto(p, "failed") /\ UNCHANGED rows
  /\ UNCHANGED <<chunk, buffers, medians, linked, best, published, tmp>>

\* Not the file that a suite with the same chunk size has open: that one is
\* cut off from its name.
UnlinkForgotten(p) ==
  /\ At(p, "unlink")
  /\ chunk' = [chunk EXCEPT ![p] = IF @ < ChunkCount THEN @ + 1 ELSE @]
  /\ Goto(p, IF chunk[p] < ChunkCount THEN "suite" ELSE "best")
  /\ UNCHANGED <<buffers, medians, linked, rows, best, published, tmp>>

UnlinkOneTooFar(p) ==
  /\ At(p, "unlink")
  /\ tmp' = [tmp EXCEPT ![TmpName(chunk[p])] = NoFile]
  /\ chunk' = [chunk EXCEPT ![p] = @ + 1]
  /\ Goto(p, IF chunk[p] =< ChunkCount THEN "suite" ELSE "best")
  /\ UNCHANGED <<buffers, medians, linked, rows, best, published>>

Unlink(p) ==
  /\ At(p, "unlink")
  /\ tmp' = [tmp EXCEPT ![TmpName(chunk[p])] = NoFile]
  /\ linked' = [q \in Sweeps |-> linked[q] /\ TmpName(chunk[q]) # TmpName(chunk[p])]
  /\ chunk' = [chunk EXCEPT ![p] = IF @ < ChunkCount THEN @ + 1 ELSE @]
  /\ Goto(p, IF chunk[p] < ChunkCount THEN "suite" ELSE "best")
  /\ UNCHANGED <<buffers, medians, rows, best, published>>

\* The loop over the chunk sizes: the first median, then every smaller one.
Smaller(a, b) == a < b

BestChunk(p, m) ==
  LET upTo[c \in Chunk] ==
        IF c = 1 THEN 1
        ELSE IF Smaller(rows[p][c][m].ms, rows[p][upTo[c - 1]][m].ms) THEN c ELSE upTo[c - 1]
  IN upTo[ChunkCount]

MarkBest(p) ==
  /\ At(p, "best")
  /\ best' = [best EXCEPT ![p] = [m \in Method |-> BestChunk(p, m)]]
  /\ Goto(p, "detail")
  /\ UNCHANGED <<chunk, buffers, medians, linked, rows, published, tmp>>

WriteDetail(p) ==
  /\ At(p, "detail")
  /\ \/ published' = [published EXCEPT ![p] = @ \cup {"detail"}] /\ Goto(p, "summary")
     \/ Fault("output") /\ Goto(p, "failed") /\ UNCHANGED published
  /\ UNCHANGED <<chunk, buffers, medians, linked, rows, best, tmp>>

WriteSummary(p) ==
  /\ At(p, "summary")
  /\ \/ published' = [published EXCEPT ![p] = @ \cup {"summary"}] /\ Goto(p, "ok")
     \/ Fault("output") /\ Goto(p, "failed") /\ UNCHANGED published
  /\ UNCHANGED <<chunk, buffers, medians, linked, rows, best, tmp>>

Ended == {"ok", "failed", "crashed", "killed"}

Kill(p) ==
  /\ Fault("kill")
  /\ pc[p] \notin Ended
  /\ Goto(p, "killed")
  /\ UNCHANGED <<chunk, buffers, medians, linked, rows, best, published, tmp>>

Next == \E p \in Sweeps :
  \/ RunMethod(p) \/ OpenCsv(p) \/ CloseCsv(p)
  \/ ParseCsv(p) \/ Unlink(p) \/ MarkBest(p) \/ WriteDetail(p) \/ WriteSummary(p)
  \/ Kill(p)

Spec == Init /\ [][Next]_vars

-----------------------------------------------------------------------------
(* What has to hold.                                                       *)

Files == [state : {"absent", "empty", "full"}, by : Sweeps \cup {0}, chunk : 0..ChunkCount,
          ms : [Method -> Latencies] \cup {<<>>}]
RowSet == [by : Sweeps \cup {0}, chunk : 0..ChunkCount, method : 0..MethodCount,
           ms : Latencies \cup {0}]

\* Types of all variables.
TypeOK ==
  /\ pc \in [Sweeps -> Ended \cup {"suite", "close", "parse", "unlink", "best", "detail",
                                   "summary"}]
  /\ chunk \in [Sweeps -> Chunk] /\ buffers \in [Sweeps -> 0..MethodCount]
  /\ medians \in [Sweeps -> [Method -> Latencies \cup {0}]]
  /\ linked \in [Sweeps -> BOOLEAN]
  /\ rows \in [Sweeps -> [Chunk -> [Method -> RowSet]]]
  /\ best \in [Sweeps -> [Method -> 0..ChunkCount]]
  /\ published \in [Sweeps -> SUBSET {"detail", "summary"}]
  /\ tmp \in [Chunk -> Files]

\* Well-typed; and whoever else is sweeping, what a sweep publishes has a measurement in
\* every row, made with the chunk size and the method of the row, and the
\* best of a method is the smallest chunk size with the lowest median
\* (optimizer.c:74-126).
SweepIsSound ==
  /\ TypeOK
  /\ \A p \in Sweeps : published[p] # {} =>
       \A m \in Method, c \in Chunk :
         /\ rows[p][c][m].chunk = c /\ rows[p][c][m].method = m /\ rows[p][c][m].ms # 0
         /\ rows[p][best[p][m]][m].ms =< rows[p][c][m].ms
         /\ c < best[p][m] => rows[p][best[p][m]][m].ms < rows[p][c][m].ms

\* A file is only left behind by a sweep that did not get to its end
\* (optimizer.c:111).
NoFileLeft ==
  (\A p \in Sweeps : At(p, "ok")) => \A c \in Chunk : tmp[c].state = "absent"

\* What the comment at the head of the optimizer says: it parses the CSV
\* that its own run of the suite produced (optimizer.c:10-16).
OwnMeasurements ==
  \A p \in Sweeps : published[p] # {} =>
    \A c \in Chunk, m \in Method : rows[p][c][m].by = p
=============================================================================
