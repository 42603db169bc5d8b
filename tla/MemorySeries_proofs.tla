------------------------ MODULE MemorySeries_proofs ------------------------
(***************************************************************************)
(* Proofs about TrialSeries and MemorySeries, and about PageTrial, the     *)
(* trials in between: the order of the trials of a series is fair for any  *)
(* number of modes and of trials; the page faults of a trial of the memory *)
(* optimizer add up for any payload, chunk and page size, and no way out   *)
(* of it leaves more behind than what could not be given back; and         *)
(* MemorySeries implements TrialSeries, while each of its trials keeps     *)
(* what a single one keeps.  Last, the results of a series are true: its   *)
(* rows, its medians and the mode it selects follow from what was measured,*)
(* for any number of modes and trials, any times and any failure.          *)
(***************************************************************************)
EXTENDS MemorySeries, FiniteSetTheorems, WellFoundedInduction, TLAPS

-----------------------------------------------------------------------------
(* Quotients, for the pages, and remainders, for the order of the modes.   *)

\* A positive multiple of M is at least M.
LEMMA Multiple ==
  ASSUME NEW M \in Nat \ {0}, NEW k \in Int, k > 0
  PROVE  M * k >= M
<1>1. PICK j \in Nat : k = j + 1
  <2>1. k - 1 \in Nat /\ k = (k - 1) + 1
    OBVIOUS
  <2> QED
    BY <2>1
<1>2. M * k = M * j + M
  BY <1>1
<1>3. M * j >= 0
  BY <1>1
<1> QED
  BY <1>1, <1>2, <1>3

\* What lies between one multiple and the next has the first for quotient.
LEMMA QuotientIs ==
  ASSUME NEW M \in Nat \ {0}, NEW k \in Nat, NEW x \in Nat, M * k =< x, x < (M * k) + M
  PROVE  x \div M = k
<1> DEFINE q == x \div M  r == x % M
<1>1. x = (M * q) + r /\ q \in Int /\ r \in 0..(M - 1)
  OBVIOUS
<1> HIDE DEF q, r
<1>2. M * (q - k) = (x - (M * k)) - r /\ M * (k - q) = r - (x - (M * k))
  BY <1>1
<1>3. CASE q - k > 0
  <2>1. M * (q - k) >= M
    BY <1>1, <1>3, Multiple
  <2> QED
    BY <1>1, <1>2, <2>1
<1>4. CASE k - q > 0
  <2>1. M * (k - q) >= M
    BY <1>1, <1>4, Multiple
  <2> QED
    BY <1>1, <1>2, <2>1
<1> QED
  BY <1>1, <1>3, <1>4 DEF q

\* A number of units, counted in units again.
LEMMA UnitsCountBack ==
  ASSUME NEW n \in Nat, NEW unit \in Nat \ {0}
  PROVE  n * unit \in Nat /\ (n * unit) \div unit = n
<1>1. n * unit \in Nat /\ unit * n =< n * unit /\ n * unit < (unit * n) + unit
  OBVIOUS
<1> DEFINE x == n * unit
<1> HIDE DEF x
<1>2. x \in Nat /\ unit * n =< x /\ x < (unit * n) + unit
  BY <1>1 DEF x
<1>3. x \div unit = n
  BY <1>2, QuotientIs
<1> QED
  BY <1>2, <1>3 DEF x

\* The quotients of the numbers below n, rounded up in the last.
LEMMA QuotientsBelow ==
  ASSUME NEW M \in Nat \ {0}, NEW n \in Nat
  PROVE  {x \div M : x \in 0..(n - 1)} = 0..(((n + M - 1) \div M) - 1)
<1> DEFINE c == (n + M - 1) \div M  r == (n + M - 1) % M
<1>1. n + M - 1 = (M * c) + r /\ c \in Int /\ r \in 0..(M - 1)
  OBVIOUS
<1> HIDE DEF c, r
<1>2. ASSUME NEW x \in 0..(n - 1) PROVE x \div M \in 0..(c - 1)
  <2> DEFINE q == x \div M  s == x % M
  <2>1. x = (M * q) + s /\ q \in Int /\ s \in 0..(M - 1)
    OBVIOUS
  <2> HIDE DEF q, s
  <2>2. q >= 0
    <3>1. CASE 0 - q > 0
      <4>1. M * (0 - q) >= M /\ M * (0 - q) = 0 - (M * q)
        BY <2>1, <3>1, Multiple
      <4> QED
        BY <2>1, <4>1
    <3> QED
      BY <2>1, <3>1
  <2>3. q < c
    <3>1. CASE q - c = 0
      BY <1>1, <2>1, <3>1
    <3>2. CASE q - c > 0
      <4>1. M * (q - c) >= M /\ M * (q - c) = (M * q) - (M * c)
        BY <1>1, <2>1, <3>2, Multiple
      <4> QED
        BY <1>1, <2>1, <4>1
    <3> QED
      BY <1>1, <2>1, <3>1, <3>2
  <2> QED
    BY <1>1, <2>1, <2>2, <2>3 DEF q
<1>3. ASSUME NEW i \in 0..(c - 1) PROVE \E x \in 0..(n - 1) : x \div M = i
  <2>1. i \in Nat /\ c - i > 0
    BY <1>1
  <2>2. M * (c - i) >= M /\ M * (c - i) = (M * c) - (M * i)
    BY <1>1, <2>1, Multiple
  <2>3. M * i \in Nat
    BY <2>1
  <2>4. M * i \in 0..(n - 1)
    BY <1>1, <2>2, <2>3
  <2>5. (M * i) \div M = i
    <3>1. M * i = i * M
      BY <2>1
    <3> QED
      BY <2>1, <3>1, UnitsCountBack
  <2> QED
    BY <2>4, <2>5
<1> QED
  BY <1>2, <1>3 DEF c

\* Two numbers with the same remainder are equal or at least M apart.
LEMMA SameRemainder ==
  ASSUME NEW M \in Nat \ {0}, NEW x \in Nat, NEW y \in Nat, x % M = y % M, x > y
  PROVE  x - y >= M
<1>1. x = (M * (x \div M)) + (x % M) /\ y = (M * (y \div M)) + (y % M)
  OBVIOUS
<1>2. x \div M \in Int /\ y \div M \in Int /\ x % M \in 0..(M - 1)
  OBVIOUS
<1> DEFINE k == (x \div M) - (y \div M)
<1>3. k \in Int /\ x - y = M * k
  BY <1>1, <1>2
<1>4. k > 0
  <2>1. CASE k =< 0
    <3>1. M * (0 - k) >= 0
      BY <1>3, <2>1
    <3>2. M * k = 0 - M * (0 - k)
      BY <1>3
    <3> QED
      BY <1>3, <3>1, <3>2
  <2> QED
    BY <2>1, <1>3
<1> HIDE DEF k
<1>5. M * k >= M
  BY <1>3, <1>4, Multiple
<1> QED
  BY <1>3, <1>5

-----------------------------------------------------------------------------
(* The order of the trials: what has been measured lies before the two    *)
(* loop counters and was measured in the turned order.                     *)

MeasuredSoFar ==
  \A m \in measured :
    /\ m.trial \in Nat /\ m.order \in 0..(Modes - 1)
    /\ m.mode = (m.trial + m.order) % Modes
    /\ m.trial < outer \/ (m.trial = outer /\ m.order < inner)

MeasuredOnce ==
  \A a, b \in measured : a.trial = b.trial /\ a.order = b.order => a = b

LoopTypes ==
  /\ kind \in Kinds
  /\ Rotates => outer \in Nat /\ inner \in 0..(Modes - 1)

RotationInv == LoopTypes /\ (Rotates => MeasuredSoFar /\ MeasuredOnce)

\* There is at least one mode to a series.
LEMMA ModesPositive == ASSUME kind \in Kinds PROVE Modes \in Nat \ {0}
BY ModeAssumption DEF Modes

\* Within one trial every mode has its own place in the order, and a mode
\* comes back to a place only after all others.
LEMMA RotationInvFair == RotationInv => RotationIsFair
<1> SUFFICES ASSUME RotationInv, Rotates,
                    NEW a \in measured, NEW b \in measured, a # b, a.mode = b.mode
             PROVE  /\ a.trial # b.trial
                    /\ a.order = b.order => a.trial - b.trial >= Modes \/ b.trial - a.trial >= Modes
  BY DEF RotationIsFair
<1>1. Modes \in Nat \ {0}
  BY ModesPositive DEF RotationInv, LoopTypes
<1>2. /\ a.trial \in Nat /\ a.order \in 0..(Modes - 1) /\ a.mode = (a.trial + a.order) % Modes
      /\ b.trial \in Nat /\ b.order \in 0..(Modes - 1) /\ b.mode = (b.trial + b.order) % Modes
  BY DEF RotationInv, MeasuredSoFar
<1>3. /\ a.trial = b.trial => a.order = b.order
      /\ a.order = b.order /\ a.trial # b.trial =>
           a.trial - b.trial >= Modes \/ b.trial - a.trial >= Modes
  <2> DEFINE t == a.trial  u == b.trial  o == a.order  p == b.order  M == Modes
  <2>1. /\ M \in Nat \ {0} /\ t \in Nat /\ u \in Nat /\ o \in 0..(M - 1) /\ p \in 0..(M - 1)
        /\ (t + o) % M = (u + p) % M
    BY <1>1, <1>2
  <2> HIDE DEF t, u, o, p, M
  <2>2. t + o \in Nat /\ u + p \in Nat
    BY <2>1
  <2>3. /\ t + o > u + p => (t + o) - (u + p) >= M
        /\ u + p > t + o => (u + p) - (t + o) >= M
    BY <2>1, <2>2, SameRemainder
  <2>4. /\ t = u => o = p
        /\ o = p /\ t # u => t - u >= M \/ u - t >= M
    BY <2>1, <2>3
  <2> QED
    BY <2>4 DEF t, u, o, p, M
<1>4. ~ (a.trial = b.trial /\ a.order = b.order)
  BY DEF RotationInv, MeasuredOnce
<1> QED
  BY <1>3, <1>4

\* Before the first trial nothing is measured.
LEMMA RotationInvInit == Init => RotationInv
<1> SUFFICES ASSUME Init PROVE RotationInv
  OBVIOUS
<1>1. Modes \in Nat \ {0}
  BY ModesPositive DEF Init
<1> QED
  BY <1>1 DEF Init, RotationInv, LoopTypes, MeasuredSoFar, MeasuredOnce

\* A trial measures at a place of the order that no other had; all other
\* steps leave the measurements and the loops alone.
LEMMA RotationInvStep == RotationInv /\ [Next]_vars => RotationInv'
<1> SUFFICES ASSUME RotationInv, [Next]_vars PROVE RotationInv'
  OBVIOUS
<1> USE DEF RotationInv, LoopTypes
<1>1. ASSUME UNCHANGED <<kind, outer, inner, measured>> PROVE RotationInv'
  BY <1>1 DEF MeasuredSoFar, MeasuredOnce, Modes, Rotates
<1>2. CASE OpenTrials
  BY <1>1, <1>2 DEF OpenTrials
<1>3. CASE TrialFails
  BY <1>1, <1>3 DEF TrialFails
<1>4. CASE Sort
  BY <1>1, <1>4 DEF Sort
<1>5. CASE Summarize
  BY <1>1, <1>5 DEF Summarize
<1>6. CASE SaveTrials
  BY <1>1, <1>6 DEF SaveTrials
<1>7. CASE SaveSummary
  BY <1>1, <1>7 DEF SaveSummary
<1>8. CASE UNCHANGED vars
  BY <1>1, <1>8 DEF vars
<1>9. CASE RunTrial
  <2>1. kind' = kind /\ Rotates' = Rotates /\ Modes' = Modes
    BY <1>9 DEF RunTrial, Rotates, Modes
  <2> SUFFICES ASSUME Rotates PROVE RotationInv'
    BY <2>1
  <2>2. Modes \in Nat \ {0} /\ InnerCount = Modes
    BY ModesPositive DEF InnerCount, Rotates
  <2>3. PICK ms, second :
          measured' = measured \cup {[mode |-> Mode, trial |-> Trial, order |-> inner,
                                      ms |-> ms, second |-> second]}
    BY <1>9 DEF RunTrial
  <2> DEFINE new == [mode |-> Mode, trial |-> Trial, order |-> inner, ms |-> ms, second |-> second]
  <2>4. /\ new.trial = outer /\ new.order = inner
        /\ new.mode = (outer + inner) % Modes
    BY DEF Mode, Trial, TurnedMode, Rotates
  <2>5. \/ inner' = inner + 1 /\ inner + 1 < Modes /\ outer' = outer
        \/ inner' = 0 /\ outer' = outer + 1
    BY <1>9, <2>2 DEF RunTrial
  <2>6. outer' \in Nat /\ inner' \in 0..(Modes - 1)
    BY <2>2, <2>5
  <2>7. \A m \in measured' : m \in measured \/ m = new
    BY <2>3
  <2> HIDE DEF new
  <2>8. MeasuredSoFar'
    BY <2>1, <2>2, <2>4, <2>5, <2>7 DEF MeasuredSoFar
  <2>9. MeasuredOnce'
    BY <2>4, <2>7 DEF MeasuredOnce, MeasuredSoFar
  <2> QED
    BY <2>1, <2>6, <2>8, <2>9
<1> QED
  BY <1>2, <1>3, <1>4, <1>5, <1>6, <1>7, <1>8, <1>9 DEF Next

\* However many modes and trials there are: no mode runs twice in a trial, or
\* at the same place of the order before every other mode was there
\* (cpu_affinity_analyzer.c:1061-1090, memory_optimizer.c:1287-1320).
THEOREM RotationFair == Spec => []RotationIsFair
<1>1. Spec => []RotationInv
  BY RotationInvInit, RotationInvStep, PTL DEF Spec
<1> QED
  BY <1>1, RotationInvFair, PTL

-----------------------------------------------------------------------------
(* MemorySeries is a TrialSeries.                                          *)

\* A series starts as one.
LEMMA StartsAsSeries == SeriesInit => Init
BY DEF SeriesInit

\* Every step is a step of the series or leaves it as it is.
LEMMA StepsAsSeries == [SeriesNext]_allVars => [Next]_vars
<1> SUFFICES ASSUME [SeriesNext]_allVars PROVE [Next]_vars
  OBVIOUS
<1>1. CASE TrialStep
  BY <1>1 DEF TrialStep
<1>2. CASE KeepTrial
  BY <1>2 DEF KeepTrial, Next
<1>3. CASE GiveUp
  BY <1>3 DEF GiveUp, Next
<1>4. CASE Outside
  BY <1>4 DEF Outside, Next
<1>5. CASE UNCHANGED allVars
  BY <1>5 DEF allVars
<1> QED
  BY <1>1, <1>2, <1>3, <1>4, <1>5 DEF SeriesNext

\* The memory optimizer, trial by trial and page by page, is a TrialSeries
\* (memory_optimizer.c:711-1008, 1301-1408).
THEOREM SeriesImplementsTrialSeries == SeriesSpec => IsSeries
BY StartsAsSeries, StepsAsSeries, PTL DEF SeriesSpec, Spec, IsSeries

-----------------------------------------------------------------------------
(* The invariant of a trial of the memory optimizer.                       *)

Creating == {"shm_open", "ftruncate", "mmap", "unlink"}
InUse == {"before", "prefault", "madvise", "afterSetup", "workload", "afterTimed", "destroy"}
Counting == {"prefault", "madvise", "afterSetup", "workload", "afterTimed"}
Counted == step = "destroy" \/ ended = "ok"
SetUp == step \in {"workload", "afterTimed"} \/ Counted

\* What is held at each place.
HeldInv ==
  /\ ended = "pending" <=> step # "returned"
  /\ step = "shm_open" => held = {}
  /\ step \in InUse => held = {"fd", "map"}
  /\ Page!NothingLeaks

\* How far it is at each place.
ProgressInv ==
  /\ step \in Creating \cup {"before"} => mapped = {} /\ hinted = {} /\ offset = 0
  /\ step \in (Creating \cup InUse) \ {"workload", "afterTimed", "destroy"} => completed = 0
  /\ step = "afterTimed" \/ Counted => completed = call.total
  /\ step = "prefault" => call.mode = "PREFAULT"
  /\ step = "madvise" => call.mode = "WILLNEED" /\ mapped = {}
  /\ call.mode # "WILLNEED" => hinted = {}
  /\ step = "prefault" => \E k \in Nat : offset = PageSize * k

\* What the workload has written is written once, and its pages are mapped;
\* so are those the preparation has been at.
MappedInv ==
  /\ \A b \in Page!Bytes : written[b] = IF b < completed THEN 1 ELSE 0
  /\ \A b \in Page!Bytes : b < completed => Page!PageOf(b) \in mapped
  /\ step = "prefault" => \A b \in Page!Bytes : b < offset => Page!PageOf(b) \in mapped
  /\ call.mode = "PREFAULT" /\ (step = "afterSetup" \/ SetUp) => mapped = Page!Pages(Page!Bytes)

\* A page is mapped by the kernel on its own or by one fault since the first
\* snapshot; and what the preparation has faulted on.
CountInv ==
  /\ step \in Counting => minflt + Cardinality(hinted) = usage.before + Cardinality(mapped)
  /\ Counted => usage.afterTimed + Cardinality(hinted) = usage.before + Cardinality(mapped)
  /\ call.mode # "PREFAULT" /\ step \in {"madvise", "afterSetup"} => minflt = usage.before
  /\ call.mode # "PREFAULT" /\ SetUp => usage.afterSetup = usage.before
  /\ call.mode = "PREFAULT" /\ step \in {"workload", "afterTimed"} => minflt = usage.afterSetup
  /\ call.mode = "PREFAULT" /\ Counted => usage.afterTimed = usage.afterSetup

PInv == Page!TypeOK /\ HeldInv /\ ProgressInv /\ MappedInv /\ CountInv

-----------------------------------------------------------------------------
(* Pages and how many there are.                                           *)

\* The instance of a trial counts as everything else does.
LEMMA SameCount == ASSUME NEW S PROVE Page!Cardinality(S) = Cardinality(S)
BY DEF Page!Cardinality, Cardinality

\* The pages of the mapping are numbered from 0, and finitely many.
LEMMA PagesAre ==
  ASSUME call.total \in Nat \ {0}
  PROVE  /\ Page!Pages(Page!Bytes) = 0..(Page!PageCount - 1)
         /\ IsFiniteSet(Page!Pages(Page!Bytes))
         /\ Cardinality(Page!Pages(Page!Bytes)) = Page!PageCount
<1> DEFINE n == call.total
<1>1. PageSize \in Nat \ {0} /\ n \in Nat \ {0}
  BY PageTrialAssumption DEF Page!PageAssumption
<1>2. Page!Pages(Page!Bytes) = {x \div PageSize : x \in 0..(n - 1)}
  BY DEF Page!Pages, Page!Bytes, Page!PageOf
<1>3. Page!Pages(Page!Bytes) = 0..(((n + PageSize - 1) \div PageSize) - 1)
  <2> HIDE DEF n
  <2> QED
    BY <1>1, <1>2, QuotientsBelow
<1>4. Page!Pages(Page!Bytes) = 0..(Page!PageCount - 1)
  BY <1>3 DEF Page!PageCount
<1>5. Page!PageCount \in Int /\ Page!PageCount >= 1
  <2>1. Page!PageCount \in Int
    BY <1>1 DEF Page!PageCount
  <2>2. 0 \in Page!Bytes
    BY <1>1 DEF Page!Bytes
  <2>3. Page!PageOf(0) \in 0..(Page!PageCount - 1)
    BY <1>4, <2>2 DEF Page!Pages
  <2> QED
    BY <2>1, <2>3
<1>6. IsFiniteSet(0..(Page!PageCount - 1)) /\ Cardinality(0..(Page!PageCount - 1)) = Page!PageCount
  BY <1>5, FS_Interval
<1> QED
  BY <1>4, <1>6

\* New pages add to the number of those there are.
LEMMA PagesAdd ==
  ASSUME NEW All, IsFiniteSet(All), NEW S \in SUBSET All, NEW T \in SUBSET All
  PROVE  /\ Cardinality(S) \in Nat /\ Cardinality(T \ S) \in Nat
         /\ Cardinality(S \cup T) = Cardinality(S) + Cardinality(T \ S)
         /\ T \subseteq S => Cardinality(T \ S) = 0
<1>1. IsFiniteSet(S) /\ IsFiniteSet(T \ S)
  BY FS_Subset
<1>2. Cardinality(S) \in Nat /\ Cardinality(T \ S) \in Nat
  BY <1>1, FS_CardinalityType
<1>3. S \cap (T \ S) = {} /\ S \cup (T \ S) = S \cup T
  OBVIOUS
<1>4. Cardinality(S \cup (T \ S)) = Cardinality(S) + Cardinality(T \ S) - Cardinality(S \cap (T \ S))
  BY <1>1, FS_Union
<1>5. Cardinality({}) = 0
  BY FS_EmptySet
<1>6. Cardinality(S \cup T) = Cardinality(S) + Cardinality(T \ S)
  <2>1. Cardinality(S \cup T) = Cardinality(S) + Cardinality(T \ S) - 0
    BY <1>3, <1>4, <1>5, Zenon
  <2> QED
    BY <1>2, <2>1
<1>7. T \subseteq S => T \ S = {}
  OBVIOUS
<1> QED
  BY <1>2, <1>5, <1>6, <1>7

-----------------------------------------------------------------------------
(* The beginning and the end of a trial.                                   *)

\* A trial that is about to begin, whatever the process has faulted on before.
Fresh ==
  /\ call \in [mode : Page!MemoryModes, total : Totals, chunk : Chunks]
  /\ step = "shm_open" /\ held = {} /\ ended = "pending"
  /\ offset = 0 /\ completed = 0
  /\ mapped = {} /\ hinted = {} /\ minflt \in Nat /\ usage = Page!NoUsage
  /\ written = [b \in Page!Bytes |-> 0]

\* The payload and the chunk of a call.
LEMMA CallTypes ==
  ASSUME Page!TypeOK
  PROVE  /\ PageSize \in Nat \ {0} /\ call.total \in Nat \ {0} /\ call.chunk \in Nat \ {0}
         /\ call.mode \in Page!MemoryModes
BY PageTrialAssumption DEF Page!PageAssumption, Page!TypeOK

\* The invariant holds where a trial begins.
LEMMA PInvFresh == ASSUME Fresh PROVE PInv
<1>1. call.total \in Nat \ {0}
  BY PageTrialAssumption DEF Page!PageAssumption, Fresh
<1>2. Page!TypeOK
  BY <1>1 DEF Fresh, Page!TypeOK, Page!NoUsage, Page!CreateNext
<1>3. HeldInv
  BY <1>1 DEF Fresh, HeldInv, InUse, Page!NothingLeaks
<1>4. ProgressInv
  BY DEF Fresh, ProgressInv, Counted
<1>5. MappedInv
  BY <1>1 DEF Fresh, MappedInv, Page!Bytes, SetUp, Counted
<1>6. CountInv
  BY DEF Fresh, CountInv, Counting, SetUp, Counted
<1> QED
  BY <1>2, <1>3, <1>4, <1>5, <1>6 DEF PInv

\* What is claimed of a trial that counts follows from the invariant.
LEMMA PInvAddsUp == ASSUME PInv PROVE Page!FaultsAddUp
<1> SUFFICES ASSUME ended = "ok"
             PROVE  /\ Page!SameWorkload /\ Page!PrefaultIsComplete
                    /\ Page!SetupFaults + Page!TimedFaults + Cardinality(hinted) = Page!PageCount
                    /\ call.mode # "PREFAULT" => Page!SetupFaults = 0
  BY SameCount DEF Page!FaultsAddUp, PInv
<1>1. call.total \in Nat \ {0} /\ completed = call.total
  BY CallTypes DEF PInv, ProgressInv, Counted
<1>2. usage.before \in Nat /\ usage.afterSetup \in Nat /\ usage.afterTimed \in Nat
  BY DEF PInv, Page!TypeOK
<1>3. Page!SameWorkload
  BY <1>1 DEF PInv, MappedInv, Page!SameWorkload, Page!Bytes
<1>4. Page!PrefaultIsComplete
  BY <1>2 DEF Page!PrefaultIsComplete, Page!TimedFaults, PInv, CountInv, Counted
<1>5. mapped = Page!Pages(Page!Bytes)
  <2>1. Page!Pages(Page!Bytes) \subseteq mapped
    BY <1>1 DEF PInv, MappedInv, Page!Pages, Page!Bytes
  <2> QED
    BY <2>1 DEF PInv, Page!TypeOK
<1>6. IsFiniteSet(Page!Pages(Page!Bytes)) /\ Cardinality(Page!Pages(Page!Bytes)) = Page!PageCount
  BY <1>1, PagesAre
<1>7. Cardinality(mapped) \in Nat /\ Cardinality(hinted) \in Nat
  BY <1>5, <1>6, PagesAdd DEF PInv, Page!TypeOK
<1>8. usage.afterTimed + Cardinality(hinted) = usage.before + Cardinality(mapped)
  BY DEF PInv, CountInv, Counted
<1>9. Page!SetupFaults + Page!TimedFaults + Cardinality(hinted) = Page!PageCount
  BY <1>2, <1>5, <1>6, <1>7, <1>8 DEF Page!SetupFaults, Page!TimedFaults
<1>10. call.mode # "PREFAULT" => Page!SetupFaults = 0
  BY <1>2 DEF PInv, CountInv, SetUp, Counted, Page!SetupFaults
<1> QED
  BY <1>3, <1>4, <1>9, <1>10

-----------------------------------------------------------------------------
(* The steps of a trial.                                                   *)

\* Of the four parts of the invariant besides the types, a step keeps those
\* whose variables it leaves alone and whose places it does not reach.
\* A step of the creation: nothing is mapped yet.
LEMMA CreateInv ==
  ASSUME PInv, NEW s \in DOMAIN Page!CreateNext, Page!CreateStep(s) PROVE PInv'
<1> USE DEF Page!CreateNext, Page!CreateHolds
<1>1. s \in {"shm_open", "ftruncate", "mmap"}
  OBVIOUS
<1>2. UNCHANGED <<call, offset, completed, mapped, hinted, minflt, usage, written>> /\ step = s
  BY DEF Page!CreateStep
<1>3. mapped = {} /\ hinted = {} /\ offset = 0 /\ completed = 0 /\ ended = "pending"
  BY <1>1, <1>2 DEF PInv, ProgressInv, HeldInv, Creating, InUse
<1>4. \/ /\ step' \in {"ftruncate", "mmap", "unlink"} /\ ended' = ended
         /\ held' \subseteq {"name", "fd", "map"}
      \/ step' = "returned" /\ ended' = "failed" /\ held' = {}
  <2>1. CASE s = "shm_open"
    BY <2>1 DEF Page!CreateStep, Page!Goto, Page!Return
  <2>2. CASE s = "ftruncate"
    BY <2>2 DEF Page!CreateStep, Page!Goto, Page!Return
  <2>3. CASE s = "mmap"
    BY <2>3 DEF Page!CreateStep, Page!Goto, Page!Return
  <2> QED
    BY <1>1, <2>1, <2>2, <2>3
<1>5. Page!TypeOK'
  BY <1>2, <1>4 DEF PInv, Page!TypeOK, Page!Bytes, Page!Pages
<1>6. HeldInv'
  BY <1>2, <1>3, <1>4 DEF HeldInv, Page!NothingLeaks, InUse
<1>7. ProgressInv'
  BY <1>2, <1>3, <1>4 DEF PInv, ProgressInv, Creating, InUse, Counted
<1>8. MappedInv'
  BY <1>2, <1>3, <1>4 DEF PInv, MappedInv, Page!Bytes, SetUp, Counted
<1>9. CountInv'
  BY <1>2, <1>3, <1>4 DEF CountInv, Counting, SetUp, Counted
<1> QED
  BY <1>5, <1>6, <1>7, <1>8, <1>9 DEF PInv

\* A trial that breaks off with what it then holds.
LEMMA BrokenOff ==
  ASSUME PInv, UNCHANGED <<call, offset, completed, mapped, hinted, minflt, usage, written>>,
         step' = "returned", ended' \in {"failed", "killed"},
         held' \subseteq {"name", "fd", "map"},
         ended' = "failed" /\ completed < call.total => held' \subseteq {"name"},
         mapped # {} \/ completed > 0 => "name" \notin held'
  PROVE  PInv'
<1>1. Page!TypeOK'
  BY DEF PInv, Page!TypeOK, Page!Bytes, Page!Pages
<1>2. HeldInv'
  BY DEF HeldInv, Page!NothingLeaks, InUse
<1>3. ProgressInv'
  BY DEF PInv, ProgressInv, Creating, InUse, Counted
<1>4. MappedInv'
  BY DEF PInv, MappedInv, Page!Bytes, SetUp, Counted
<1>5. CountInv'
  BY DEF CountInv, Counting, SetUp, Counted
<1> QED
  BY <1>1, <1>2, <1>3, <1>4, <1>5 DEF PInv

LEMMA UnlinkInv == ASSUME PInv, Page!Unlink PROVE PInv'
<1>1. UNCHANGED <<call, offset, completed, mapped, hinted, minflt, usage, written>> /\ step = "unlink"
  BY DEF Page!Unlink
<1>2. mapped = {} /\ hinted = {} /\ offset = 0 /\ completed = 0 /\ ended = "pending"
  BY <1>1 DEF PInv, ProgressInv, HeldInv, Creating, InUse
<1>3. CASE Page!Return("failed") /\ held' = {"name"}
  BY <1>1, <1>2, <1>3, BrokenOff DEF Page!Return
<1>4. CASE Page!Goto("before") /\ held' = {"fd", "map"}
  <2>1. step' = "before" /\ ended' = ended
    BY <1>4 DEF Page!Goto
  <2>2. Page!TypeOK'
    BY <1>1, <1>4, <2>1 DEF PInv, Page!TypeOK, Page!Bytes, Page!Pages
  <2>3. HeldInv'
    BY <1>1, <1>2, <1>4, <2>1 DEF HeldInv, Page!NothingLeaks, InUse
  <2>4. ProgressInv'
    BY <1>1, <1>2, <2>1 DEF PInv, ProgressInv, Creating, InUse, Counted
  <2>5. MappedInv'
    BY <1>1, <1>2, <2>1 DEF PInv, MappedInv, Page!Bytes, SetUp, Counted
  <2>6. CountInv'
    BY <1>1, <1>2, <2>1 DEF CountInv, Counting, SetUp, Counted
  <2> QED
    BY <2>2, <2>3, <2>4, <2>5, <2>6 DEF PInv
<1> QED
  BY <1>3, <1>4 DEF Page!Unlink

\* From a place in use the mapping alone is given back.
LEMMA FailInv ==
  ASSUME PInv, step \in InUse, Page!Fail,
         UNCHANGED <<call, offset, completed, mapped, hinted, minflt, usage, written>>
  PROVE  PInv'
BY BrokenOff DEF Page!Fail, Page!Return

LEMMA TakeBeforeInv == ASSUME PInv, Page!TakeBefore PROVE PInv'
<1> DEFINE next == CASE call.mode = "DEMAND" -> "afterSetup"
                     [] call.mode = "PREFAULT" -> "prefault"
                     [] call.mode = "WILLNEED" -> "madvise"
<1>1. step = "before" /\ Page!Snapshot("before", next)
      /\ UNCHANGED <<call, offset, completed, mapped, hinted, minflt, written>>
  BY DEF Page!TakeBefore
<1>2. \/ usage' = [usage EXCEPT !["before"] = minflt] /\ Page!Goto(next) /\ UNCHANGED held
      \/ Page!Fail /\ UNCHANGED usage
  BY <1>1 DEF Page!Snapshot
<1>3. CASE Page!Fail /\ UNCHANGED usage
  BY <1>1, <1>3, FailInv DEF InUse
<1>4. CASE usage' = [usage EXCEPT !["before"] = minflt] /\ Page!Goto(next) /\ UNCHANGED held
  <2>1. mapped = {} /\ hinted = {} /\ offset = 0 /\ completed = 0 /\ ended = "pending"
        /\ held = {"fd", "map"}
    BY <1>1 DEF PInv, ProgressInv, HeldInv, Creating, InUse
  <2>2. /\ call.mode = "DEMAND" => step' = "afterSetup"
        /\ call.mode = "PREFAULT" => step' = "prefault"
        /\ call.mode = "WILLNEED" => step' = "madvise"
        /\ ended' = ended /\ call.mode \in {"DEMAND", "PREFAULT", "WILLNEED"}
    BY <1>4, CallTypes DEF Page!Goto, PInv, Page!MemoryModes
  <2>3. usage.before \in Nat /\ usage'.before = minflt /\ minflt \in Nat
    BY <1>4 DEF PInv, Page!TypeOK
  <2>4. Page!TypeOK'
    BY <1>1, <1>4, <2>2 DEF PInv, Page!TypeOK, Page!Bytes, Page!Pages
  <2>5. HeldInv'
    BY <1>1, <1>4, <2>1, <2>2 DEF HeldInv, Page!NothingLeaks, InUse
  <2>6. ProgressInv'
    <3>1. offset = PageSize * 0
      BY <2>1, CallTypes DEF PInv
    <3> QED
      BY <1>1, <2>1, <2>2, <3>1 DEF ProgressInv, Creating, InUse, Counted
  <2>7. MappedInv'
    BY <1>1, <2>1, <2>2 DEF PInv, MappedInv, Page!Bytes, SetUp, Counted
  <2>8. CountInv'
    BY <1>1, <2>1, <2>2, <2>3 DEF CountInv, Counting, SetUp, Counted
  <2> QED
    BY <2>4, <2>5, <2>6, <2>7, <2>8 DEF PInv
<1> QED
  BY <1>2, <1>3, <1>4

\* Writing to some bytes of the mapping.
LEMMA WriteFaults ==
  ASSUME Page!TypeOK, NEW bytes \in SUBSET Page!Bytes, Page!Write(bytes)
  PROVE  /\ mapped' = mapped \cup Page!Pages(bytes) /\ mapped' \subseteq Page!Pages(Page!Bytes)
         /\ minflt' \in Nat
         /\ Cardinality(mapped) \in Nat /\ Cardinality(hinted) \in Nat
         /\ minflt' - minflt = Cardinality(mapped') - Cardinality(mapped)
         /\ mapped = Page!Pages(Page!Bytes) => mapped' = mapped /\ minflt' = minflt
<1>1. IsFiniteSet(Page!Pages(Page!Bytes))
  BY CallTypes, PagesAre
<1>2. Page!Pages(bytes) \subseteq Page!Pages(Page!Bytes)
  BY DEF Page!Pages
<1>3. mapped \subseteq Page!Pages(Page!Bytes) /\ hinted \subseteq Page!Pages(Page!Bytes) /\ minflt \in Nat
  BY DEF Page!TypeOK
<1>4. /\ mapped' = mapped \cup Page!Pages(bytes)
      /\ minflt' = minflt + Cardinality(Page!Pages(bytes) \ mapped)
  BY SameCount DEF Page!Write
<1>5. /\ Cardinality(mapped) \in Nat /\ Cardinality(Page!Pages(bytes) \ mapped) \in Nat
      /\ Cardinality(mapped \cup Page!Pages(bytes)) =
           Cardinality(mapped) + Cardinality(Page!Pages(bytes) \ mapped)
      /\ Page!Pages(bytes) \subseteq mapped => Cardinality(Page!Pages(bytes) \ mapped) = 0
  <2> DEFINE All == Page!Pages(Page!Bytes)  S == mapped  T == Page!Pages(bytes)
  <2>1. IsFiniteSet(All) /\ S \in SUBSET All /\ T \in SUBSET All
    BY <1>1, <1>2, <1>3
  <2> HIDE DEF All, S, T
  <2>2. /\ Cardinality(S) \in Nat /\ Cardinality(T \ S) \in Nat
        /\ Cardinality(S \cup T) = Cardinality(S) + Cardinality(T \ S)
        /\ T \subseteq S => Cardinality(T \ S) = 0
    BY <2>1, PagesAdd
  <2> QED
    BY <2>2 DEF S, T
<1>6. Cardinality(hinted) \in Nat
  BY <1>1, <1>3, PagesAdd
<1>7. Cardinality(mapped') = Cardinality(mapped) + Cardinality(Page!Pages(bytes) \ mapped)
  BY <1>4, <1>5
<1>8. mapped' \subseteq Page!Pages(Page!Bytes)
  BY <1>2, <1>3, <1>4
<1>9. mapped = Page!Pages(Page!Bytes) => mapped' = mapped /\ Page!Pages(bytes) \subseteq mapped
  BY <1>2, <1>4
<1> QED
  BY <1>3, <1>4, <1>5, <1>6, <1>7, <1>8, <1>9

LEMMA PrefaultPageInv == ASSUME PInv, Page!PrefaultPage PROVE PInv'
<1>1. step = "prefault" /\ UNCHANGED <<call, held, completed, hinted, usage, written>>
  BY DEF Page!PrefaultPage
<1>2. /\ completed = 0 /\ ended = "pending" /\ held = {"fd", "map"}
      /\ call.mode = "PREFAULT" /\ hinted = {}
  BY <1>1 DEF PInv, ProgressInv, HeldInv, Creating, InUse
<1>3. Page!TypeOK /\ PageSize \in Nat \ {0} /\ call.total \in Nat \ {0} /\ offset \in Nat
  BY CallTypes DEF PInv, Page!TypeOK
<1>4. PICK k \in Nat : offset = PageSize * k
  BY <1>1 DEF PInv, ProgressInv
<1>5. minflt + Cardinality(hinted) = usage.before + Cardinality(mapped)
  BY <1>1 DEF PInv, CountInv, Counting
<1>6. CASE offset < call.total
  <2>1. Page!Write({offset}) /\ offset' = offset + PageSize /\ step' = step /\ ended' = ended
    BY <1>6 DEF Page!PrefaultPage
  <2>2. {offset} \in SUBSET Page!Bytes
    BY <1>3, <1>6 DEF Page!Bytes
  <2>3. /\ mapped' = mapped \cup Page!Pages({offset}) /\ mapped' \subseteq Page!Pages(Page!Bytes)
        /\ minflt' \in Nat /\ Cardinality(mapped) \in Nat /\ Cardinality(hinted) \in Nat
        /\ minflt' - minflt = Cardinality(mapped') - Cardinality(mapped)
    BY <1>3, <2>1, <2>2, WriteFaults
  <2>4. offset' \in Nat /\ offset' = PageSize * (k + 1) /\ k + 1 \in Nat
    BY <1>3, <1>4, <2>1
  <2>5. \A b \in Page!Bytes : b < offset' => Page!PageOf(b) \in mapped'
    <3> SUFFICES ASSUME NEW b \in Page!Bytes, b < offset' PROVE Page!PageOf(b) \in mapped'
      OBVIOUS
    <3>1. CASE b < offset
      BY <1>1, <2>3, <3>1 DEF PInv, MappedInv
    <3>2. CASE ~ b < offset
      <4>1. b \in Nat /\ PageSize * k =< b /\ b < (PageSize * k) + PageSize
        BY <1>3, <1>4, <2>1, <3>2 DEF Page!Bytes
      <4>2. b \div PageSize = k
        BY <1>3, <4>1, QuotientIs
      <4>3. PageSize * k =< offset /\ offset < (PageSize * k) + PageSize
        BY <1>3, <1>4
      <4>4. offset \div PageSize = k
        BY <1>3, <4>3, QuotientIs
      <4>5. Page!PageOf(b) \in Page!Pages({offset})
        BY <4>2, <4>4 DEF Page!PageOf, Page!Pages
      <4> QED
        BY <2>3, <4>5
    <3> QED
      BY <3>1, <3>2
  <2>6. Page!TypeOK'
    BY <1>1, <1>2, <1>3, <2>1, <2>3, <2>4 DEF Page!TypeOK, Page!Bytes, Page!Pages
  <2>7. HeldInv'
    BY <1>1, <1>2, <2>1 DEF HeldInv, Page!NothingLeaks, InUse
  <2>8. ProgressInv'
    BY <1>1, <1>2, <2>1, <2>4 DEF ProgressInv, Creating, InUse, Counted
  <2>9. MappedInv'
    BY <1>1, <1>2, <2>1, <2>5 DEF PInv, MappedInv, Page!Bytes, SetUp, Counted
  <2>10. CountInv'
    <3>1. minflt' + Cardinality(hinted') = usage'.before + Cardinality(mapped')
      <4>1. usage.before \in Nat /\ minflt \in Nat
        BY <1>3 DEF Page!TypeOK
      <4>2. IsFiniteSet(mapped') /\ Cardinality(mapped') \in Nat
        <5>1. IsFiniteSet(Page!Pages(Page!Bytes))
          BY <1>3, PagesAre
        <5> QED
          BY <2>3, <5>1, FS_Subset, FS_CardinalityType
      <4> QED
        BY <1>1, <1>5, <2>3, <4>1, <4>2
    <3> QED
      BY <1>1, <1>2, <2>1, <3>1 DEF CountInv, Counting, SetUp, Counted
  <2> QED
    BY <2>6, <2>7, <2>8, <2>9, <2>10 DEF PInv
<1>7. CASE ~ offset < call.total
  <2>1. step' = "afterSetup" /\ UNCHANGED <<ended, offset, mapped, minflt>>
    BY <1>7 DEF Page!PrefaultPage, Page!Goto
  <2>2. mapped = Page!Pages(Page!Bytes)
    <3>1. \A b \in Page!Bytes : Page!PageOf(b) \in mapped
      BY <1>1, <1>3, <1>7 DEF PInv, MappedInv, Page!Bytes
    <3> QED
      BY <1>3, <3>1 DEF Page!TypeOK, Page!Pages
  <2>3. Page!TypeOK'
    BY <1>1, <1>3, <2>1 DEF Page!TypeOK, Page!Bytes, Page!Pages
  <2>4. HeldInv'
    BY <1>1, <1>2, <2>1 DEF HeldInv, Page!NothingLeaks, InUse
  <2>5. ProgressInv'
    BY <1>1, <1>2, <2>1 DEF ProgressInv, Creating, InUse, Counted
  <2>6. MappedInv'
    BY <1>1, <1>2, <2>1, <2>2 DEF PInv, MappedInv, Page!Bytes, Page!Pages, SetUp, Counted
  <2>7. CountInv'
    BY <1>1, <1>2, <1>5, <2>1 DEF CountInv, Counting, SetUp, Counted
  <2> QED
    BY <2>3, <2>4, <2>5, <2>6, <2>7 DEF PInv
<1> QED
  BY <1>6, <1>7

LEMMA WillneedInv == ASSUME PInv, Page!Willneed PROVE PInv'
<1>1. step = "madvise" /\ UNCHANGED <<call, offset, completed, minflt, usage, written>>
  BY DEF Page!Willneed
<1>2. /\ completed = 0 /\ ended = "pending" /\ held = {"fd", "map"}
      /\ call.mode = "WILLNEED" /\ mapped = {}
  BY <1>1 DEF PInv, ProgressInv, HeldInv, Creating, InUse
<1>3. CASE Page!Fail /\ UNCHANGED <<hinted, mapped>>
  BY <1>1, <1>3, FailInv DEF InUse
<1>4. CASE /\ hinted' \in SUBSET Page!Pages(Page!Bytes) /\ mapped' = mapped \cup hinted'
           /\ Page!Goto("afterSetup") /\ UNCHANGED held
  <2>1. step' = "afterSetup" /\ ended' = ended /\ mapped' = hinted' /\ held' = held
    BY <1>2, <1>4 DEF Page!Goto
  <2>2. minflt = usage.before /\ minflt \in Nat
    BY <1>1, <1>2 DEF PInv, CountInv, Page!TypeOK
  <2>3. Page!TypeOK'
    BY <1>1, <1>4, <2>1 DEF PInv, Page!TypeOK, Page!Bytes, Page!Pages
  <2>4. HeldInv'
    BY <1>1, <1>2, <2>1 DEF HeldInv, Page!NothingLeaks, InUse
  <2>5. ProgressInv'
    BY <1>1, <1>2, <2>1 DEF ProgressInv, Creating, InUse, Counted
  <2>6. MappedInv'
    BY <1>1, <1>2, <2>1, CallTypes DEF PInv, MappedInv, Page!Bytes, SetUp, Counted
  <2>7. CountInv'
    BY <1>1, <1>2, <2>1, <2>2 DEF CountInv, Counting, SetUp, Counted
  <2> QED
    BY <2>3, <2>4, <2>5, <2>6, <2>7 DEF PInv
<1> QED
  BY <1>3, <1>4 DEF Page!Willneed

LEMMA TakeAfterSetupInv == ASSUME PInv, Page!TakeAfterSetup PROVE PInv'
<1>1. step = "afterSetup" /\ Page!Snapshot("afterSetup", "workload")
      /\ UNCHANGED <<call, offset, completed, mapped, hinted, minflt, written>>
  BY DEF Page!TakeAfterSetup
<1>2. ended = "pending" /\ held = {"fd", "map"}
  BY <1>1 DEF PInv, HeldInv, InUse
<1>3. CASE Page!Fail /\ UNCHANGED usage
  BY <1>1, <1>3, FailInv DEF InUse
<1>4. CASE usage' = [usage EXCEPT !["afterSetup"] = minflt] /\ Page!Goto("workload") /\ UNCHANGED held
  <2>1. step' = "workload" /\ ended' = ended
    BY <1>4 DEF Page!Goto
  <2>2. /\ usage'.before = usage.before /\ usage'.afterSetup = minflt
        /\ usage'.afterTimed = usage.afterTimed
    BY <1>4 DEF PInv, Page!TypeOK
  <2>3. Page!TypeOK'
    BY <1>1, <1>4, <2>1 DEF PInv, Page!TypeOK, Page!Bytes, Page!Pages
  <2>4. HeldInv'
    BY <1>1, <1>2, <1>4, <2>1 DEF PInv, HeldInv, Page!NothingLeaks, InUse
  <2>5. ProgressInv'
    BY <1>1, <1>2, <2>1 DEF PInv, ProgressInv, Creating, InUse, Counted
  <2>6. MappedInv'
    BY <1>1, <1>2, <2>1 DEF PInv, MappedInv, Page!Bytes, Page!Pages, SetUp, Counted
  <2>7. CountInv'
    BY <1>1, <1>2, <2>1, <2>2 DEF PInv, CountInv, Counting, SetUp, Counted
  <2> QED
    BY <2>3, <2>4, <2>5, <2>6, <2>7 DEF PInv
<1> QED
  BY <1>1, <1>3, <1>4 DEF Page!Snapshot

LEMMA WriteChunkInv == ASSUME PInv, Page!WriteChunk PROVE PInv'
<1>1. step = "workload" /\ UNCHANGED <<call, held, offset, hinted, usage>>
  BY DEF Page!WriteChunk
<1>2. ended = "pending" /\ held = {"fd", "map"} /\ (call.mode # "WILLNEED" => hinted = {})
  BY <1>1 DEF PInv, HeldInv, ProgressInv, InUse
<1>3. /\ Page!TypeOK /\ call.total \in Nat \ {0} /\ call.chunk \in Nat \ {0}
      /\ completed \in 0..call.total
  BY CallTypes DEF PInv, Page!TypeOK
<1>4. /\ minflt + Cardinality(hinted) = usage.before + Cardinality(mapped)
      /\ call.mode # "PREFAULT" => usage.afterSetup = usage.before
      /\ call.mode = "PREFAULT" => minflt = usage.afterSetup /\ mapped = Page!Pages(Page!Bytes)
  BY <1>1 DEF PInv, CountInv, MappedInv, Counting, SetUp
<1>5. CASE completed < call.total
  <2>1. /\ Page!Write(Page!Chunk) /\ completed' = completed + Page!Amount /\ step' = step /\ ended' = ended
        /\ written' = [b \in Page!Bytes |-> IF b \in Page!Chunk THEN written[b] + 1 ELSE written[b]]
    BY <1>5 DEF Page!WriteChunk
  <2>2. Page!Amount \in Nat \ {0} /\ completed + Page!Amount \in 0..call.total
    BY <1>3, <1>5 DEF Page!Amount
  <2>3. Page!Chunk \in SUBSET Page!Bytes
    BY <1>3, <2>2 DEF Page!Chunk, Page!Bytes
  <2>4. /\ mapped' = mapped \cup Page!Pages(Page!Chunk) /\ mapped' \subseteq Page!Pages(Page!Bytes)
        /\ minflt' \in Nat /\ Cardinality(mapped) \in Nat /\ Cardinality(hinted) \in Nat
        /\ minflt' - minflt = Cardinality(mapped') - Cardinality(mapped)
        /\ mapped = Page!Pages(Page!Bytes) => mapped' = mapped /\ minflt' = minflt
    BY <1>3, <2>1, <2>3, WriteFaults
  <2>5. \A b \in Page!Bytes : b \in Page!Chunk <=> (~ b < completed /\ b < completed + Page!Amount)
    BY <1>3, <2>2 DEF Page!Chunk, Page!Bytes
  <2>6. \A b \in Page!Bytes : written'[b] = IF b < completed' THEN 1 ELSE 0
    <3> SUFFICES ASSUME NEW b \in Page!Bytes PROVE written'[b] = IF b < completed' THEN 1 ELSE 0
      OBVIOUS
    <3>1. written[b] = IF b < completed THEN 1 ELSE 0
      BY DEF PInv, MappedInv
    <3>2. b \in Nat
      BY <1>3 DEF Page!Bytes
    <3> QED
      BY <1>3, <2>1, <2>2, <2>5, <3>1, <3>2
  <2>7. \A b \in Page!Bytes : b < completed' => Page!PageOf(b) \in mapped'
    <3> SUFFICES ASSUME NEW b \in Page!Bytes, b < completed' PROVE Page!PageOf(b) \in mapped'
      OBVIOUS
    <3>1. CASE b < completed
      BY <2>4, <3>1 DEF PInv, MappedInv
    <3>2. CASE ~ b < completed
      <4>1. b \in Page!Chunk
        BY <2>1, <2>5, <3>2
      <4>2. Page!PageOf(b) \in Page!Pages(Page!Chunk)
        BY <4>1 DEF Page!Pages
      <4> QED
        BY <2>4, <4>2
    <3> QED
      BY <3>1, <3>2
  <2>8. Page!TypeOK'
    <3>1. written' \in [Page!Bytes -> Nat]
      BY <1>3, <2>1 DEF Page!TypeOK
    <3> QED
      BY <1>1, <1>3, <2>1, <2>2, <2>4, <3>1 DEF Page!TypeOK, Page!Bytes, Page!Pages
  <2>9. HeldInv'
    BY <1>1, <1>2, <2>1 DEF HeldInv, Page!NothingLeaks, InUse
  <2>10. ProgressInv'
    BY <1>1, <1>2, <2>1 DEF ProgressInv, Creating, InUse, Counted
  <2>11. MappedInv'
    BY <1>1, <1>2, <1>4, <2>1, <2>4, <2>6, <2>7 DEF MappedInv, Page!Bytes, Page!Pages, SetUp, Counted
  <2>12. CountInv'
    <3>1. usage.before \in Nat /\ minflt \in Nat
      BY <1>3 DEF Page!TypeOK
    <3>2. Cardinality(mapped') \in Nat
      <4>1. IsFiniteSet(Page!Pages(Page!Bytes))
        BY <1>3, PagesAre
      <4> QED
        BY <2>4, <4>1, FS_Subset, FS_CardinalityType
    <3>3. minflt' + Cardinality(hinted') = usage'.before + Cardinality(mapped')
      BY <1>1, <1>4, <2>4, <3>1, <3>2
    <3> QED
      BY <1>1, <1>2, <1>4, <2>1, <2>4, <3>3 DEF CountInv, Counting, SetUp, Counted
  <2> QED
    BY <2>8, <2>9, <2>10, <2>11, <2>12 DEF PInv
<1>6. CASE ~ completed < call.total
  <2>1. step' = "afterTimed" /\ UNCHANGED <<ended, mapped, minflt, written, completed>>
    BY <1>6 DEF Page!WriteChunk, Page!Goto
  <2>2. completed = call.total
    BY <1>3, <1>6
  <2>3. Page!TypeOK'
    BY <1>1, <1>3, <2>1 DEF Page!TypeOK, Page!Bytes, Page!Pages
  <2>4. HeldInv'
    BY <1>1, <1>2, <2>1 DEF HeldInv, Page!NothingLeaks, InUse
  <2>5. ProgressInv'
    BY <1>1, <1>2, <2>1, <2>2 DEF ProgressInv, Creating, InUse, Counted
  <2>6. MappedInv'
    BY <1>1, <1>4, <2>1 DEF PInv, MappedInv, Page!Bytes, Page!Pages, SetUp, Counted
  <2>7. CountInv'
    BY <1>1, <1>2, <1>4, <2>1 DEF CountInv, Counting, SetUp, Counted
  <2> QED
    BY <2>3, <2>4, <2>5, <2>6, <2>7 DEF PInv
<1> QED
  BY <1>5, <1>6

LEMMA TakeAfterTimedInv == ASSUME PInv, Page!TakeAfterTimed PROVE PInv'
<1>1. step = "afterTimed" /\ Page!Snapshot("afterTimed", "destroy")
      /\ UNCHANGED <<call, offset, completed, mapped, hinted, minflt, written>>
  BY DEF Page!TakeAfterTimed
<1>2. ended = "pending" /\ held = {"fd", "map"} /\ completed = call.total
  BY <1>1 DEF PInv, HeldInv, ProgressInv, InUse
<1>3. CASE Page!Fail /\ UNCHANGED usage
  BY <1>1, <1>3, FailInv DEF InUse
<1>4. CASE usage' = [usage EXCEPT !["afterTimed"] = minflt] /\ Page!Goto("destroy") /\ UNCHANGED held
  <2>1. step' = "destroy" /\ ended' = ended
    BY <1>4 DEF Page!Goto
  <2>2. /\ usage'.before = usage.before /\ usage'.afterSetup = usage.afterSetup
        /\ usage'.afterTimed = minflt
    BY <1>4 DEF PInv, Page!TypeOK
  <2>3. Page!TypeOK'
    BY <1>1, <1>4, <2>1 DEF PInv, Page!TypeOK, Page!Bytes, Page!Pages
  <2>4. HeldInv'
    BY <1>1, <1>2, <1>4, <2>1 DEF HeldInv, Page!NothingLeaks, InUse
  <2>5. ProgressInv'
    BY <1>1, <1>2, <2>1 DEF PInv, ProgressInv, Creating, InUse, Counted
  <2>6. MappedInv'
    BY <1>1, <2>1 DEF PInv, MappedInv, Page!Bytes, Page!Pages, SetUp, Counted
  <2>7. CountInv'
    BY <1>1, <1>2, <2>1, <2>2 DEF PInv, CountInv, Counting, SetUp, Counted
  <2> QED
    BY <2>3, <2>4, <2>5, <2>6, <2>7 DEF PInv
<1> QED
  BY <1>1, <1>3, <1>4 DEF Page!Snapshot

LEMMA DestroyInv == ASSUME PInv, Page!Destroy PROVE PInv'
<1>1. step = "destroy"
      /\ UNCHANGED <<call, offset, completed, mapped, hinted, minflt, usage, written>>
  BY DEF Page!Destroy
<1>2. completed = call.total
  BY <1>1 DEF PInv, ProgressInv, Counted
<1>3. CASE held' \in {{"fd"}, {"map"}, {"fd", "map"}} /\ Page!Return("failed")
  <2>1. "name" \notin held' /\ held' \subseteq {"name", "fd", "map"}
    BY <1>3
  <2>2. ~ completed < call.total
    BY <1>2, CallTypes DEF PInv
  <2> QED
    BY <1>1, <1>3, <2>1, <2>2, BrokenOff DEF Page!Return
<1>4. CASE held' = {} /\ Page!Return("ok")
  <2>1. step' = "returned" /\ ended' = "ok"
    BY <1>4 DEF Page!Return
  <2>2. Page!TypeOK'
    BY <1>1, <1>4, <2>1 DEF PInv, Page!TypeOK, Page!Bytes, Page!Pages
  <2>3. HeldInv'
    BY <1>1, <1>4, <2>1 DEF HeldInv, Page!NothingLeaks, InUse
  <2>4. ProgressInv'
    BY <1>1, <1>2, <2>1 DEF PInv, ProgressInv, Creating, InUse, Counted
  <2>5. MappedInv'
    BY <1>1, <2>1 DEF PInv, MappedInv, Page!Bytes, Page!Pages, SetUp, Counted
  <2>6. CountInv'
    BY <1>1, <2>1 DEF PInv, CountInv, Counting, SetUp, Counted
  <2> QED
    BY <2>2, <2>3, <2>4, <2>5, <2>6 DEF PInv
<1> QED
  BY <1>3, <1>4 DEF Page!Destroy

LEMMA KillInv == ASSUME PInv, Page!Kill PROVE PInv'
<1>1. /\ step' = "returned" /\ ended' = "killed" /\ held' = held \cap {"name"}
      /\ UNCHANGED <<call, offset, completed, mapped, hinted, minflt, usage, written>>
  BY DEF Page!Kill, Page!Return
<1>2. mapped # {} \/ completed > 0 => "name" \notin held
  BY DEF PInv, HeldInv, Page!NothingLeaks
<1> QED
  BY <1>1, <1>2, BrokenOff

\* Every step keeps the invariant.
LEMMA PInvStep == ASSUME PInv, [Page!Next]_(Page!vars) PROVE PInv'
<1>1. CASE \E s \in DOMAIN Page!CreateNext : Page!CreateStep(s)
  BY <1>1, CreateInv
<1>2. CASE Page!Unlink
  BY <1>2, UnlinkInv
<1>3. CASE Page!TakeBefore
  BY <1>3, TakeBeforeInv
<1>4. CASE Page!PrefaultPage
  BY <1>4, PrefaultPageInv
<1>5. CASE Page!Willneed
  BY <1>5, WillneedInv
<1>6. CASE Page!TakeAfterSetup
  BY <1>6, TakeAfterSetupInv
<1>7. CASE Page!WriteChunk
  BY <1>7, WriteChunkInv
<1>8. CASE Page!TakeAfterTimed
  BY <1>8, TakeAfterTimedInv
<1>9. CASE Page!Destroy
  BY <1>9, DestroyInv
<1>10. CASE Page!Kill
  BY <1>10, KillInv
<1>11. CASE UNCHANGED Page!vars
  BY <1>11 DEF Page!vars, PInv, Page!TypeOK, HeldInv, Page!NothingLeaks, ProgressInv, MappedInv,
               CountInv, Counted, SetUp, Page!Bytes, Page!Pages
<1> QED
  BY <1>1, <1>2, <1>3, <1>4, <1>5, <1>6, <1>7, <1>8, <1>9, <1>10, <1>11 DEF Page!Next

\* For any payload, chunk and page size, and whatever fails: the page faults
\* of a trial that counts add up to the pages, and its workload is the same in
\* every mode (memory_optimizer.c:379-455, 964-985, 1093).
THEOREM TrialIsFaithful == Page!Spec => [](Page!FaultsAddUp /\ Page!NothingLeaks)
<1>1. Page!Init => PInv
  BY PInvFresh DEF Page!Init, Fresh
<1>2. PInv /\ [Page!Next]_(Page!vars) => PInv'
  BY PInvStep
<1>3. PInv => Page!FaultsAddUp /\ Page!NothingLeaks
  BY PInvAddsUp DEF PInv, HeldInv
<1> QED
  BY <1>1, <1>2, <1>3, PTL DEF Page!Spec

-----------------------------------------------------------------------------
(* The invariant of the series and its trials.                             *)

SeriesInv ==
  /\ RotationInv
  /\ PInv
  /\ step = "shm_open" => held = {}

LEMMA SeriesInvInit == SeriesInit => SeriesInv
<1> SUFFICES ASSUME SeriesInit PROVE SeriesInv
  OBVIOUS
<1>1. RotationInv
  BY StartsAsSeries, RotationInvInit
<1>2. Fresh /\ held = {}
  BY DEF SeriesInit, Page!Init, Fresh, Page!MemoryModes, Page!NoUsage, Page!Bytes
<1> QED
  BY <1>1, <1>2, PInvFresh DEF SeriesInv

\* The mode after a kept trial is one of the three.
LEMMA NextModeNamed ==
  ASSUME RotationInv, kind = "memory", kind' = kind, RotationInv'
  PROVE  MemoryModeName[Mode' + 1] \in Page!MemoryModes
<1>1. Modes' = 3 /\ Rotates'
  BY ThreeMemoryModes DEF Modes, MemoryModeName, Rotates
<1>2. outer' \in Nat /\ inner' \in 0..2
  BY <1>1 DEF RotationInv, LoopTypes
<1>3. Mode' = (outer' + inner') % 3
  BY <1>1 DEF Mode, TurnedMode, Rotates
<1> DEFINE m == Mode'  o == outer'  i == inner'
<1>4. o \in Nat /\ i \in 0..2 /\ m = (o + i) % 3
  BY <1>2, <1>3
<1> HIDE DEF m, o, i
<1>5. o + i \in Nat
  BY <1>4
<1>6. m = 0 \/ m = 1 \/ m = 2
  BY <1>4, <1>5
<1>7. MemoryModeName[m + 1] \in {"DEMAND", "PREFAULT", "WILLNEED"}
  BY <1>6 DEF MemoryModeName
<1> QED
  BY <1>7 DEF m, Page!MemoryModes

\* The next trial begins afresh.
LEMMA KeepTrialInv == ASSUME SeriesInv, RotationInv', KeepTrial PROVE SeriesInv'
<1>1. kind = "memory" /\ ended = "ok" /\ kind' = kind
  BY DEF KeepTrial, InTrial, RunTrial
<1>2. held = {} /\ held' = {}
  BY <1>1 DEF SeriesInv, PInv, HeldInv, Page!NothingLeaks, KeepTrial
<1>3. call \in [mode : Page!MemoryModes, total : Totals, chunk : Chunks] /\ minflt \in Nat
  BY DEF SeriesInv, PInv, Page!TypeOK
<1>4. MemoryModeName[Mode' + 1] \in Page!MemoryModes
  BY <1>1, NextModeNamed DEF SeriesInv, Page!MemoryModes
<1>5. /\ call' \in [mode : Page!MemoryModes, total : Totals, chunk : Chunks]
      /\ call'.total = call.total
  BY <1>3, <1>4 DEF KeepTrial
<1>6. Fresh'
  BY <1>2, <1>3, <1>5 DEF KeepTrial, Fresh, Page!NoUsage, Page!Bytes
<1>7. PInv'
  BY <1>6, PInvFresh, PTL
<1> QED
  BY <1>2, <1>7 DEF SeriesInv

LEMMA SeriesInvStep == SeriesInv /\ [SeriesNext]_allVars => SeriesInv'
<1> SUFFICES ASSUME SeriesInv, [SeriesNext]_allVars PROVE SeriesInv'
  OBVIOUS
<1>1. RotationInv'
  BY StepsAsSeries, RotationInvStep DEF SeriesInv
<1>2. ASSUME UNCHANGED pageVars PROVE SeriesInv'
  <2>1. PInv'
    <3>1. UNCHANGED Page!vars
      BY <1>2 DEF pageVars, Page!vars
    <3> QED
      BY <3>1, PInvStep DEF SeriesInv
  <2> QED
    BY <1>1, <1>2, <2>1 DEF SeriesInv, pageVars
<1>3. CASE TrialStep
  <2>1. PInv'
    BY <1>3, PInvStep DEF SeriesInv, TrialStep
  <2>2. step' = "shm_open" => held' = {}
    BY <2>1 DEF PInv, HeldInv
  <2> QED
    BY <1>1, <2>1, <2>2 DEF SeriesInv
<1>4. CASE KeepTrial
  BY <1>1, <1>4, KeepTrialInv
<1>5. CASE GiveUp
  BY <1>2, <1>5 DEF GiveUp
<1>6. CASE Outside
  BY <1>2, <1>6 DEF Outside
<1>7. CASE UNCHANGED allVars
  BY <1>2, <1>7 DEF allVars
<1> QED
  BY <1>3, <1>4, <1>5, <1>6, <1>7 DEF SeriesNext

\* However many trials there are, and for any payload, chunk and page size:
\* each starts with nothing held, its faults add up and its workload is the
\* same in every mode (memory_optimizer.c:379-455, 711-985, 1301-1345).
THEOREM TrialsComparable == SeriesSpec => []TrialsAreComparable
<1>1. SeriesInv => TrialsAreComparable
  BY PInvAddsUp DEF SeriesInv, TrialsAreComparable, PInv, HeldInv
<1> QED
  BY <1>1, SeriesInvInit, SeriesInvStep, PTL DEF SeriesSpec

-----------------------------------------------------------------------------
(* Sorting: that an order exists, and how many values are below the k-th.  *)

\* A set of numbers that is not empty has a least one.
LEMMA LeastNumber ==
  ASSUME NEW T \in SUBSET Nat, T # {}
  PROVE  \E x \in T : \A y \in T : x =< y
<1> DEFINE R == OpToRel(<, Nat)
<1>1. IsWellFoundedOn(R, Nat)
  BY NatLessThanWellFounded
<1>2. \A x, y \in Nat : x < y => <<x, y>> \in R
  BY DEF OpToRel
<1> HIDE DEF R
<1>3. PICK x \in T : \A y \in T : ~ (<<y, x>> \in R)
  BY <1>1, WFMin
<1>4. ASSUME NEW y \in T PROVE x =< y
  <2>1. ~ (y < x)
    BY <1>2, <1>3
  <2> QED
    BY <2>1
<1> QED
  BY <1>4

\* A set that has 0, and n + 1 with every n, has every number.
LEMMA Induction ==
  ASSUME NEW S, 0 \in S, \A n \in Nat : n \in S => n + 1 \in S
  PROVE  \A n \in Nat : n \in S
<1> DEFINE T == Nat \ S
<1> SUFFICES ASSUME T # {} PROVE FALSE
  OBVIOUS
<1>1. PICK x \in T : \A y \in T : x =< y
  BY LeastNumber
<1>2. x # 0 /\ x - 1 \in Nat /\ (x - 1) + 1 = x
  OBVIOUS
<1>3. x - 1 \in S
  BY <1>1, <1>2
<1> QED
  BY <1>2, <1>3

\* p puts n keys in order.
IsOrder(p, key, n) ==
  /\ p \in Surjection(1..n, 1..n)
  /\ \A i, j \in 1..n : i < j => key[p[i]] =< key[p[j]]

\* The keys at or before the i-th one, counted: no two have the same count.
UpTo(i, key, n) == {j \in 1..n : key[j] < key[i] \/ (key[j] = key[i] /\ j =< i)}
LEMMA CountsDiffer ==
  ASSUME NEW n \in Nat, NEW key \in [1..n -> Int], NEW i \in 1..n
  PROVE  /\ Cardinality(UpTo(i, key, n)) \in 1..n
         /\ \A j \in UpTo(i, key, n) :
              j # i => Cardinality(UpTo(j, key, n)) < Cardinality(UpTo(i, key, n))
<1>1. IsFiniteSet(1..n) /\ Cardinality(1..n) = n
  BY FS_Interval
<1>2. \A j \in 1..n : /\ UpTo(j, key, n) \subseteq 1..n /\ j \in UpTo(j, key, n)
                        /\ IsFiniteSet(UpTo(j, key, n)) /\ Cardinality(UpTo(j, key, n)) \in Nat
  <2> SUFFICES ASSUME NEW j \in 1..n
               PROVE  /\ UpTo(j, key, n) \subseteq 1..n /\ j \in UpTo(j, key, n)
                      /\ IsFiniteSet(UpTo(j, key, n)) /\ Cardinality(UpTo(j, key, n)) \in Nat
    OBVIOUS
  <2>1. UpTo(j, key, n) \subseteq 1..n /\ j \in UpTo(j, key, n)
    BY DEF UpTo
  <2> QED
    BY <1>1, <2>1, FS_Subset, FS_CardinalityType
<1>3. Cardinality(UpTo(i, key, n)) =< n
  BY <1>1, <1>2, FS_Subset
<1>4. Cardinality(UpTo(i, key, n)) # 0
  BY <1>2, FS_EmptySet
<1>5. ASSUME NEW j \in UpTo(i, key, n), j # i
      PROVE  Cardinality(UpTo(j, key, n)) < Cardinality(UpTo(i, key, n))
  <2>1. j \in 1..n /\ UpTo(j, key, n) \subseteq UpTo(i, key, n) /\ i \notin UpTo(j, key, n)
    BY <1>5 DEF UpTo
  <2>2. /\ Cardinality(UpTo(j, key, n)) =< Cardinality(UpTo(i, key, n))
        /\ Cardinality(UpTo(j, key, n)) # Cardinality(UpTo(i, key, n))
    BY <1>2, <2>1, FS_Subset
  <2> QED
    BY <1>2, <2>1, <2>2
<1> QED
  BY <1>2, <1>3, <1>4, <1>5

\* So that each count up to n occurs, and they give an order of the keys,
\* which is the one that Sorted returns.
LEMMA SortedIs ==
  ASSUME NEW n \in Nat, NEW key \in [1..n -> Int]
  PROVE  \E p : IsOrder(p, key, n) /\ Sorted(key) = [i \in 1..n |-> key[p[i]]]
<1> DEFINE f == [i \in 1..n |-> Cardinality(UpTo(i, key, n))]
           p == [k \in 1..n |-> CHOOSE i \in 1..n : Cardinality(UpTo(i, key, n)) = k]
<1>1. f \in [1..n -> 1..n] /\ \A i \in 1..n : f[i] = Cardinality(UpTo(i, key, n))
  BY CountsDiffer
<1>2. \A i, j \in 1..n : i \in UpTo(j, key, n) \/ j \in UpTo(i, key, n)
  BY DEF UpTo
<1> HIDE DEF f
<1>3. \A i, j \in 1..n : i \in UpTo(j, key, n) /\ i # j => f[i] < f[j]
  BY <1>1, CountsDiffer
<1>4. \A i, j \in 1..n : /\ f[i] < f[j] => i \in UpTo(j, key, n)
                         /\ f[i] = f[j] => i = j
  <2> SUFFICES ASSUME NEW i \in 1..n, NEW j \in 1..n
               PROVE  (f[i] < f[j] => i \in UpTo(j, key, n)) /\ (f[i] = f[j] => i = j)
    OBVIOUS
  <2>1. f[i] \in 1..n /\ f[j] \in 1..n
    BY <1>1
  <2> QED
    BY <1>2, <1>3, <2>1
<1>5. f \in Surjection(1..n, 1..n)
  <2>1. f \in Injection(1..n, 1..n)
    BY <1>1, <1>4 DEF Injection, IsInjective
  <2>2. IsFiniteSet(1..n)
    BY FS_Interval
  <2> QED
    BY <2>1, <2>2, FS_Injection
<1>6. ASSUME NEW k \in 1..n PROVE p[k] \in 1..n /\ f[p[k]] = k
  <2>1. \E i \in 1..n : Cardinality(UpTo(i, key, n)) = k
    BY <1>1, <1>5 DEF Surjection
  <2>2. PICK c : c = CHOOSE i \in 1..n : Cardinality(UpTo(i, key, n)) = k
    OBVIOUS
  <2>3. c \in 1..n /\ Cardinality(UpTo(c, key, n)) = k
    BY <2>1, <2>2, Zenon
  <2>4. p[k] = c
    BY <2>2
  <2> QED
    BY <1>1, <2>3, <2>4
<1>7. Sorted(key) = [k \in 1..n |-> key[p[k]]]
  <2>1. DOMAIN key = 1..n
    OBVIOUS
  <2>2. Sorted(key) = [k \in 1..n |-> key[CHOOSE i \in 1..n : Cardinality(UpTo(i, key, n)) = k]]
    BY <2>1 DEF Sorted, UpTo
  <2> QED
    BY <2>2
<1>8. p \in [1..n -> 1..n]
  BY <1>6
<1> HIDE DEF p
<1>9. \A v \in 1..n : \E k \in 1..n : p[k] = v
  BY <1>1, <1>4, <1>6
<1>10. ASSUME NEW k \in 1..n, NEW l \in 1..n, k < l PROVE key[p[k]] =< key[p[l]]
  <2>1. p[k] \in UpTo(p[l], key, n)
    BY <1>4, <1>6, <1>10
  <2> QED
    BY <1>6, <2>1 DEF UpTo
<1> QED
  BY <1>7, <1>8, <1>9, <1>10 DEF IsOrder, Surjection

\* At most k values are below the one that comes behind k others, and more
\* than k are not above it.
LEMMA RankOf ==
  ASSUME NEW n \in Nat \ {0}, NEW key \in [1..n -> Int], NEW p, IsOrder(p, key, n),
         NEW w \in [0..(n - 1) -> Int], \A t \in 0..(n - 1) : w[t] = key[t + 1],
         NEW k \in 0..(n - 1)
  PROVE  p[k + 1] - 1 \in 0..(n - 1) /\ IsRanked(w, k, w[p[k + 1] - 1])
<1>1. /\ p \in Surjection(1..n, 1..n) /\ p \in [1..n -> 1..n]
      /\ \A v \in 1..n : \E i \in 1..n : p[i] = v
      /\ \A i, j \in 1..n : i < j => key[p[i]] =< key[p[j]]
  BY DEF IsOrder, Surjection
<1>2. k + 1 \in 1..n /\ p[k + 1] \in 1..n /\ p[k + 1] - 1 \in 0..(n - 1)
  <2>1. k + 1 \in 1..n
    OBVIOUS
  <2>2. p[k + 1] \in 1..n
    BY <1>1, <2>1
  <2> QED
    BY <2>1, <2>2
<1>3. PICK v \in Int : v = key[p[k + 1]] /\ v = w[p[k + 1] - 1]
  BY <1>2
<1>4. IsFiniteSet(1..n) /\ IsFiniteSet(0..(n - 1))
  BY FS_Interval
<1>5. DOMAIN w = 0..(n - 1)
  OBVIOUS
<1>6. Cardinality({t \in 0..(n - 1) : w[t] < v}) =< k
  <2> DEFINE T == {p[i] - 1 : i \in 1..k}  g == [i \in 1..k |-> p[i] - 1]
             L == {t \in 0..(n - 1) : w[t] < v}
  <2>1. g \in Surjection(1..k, T)
    BY DEF Surjection
  <2>2. IsFiniteSet(T) /\ Cardinality(T) =< k
    <3>1. IsFiniteSet(1..k) /\ Cardinality(1..k) = k
      <4>1. k \in Int /\ 1 \in Int /\ k >= 0
        OBVIOUS
      <4>2. IsFiniteSet(1..k) /\ Cardinality(1..k) = IF 1 > k THEN 0 ELSE k - 1 + 1
        BY <4>1, FS_Interval
      <4> QED
        BY <4>1, <4>2
    <3> QED
      BY <2>1, <3>1, FS_Surjection
  <2>3. ASSUME NEW t \in L PROVE t \in T
    <3>1. PICK i \in 1..n : p[i] = t + 1
      <4>1. t + 1 \in 1..n
        OBVIOUS
      <4> QED
        BY <1>1, <4>1
    <3>2. key[p[i]] < v
      BY <3>1
    <3>3. ~ (k + 1 < i) /\ i # k + 1
      <4>1. k + 1 < i => v =< key[p[i]]
        BY <1>1, <1>2, <1>3
      <4>2. PICK x : x = key[p[i]]
        OBVIOUS
      <4>3. x \in Int
        BY <1>1, <4>2
      <4>4. ~ (k + 1 < i)
        <5>1. x < v /\ v \in Int
          BY <1>3, <3>2, <4>2
        <5>2. k + 1 < i => v =< x
          BY <4>1, <4>2
        <5>3. ~ (v =< x)
          BY <4>3, <5>1
        <5> QED
          BY <5>2, <5>3
      <4>5. i # k + 1
        <5> SUFFICES ASSUME i = k + 1 PROVE FALSE
          OBVIOUS
        <5>1. key[p[i]] = key[p[k + 1]]
          OBVIOUS
        <5>2. x = v
          BY <1>3, <4>2, <5>1
        <5> QED
          BY <1>3, <3>2, <4>2, <5>2
      <4> QED
        BY <4>4, <4>5
    <3>4. i \in 1..k /\ p[i] - 1 = t
      BY <3>1, <3>3
    <3> QED
      BY <3>4
  <2>4. L \in SUBSET T
    BY <2>3
  <2> HIDE DEF T, L
  <2>5. Cardinality(L) =< Cardinality(T) /\ IsFiniteSet(L)
    BY <2>2, <2>4, FS_Subset
  <2>6. Cardinality(L) \in Nat /\ Cardinality(T) \in Nat
    BY <2>2, <2>5, FS_CardinalityType
  <2>7. Cardinality(L) =< k
    BY <2>2, <2>5, <2>6
  <2> QED
    BY <2>7 DEF L
<1>7. Cardinality({t \in 0..(n - 1) : w[t] =< v}) > k
  <2> DEFINE T == {p[i] - 1 : i \in 1..(k + 1)}  g == [i \in 1..(k + 1) |-> p[i] - 1]
             L == {t \in 0..(n - 1) : w[t] =< v}
  <2>1. \A i, j \in 1..n : p[i] = p[j] => i = j
    <3>1. p \in Injection(1..n, 1..n)
      BY <1>1, <1>4, FS_SurjSameCardinalityImpliesInj
    <3> QED
      BY <3>1 DEF Injection, IsInjective
  <2>2. g \in Surjection(1..(k + 1), T)
    BY DEF Surjection
  <2>3. g \in Injection(1..(k + 1), T)
    <3>1. \A i, j \in 1..(k + 1) : g[i] = g[j] => i = j
      <4> SUFFICES ASSUME NEW i \in 1..(k + 1), NEW j \in 1..(k + 1), g[i] = g[j] PROVE i = j
        OBVIOUS
      <4>1. i \in 1..n /\ j \in 1..n /\ p[i] - 1 = p[j] - 1
        OBVIOUS
      <4>2. p[i] \in Int /\ p[j] \in Int
        BY <1>1, <4>1
      <4> QED
        BY <2>1, <4>1, <4>2
    <3>2. g \in [1..(k + 1) -> T]
      OBVIOUS
    <3> QED
      BY <3>1, <3>2 DEF Injection, IsInjective
  <2>4. Cardinality(T) = k + 1
    <3>1. ExistsBijection(1..(k + 1), T)
      BY <2>2, <2>3 DEF ExistsBijection, Bijection
    <3> QED
      BY <3>1, FS_CountingElements
  <2>5. ASSUME NEW i \in 1..(k + 1) PROVE p[i] - 1 \in L
    <3>1. i \in 1..n /\ p[i] \in 1..n
      <4>1. i \in 1..n
        OBVIOUS
      <4> QED
        BY <1>1, <4>1
    <3>2. key[p[i]] =< v
      <4>1. CASE i = k + 1
        <5>1. key[p[i]] = key[p[k + 1]]
          BY <4>1
        <5>2. key[p[i]] = v
          BY <1>3, <5>1
        <5> QED
          BY <1>3, <5>2
      <4>2. CASE i # k + 1
        <5>1. i < k + 1
          BY <4>2
        <5> QED
          BY <1>1, <1>2, <1>3, <3>1, <5>1
      <4> QED
        BY <4>1, <4>2
    <3>3. p[i] - 1 \in 0..(n - 1) /\ w[p[i] - 1] = key[p[i]]
      BY <3>1
    <3> QED
      BY <3>2, <3>3
  <2>6. T \in SUBSET L
    BY <2>5
  <2>7. IsFiniteSet(L)
    BY <1>4, FS_Subset
  <2> HIDE DEF T, L
  <2>8. Cardinality(T) =< Cardinality(L) /\ Cardinality(L) \in Nat
    BY <2>6, <2>7, FS_Subset, FS_CardinalityType
  <2>9. Cardinality(L) > k
    BY <2>4, <2>8
  <2> QED
    BY <2>9 DEF L
<1> QED
  BY <1>2, <1>3, <1>5, <1>6, <1>7 DEF IsRanked

\* The two places in the middle, which are one if n is odd.
LEMMA Halves ==
  ASSUME NEW n \in Nat \ {0}
  PROVE  /\ n \div 2 \in 0..(n - 1) /\ (n - 1) \div 2 \in 0..(n - 1)
         /\ n % 2 = 0 => n \div 2 = ((n - 1) \div 2) + 1
         /\ n % 2 # 0 => n \div 2 = (n - 1) \div 2
OBVIOUS

\* Median is a median.
LEMMA MedianIs ==
  ASSUME trials \in Nat \ {0}, NEW key \in [1..trials -> Int],
         NEW w \in [0..(trials - 1) -> Int], \A t \in 0..(trials - 1) : w[t] = key[t + 1]
  PROVE  IsMedian(w, Median(key))
<1>1. PICK n \in Nat \ {0} : n = trials
  OBVIOUS
<1>2. PICK p : IsOrder(p, key, n) /\ Sorted(key) = [i \in 1..n |-> key[p[i]]]
  BY <1>1, SortedIs
<1>3. PICK h \in 0..(n - 1) : h = n \div 2
  BY Halves
<1>4. PICK g \in 0..(n - 1) : g = (n - 1) \div 2
  BY Halves
<1>5. PICK s : s = Sorted(key)
  OBVIOUS
<1>6. /\ p[g + 1] - 1 \in 0..(n - 1) /\ IsRanked(w, g, w[p[g + 1] - 1])
      /\ p[h + 1] - 1 \in 0..(n - 1) /\ IsRanked(w, h, w[p[h + 1] - 1])
  BY <1>1, <1>2, RankOf
<1>7. /\ g + 1 \in 1..n /\ h + 1 \in 1..n
      /\ w[p[g + 1] - 1] = s[g + 1] /\ w[p[h + 1] - 1] = s[h + 1]
      /\ s[g + 1] \in Int /\ s[h + 1] \in Int
  <2>1. g + 1 \in 1..n /\ h + 1 \in 1..n
    OBVIOUS
  <2>2. s[g + 1] = key[p[g + 1]] /\ s[h + 1] = key[p[h + 1]]
    BY <1>2, <1>5, <2>1
  <2>3. p[g + 1] \in 1..n /\ p[h + 1] \in 1..n
    BY <1>2, <2>1 DEF IsOrder, Surjection
  <2>4. ASSUME NEW i \in 1..n PROVE w[i - 1] = key[i] /\ key[i] \in Int
    <3>1. i - 1 \in 0..(n - 1) /\ (i - 1) + 1 = i
      OBVIOUS
    <3> QED
      BY <1>1, <3>1
  <2> QED
    BY <2>1, <2>2, <2>3, <2>4
<1>8. Len(s) = n
  <2>1. s \in [1..n -> Int]
    <3>1. ASSUME NEW i \in 1..n PROVE key[p[i]] \in Int
      BY <1>1, <1>2 DEF IsOrder, Surjection
    <3> QED
      BY <1>2, <1>5, <3>1
  <2>2. s \in Seq(Int)
    BY <2>1
  <2> QED
    BY <2>1, <2>2
<1>9. Median(key) = n * (s[g + 1] + s[h + 1])
  <2>1. Median(key) = n * (IF n % 2 = 0 THEN s[n \div 2] + s[(n \div 2) + 1] ELSE 2 * s[(n \div 2) + 1])
    BY <1>5, <1>8 DEF Median
  <2>2. CASE n % 2 = 0
    <3>1. h = g + 1
      BY <1>3, <1>4, <2>2, Halves
    <3> QED
      BY <1>3, <2>1, <2>2, <3>1
  <2>3. CASE n % 2 # 0
    <3>1. h = g
      BY <1>3, <1>4, <2>3, Halves
    <3>2. 2 * s[h + 1] = s[g + 1] + s[h + 1]
      BY <1>7, <3>1
    <3> QED
      BY <1>3, <2>1, <2>3, <3>2
  <2> QED
    BY <2>2, <2>3
<1>10. DOMAIN w = 0..(n - 1)
  BY <1>1
<1> QED
  BY <1>1, <1>3, <1>4, <1>6, <1>7, <1>9, <1>10 DEF IsMedian

-----------------------------------------------------------------------------
(* The choice of the lowest.                                               *)

\* f keeps the first index, and then every one with a lower key.
IsScan(f, key, n) ==
  /\ f[1] = 1
  /\ \A i \in 2..n : f[i - 1] \in 1..(i - 1) =>
       f[i] = IF key[i] < key[f[i - 1]] THEN i ELSE f[i - 1]

\* b is the first of the lowest of n keys.
IsFirstLowest(b, key, n) ==
  /\ b \in 1..n
  /\ \A i \in 1..n : key[b] =< key[i] /\ (i < b => key[b] < key[i])

\* After i entries the scan is at the first of their lowest.
LEMMA ScanIsFirstLowest ==
  ASSUME NEW n \in Nat \ {0}, NEW key \in [1..n -> Int], NEW f, IsScan(f, key, n)
  PROVE  \A m \in 1..n : IsFirstLowest(f[m], key, m)
<1> DEFINE S == {m \in Nat : m + 1 \in 1..n => IsFirstLowest(f[m + 1], key, m + 1)}
<1>1. 0 \in S
  <2>1. f[1] = 1
    BY DEF IsScan
  <2> QED
    BY <2>1 DEF IsFirstLowest
<1>2. ASSUME NEW m \in Nat, m \in S PROVE m + 1 \in S
  <2> SUFFICES ASSUME m + 2 \in 1..n PROVE IsFirstLowest(f[m + 2], key, m + 2)
    OBVIOUS
  <2>1. IsFirstLowest(f[m + 1], key, m + 1)
    BY <1>2
  <2>2. f[m + 2] = IF key[m + 2] < key[f[m + 1]] THEN m + 2 ELSE f[m + 1]
    <3>1. m + 2 \in 2..n /\ (m + 2) - 1 = m + 1 /\ f[m + 1] \in 1..(m + 1)
      BY <2>1 DEF IsFirstLowest
    <3> QED
      BY <3>1 DEF IsScan
  <2>3. \A i \in 1..(m + 2) : i \in 1..(m + 1) \/ i = m + 2
    OBVIOUS
  <2> QED
    BY <2>1, <2>2, <2>3 DEF IsFirstLowest
<1> HIDE DEF S
<1>3. \A m \in Nat : m \in S
  BY <1>1, <1>2, Induction
<1>4. ASSUME NEW m \in 1..n PROVE IsFirstLowest(f[m], key, m)
  <2>1. m - 1 \in Nat /\ (m - 1) + 1 = m
    OBVIOUS
  <2> QED
    BY <1>3, <2>1 DEF S
<1> QED
  BY <1>4

\* f is defined step by step from its value at 1.
IsRecursive(f, first, next, n) ==
  f[1] = first /\ \A i \in 2..n : f[i] = next[i][f[i - 1]]

\* There is a function that is defined step by step.
LEMMA RecursionExists ==
  ASSUME NEW n \in Nat \ {0}, NEW A, NEW first \in A, NEW next \in [1..n -> [A -> A]]
  PROVE  \E f \in [1..n -> A] : IsRecursive(f, first, next, n)
<1> USE DEF IsRecursive
<1> DEFINE S == {m \in Nat : m + 1 \in 1..n => \E f \in [1..(m + 1) -> A] : IsRecursive(f, first, next, m + 1)}
<1>1. 0 \in S
  <2>1. PICK f : f = [i \in 1..1 |-> first]
    OBVIOUS
  <2>2. f \in [1..(0 + 1) -> A] /\ f[1] = first /\ \A i \in 2..(0 + 1) : f[i] = next[i][f[i - 1]]
    BY <2>1
  <2> QED
    BY <2>2
<1>2. ASSUME NEW m \in Nat, m \in S PROVE m + 1 \in S
  <2> SUFFICES ASSUME m + 2 \in 1..n PROVE \E f \in [1..(m + 2) -> A] : IsRecursive(f, first, next, m + 2)
    OBVIOUS
  <2>1. PICK f \in [1..(m + 1) -> A] : IsRecursive(f, first, next, m + 1)
    BY <1>2
  <2>2. PICK x \in A : x = next[m + 2][f[m + 1]]
    BY <2>1
  <2>3. PICK g \in [1..(m + 2) -> A] : g = [i \in 1..(m + 2) |-> IF i = m + 2 THEN x ELSE f[i]]
    <3>1. \A i \in 1..(m + 2) : i # m + 2 => i \in 1..(m + 1)
      OBVIOUS
    <3> QED
      BY <3>1
  <2>4. ASSUME NEW i \in 2..(m + 2) PROVE g[i] = next[i][g[i - 1]]
    <3>1. CASE i = m + 2
      <4>1. i - 1 = m + 1 /\ m + 1 \in 1..(m + 2) /\ m + 1 # m + 2
        BY <3>1
      <4> QED
        BY <2>2, <2>3, <3>1, <4>1
    <3>2. CASE i # m + 2
      <4>1. i \in 2..(m + 1) /\ i - 1 \in 1..(m + 2) /\ i - 1 # m + 2 /\ i \in 1..(m + 2)
        BY <3>2
      <4>2. g[i] = f[i] /\ g[i - 1] = f[i - 1]
        BY <2>3, <3>2, <4>1
      <4> QED
        BY <2>1, <4>1, <4>2
    <3> QED
      BY <3>1, <3>2
  <2>5. g[1] = first
    BY <2>1, <2>3
  <2> QED
    BY <2>4, <2>5
<1> HIDE DEF S
<1>3. \A m \in Nat : m \in S
  BY <1>1, <1>2, Induction
<1>4. n - 1 \in S /\ (n - 1) + 1 = n
  BY <1>3
<1> QED
  BY <1>4 DEF S

\* There is such a scan.
LEMMA ScanExists ==
  ASSUME NEW n \in Nat \ {0}, NEW key \in [1..n -> Int]
  PROVE  \E f \in [1..n -> 1..n] : /\ IsScan(f, key, n)
                                  /\ \A i \in 1..n : f[i] \in 1..i
<1> DEFINE next == [i \in 1..n |-> [b \in 1..n |-> IF key[i] < key[b] THEN i ELSE b]]
<1>1. next \in [1..n -> [1..n -> 1..n]]
  OBVIOUS
<1>2. \A i \in 1..n, b \in 1..n : next[i][b] = IF key[i] < key[b] THEN i ELSE b
  OBVIOUS
<1> HIDE DEF next
<1>3. PICK f \in [1..n -> 1..n] : IsRecursive(f, 1, next, n)
  <2>1. 1 \in 1..n
    OBVIOUS
  <2> QED
    BY <1>1, <2>1, RecursionExists
<1>4. \A i \in 2..n : i \in 1..n /\ f[i - 1] \in 1..n
  BY <1>3
<1>5. IsScan(f, key, n)
  BY <1>2, <1>3, <1>4 DEF IsScan, IsRecursive
<1>6. \A i \in 1..n : f[i] \in 1..i
  BY <1>5, ScanIsFirstLowest DEF IsFirstLowest
<1> QED
  BY <1>5, <1>6

-----------------------------------------------------------------------------
(* The invariant of the results.                                           *)

\* What a series runs at the i-th place of the inner loop, in the o-th round
\* of the outer one, and the round a measurement was taken in.
ModeAt(o, i) == CASE Rotates -> TurnedMode(o, i) [] kind = "slots" -> o [] kind = "shm" -> i
TrialAt(o, i) == IF kind = "slots" THEN i ELSE o
OuterOf(r) == IF kind = "slots" THEN r.mode ELSE r.trial
IsBefore(o, i) == o < outer \/ (o = outer /\ i < inner)

Saving == {"saveTrials", "saveSummary"}
Places == {"openTrials", "run", "sort", "summarize", "returned"} \cup Saving

\* Where the loops are at each place.
LoopInv ==
  /\ kind \in Kinds /\ trials \in TrialCounts[kind]
  /\ outer \in 0..OuterCount /\ inner \in 0..(InnerCount - 1)
  /\ pc \in Places /\ answer \in {"pending", "ok", "failed"}
  /\ pc # "returned" => answer = "pending"
  /\ pc = "openTrials" => Rotates
  /\ pc = "summarize" => kind # "shm" /\ inner = 0
  /\ pc = "sort" => kind = "shm"
  /\ pc = "saveTrials" => ~ Rotates
  /\ pc \in {"openTrials", "run"} => outer < OuterCount
  /\ pc \in {"sort"} \cup Saving \/ (pc = "summarize" /\ Rotates) \/ answer = "ok" =>
       outer = OuterCount

\* A measurement is that of its place before the counters; there is one for
\* each of these places.
IsMeasurement(r) ==
  /\ r.mode \in 0..(Modes - 1) /\ r.trial \in 0..(trials - 1) /\ r.order \in 0..(InnerCount - 1)
  /\ r.ms \in Latencies /\ r.second \in Nat
  /\ r.mode = ModeAt(OuterOf(r), r.order) /\ r.trial = TrialAt(OuterOf(r), r.order)
  /\ IsBefore(OuterOf(r), r.order)
MeasuredInv ==
  /\ \A r \in measured : IsMeasurement(r)
  /\ \A a, b \in measured : OuterOf(a) = OuterOf(b) /\ a.order = b.order => a = b
  /\ \A o \in 0..(OuterCount - 1), i \in 0..(InnerCount - 1) :
       IsBefore(o, i) => \E r \in measured : OuterOf(r) = o /\ r.order = i

\* The arrays have what was measured, until the times of a mode are sorted.
DataHolds ==
  /\ data \in [Cells -> [ms : Nat, second : Nat]]
  /\ \A r \in measured : data[Cell(r.mode, r.trial)] = [ms |-> r.ms, second |-> r.second]
CellSorted(m, t) == \E a, b \in measured : /\ a.mode = m /\ b.mode = m /\ a.trial = t
                                         /\ data[Cell(m, t)] = [ms |-> b.ms, second |-> a.second]
SortedHolds == \A m \in 0..(Modes - 1), t \in 0..(trials - 1) : CellSorted(m, t)
DataInv ==
  /\ kind # "shm" \/ pc \in {"run", "sort"} => DataHolds
  /\ kind = "shm" /\ pc = "saveTrials" => SortedHolds

AllTrials == {OneTrial(r) : r \in measured}
IsMixed(r) == \E a, b \in measured : r = [OneTrial(a) EXCEPT !.ms = b.ms] /\ a.mode = b.mode

\* The rows are those of all trials so far, or there are none yet.
RowsInv ==
  /\ Rotates => rows = AllTrials
  /\ kind = "slots" => /\ rows = {} \/ (rows = AllTrials /\ pc \in {"saveSummary", "returned"})
                       /\ answer = "ok" => rows # {}
  /\ kind = "shm" => /\ rows = {} \/ pc \in {"saveSummary", "returned"}
                     /\ \A r \in rows : IsMixed(r)

\* x is the median of mode m, of which all trials have been measured.
MedianOf(m, x) ==
  \E w \in [0..(trials - 1) -> Nat] :
    /\ \A t \in 0..(trials - 1) : \E r \in measured : r.mode = m /\ r.trial = t /\ r.ms = w[t]
    /\ IsMedian(w, x)

\* What the medians are so far.
MediansHold ==
  /\ kind # "shm" => medians \in Seq([ms : Nat, second : Nat])
  /\ Len(medians) \in 0..Modes /\ DOMAIN medians = 1..Len(medians)
  /\ \A m \in 1..Len(medians) : medians[m].ms # 0 => MedianOf(m - 1, medians[m].ms)

\* How many there are at each place.
MedianCount ==
  /\ pc \in {"openTrials", "run"} /\ kind # "slots" => medians = <<>>
  /\ pc = "sort" => medians = <<>>
  /\ pc = "run" /\ kind = "slots" => Len(medians) = outer
  /\ pc = "summarize" => IF kind = "slots" THEN outer = Len(medians) + 1 ELSE Len(medians) < Modes
  /\ pc \in Saving \/ answer = "ok" => Len(medians) = Modes

MedianInv == MediansHold /\ MedianCount

\* The summary has a line for each mode, b being the selected one.
TimeOf == [m \in 1..Modes |-> medians[m].ms]
TotalOf == [m \in 1..Modes |-> medians[m].second]
Line(m, b, c) == [mode |-> m - 1, ms |-> medians[m].ms, second |-> medians[m].second,
                  selected |-> kind # "shm" /\ m = b, selectedTotal |-> kind = "memory" /\ m = c]
SummaryHolds ==
  \E b, c \in Int :
    /\ summary = {Line(m, b, c) : m \in 1..Modes}
    /\ kind # "shm" => IsFirstLowest(b, TimeOf, Modes) /\ IsFirstLowest(c, TotalOf, Modes)
SummaryInv ==
  /\ summary = {} \/ (pc = "returned" /\ Len(medians) = Modes /\ SummaryHolds)
  /\ answer = "ok" /\ kind # "shm" => summary # {}

ResultInv == LoopInv /\ MeasuredInv /\ DataInv /\ RowsInv /\ MedianInv /\ SummaryInv

-----------------------------------------------------------------------------
(* The places of the loops, the trials and the cells of the arrays.        *)

\* The loops when the order of the modes turns from trial to trial.
LEMMA Turning ==
  ASSUME Rotates
  PROVE  /\ kind # "slots" /\ kind # "shm" /\ OuterCount = trials /\ InnerCount = Modes
         /\ \A o, i : ModeAt(o, i) = (o + i) % Modes /\ TrialAt(o, i) = o
         /\ \A r : OuterOf(r) = r.trial
         /\ \A m, t : Cell(m, t) = <<m, t>>
BY DEF Rotates, OuterCount, InnerCount, ModeAt, TrialAt, OuterOf, Cell, TurnedMode

\* The loops when all modes run in turn in each trial.
LEMMA InTurn ==
  ASSUME kind = "shm"
  PROVE  /\ ~ Rotates /\ OuterCount = trials /\ InnerCount = Modes
         /\ \A o, i : ModeAt(o, i) = i /\ TrialAt(o, i) = o
         /\ \A r : OuterOf(r) = r.trial
         /\ \A m, t : Cell(m, t) = <<m, t>>
BY DEF Rotates, OuterCount, InnerCount, ModeAt, TrialAt, OuterOf, Cell

\* The loops when all trials of a mode run before the next mode.
LEMMA OneByOne ==
  ASSUME kind = "slots"
  PROVE  /\ ~ Rotates /\ OuterCount = Modes /\ InnerCount = trials
         /\ \A o, i : ModeAt(o, i) = o /\ TrialAt(o, i) = i
         /\ \A r : OuterOf(r) = r.mode
         /\ \A m, t : Cell(m, t) = (m * trials) + t
BY DEF Rotates, OuterCount, InnerCount, ModeAt, TrialAt, OuterOf, Cell

\* Every series is one of these.
LEMMA KindIs == ASSUME kind \in Kinds PROVE Rotates \/ kind = "shm" \/ kind = "slots"
BY DEF Kinds, Rotates

\* There is at least one mode, one trial, one round and one place in it.
LEMMA CountsPositive ==
  ASSUME kind \in Kinds, trials \in TrialCounts[kind]
  PROVE  /\ Modes \in Nat \ {0} /\ trials \in Nat \ {0}
         /\ OuterCount \in Nat \ {0} /\ InnerCount \in Nat \ {0}
BY ModesPositive, CountAssumption DEF OuterCount, InnerCount

\* A place of the loops has a mode and a trial.
LEMMA PlaceHas ==
  ASSUME kind \in Kinds, trials \in TrialCounts[kind],
         NEW o \in 0..(OuterCount - 1), NEW i \in 0..(InnerCount - 1)
  PROVE  ModeAt(o, i) \in 0..(Modes - 1) /\ TrialAt(o, i) \in 0..(trials - 1)
<1>1. Modes \in Nat \ {0} /\ trials \in Nat \ {0}
  BY CountsPositive
<1>2. CASE Rotates
  <2>1. PICK M \in Nat \ {0} : M = Modes
    BY <1>1
  <2>2. o \in Nat /\ i \in Nat /\ (o + i) % M \in 0..(M - 1) /\ o \in 0..(trials - 1)
    BY <1>1, <1>2, <2>1, Turning
  <2> QED
    BY <1>2, <2>1, <2>2, Turning
<1>3. CASE kind = "shm"
  BY <1>3, InTurn
<1>4. CASE kind = "slots"
  BY <1>4, OneByOne
<1> QED
  BY <1>2, <1>3, <1>4, KindIs

\* No two places have the same mode and trial.
LEMMA PlacesDiffer ==
  ASSUME kind \in Kinds, trials \in TrialCounts[kind],
         NEW o \in 0..(OuterCount - 1), NEW i \in 0..(InnerCount - 1),
         NEW p \in 0..(OuterCount - 1), NEW j \in 0..(InnerCount - 1),
         ModeAt(o, i) = ModeAt(p, j), TrialAt(o, i) = TrialAt(p, j)
  PROVE  o = p /\ i = j
<1>1. CASE Rotates
  <2>1. PICK M \in Nat \ {0} : M = Modes
    BY CountsPositive
  <2>2. o = p /\ (o + i) % M = (o + j) % M /\ i \in 0..(M - 1) /\ j \in 0..(M - 1)
    <3>1. ModeAt(o, i) = (o + i) % Modes /\ ModeAt(p, j) = (p + j) % Modes
      BY <1>1, Turning
    <3>2. TrialAt(o, i) = o /\ TrialAt(p, j) = p
      BY <1>1, Turning
    <3>3. InnerCount = M
      BY <1>1, <2>1, Turning
    <3>4. o = p
      BY <3>2
    <3>5. (o + i) % M = (p + j) % M
      BY <2>1, <3>1
    <3> QED
      BY <3>3, <3>4, <3>5
  <2>3. o \in Nat
    BY <1>1, CountsPositive, Turning
  <2>4. o + i \in Nat /\ o + j \in Nat
    BY <2>2, <2>3
  <2>5. /\ o + i > o + j => (o + i) - (o + j) >= M
        /\ o + j > o + i => (o + j) - (o + i) >= M
    BY <2>1, <2>2, <2>4, SameRemainder
  <2>6. i = j
    BY <2>1, <2>2, <2>3, <2>5
  <2> QED
    BY <2>2, <2>6
<1>2. CASE kind = "shm"
  BY <1>2, InTurn
<1>3. CASE kind = "slots"
  BY <1>3, OneByOne
<1> QED
  BY <1>1, <1>2, <1>3, KindIs

\* Every remainder is that of one of M numbers in a row.
LEMMA EveryRemainder ==
  ASSUME NEW M \in Nat \ {0}, NEW t \in Nat, NEW m \in 0..(M - 1)
  PROVE  \E i \in 0..(M - 1) : (t + i) % M = m
<1> DEFINE r == t % M
<1>1. r \in 0..(M - 1) /\ t = (M * (t \div M)) + r /\ t \div M \in Nat
  <2>1. r \in 0..(M - 1) /\ t = (M * (t \div M)) + r /\ t \div M \in Int
    OBVIOUS
  <2>2. t \div M >= 0
    <3>1. 0 \div M = 0 /\ M * 0 =< t
      OBVIOUS
    <3>2. CASE 0 - (t \div M) > 0
      <4>1. M * (0 - (t \div M)) >= M
        BY <2>1, <3>2, Multiple
      <4>2. M * (0 - (t \div M)) = 0 - (M * (t \div M))
        BY <2>1
      <4> QED
        BY <2>1, <4>1, <4>2
    <3> QED
      BY <2>1, <3>2
  <2> QED
    BY <2>1, <2>2
<1>2. PICK q \in Nat : q = t \div M
  BY <1>1
<1> HIDE DEF r
<1>3. ASSUME NEW x \in Nat, NEW k \in Nat, x = (M * k) + m PROVE x % M = m
  <2>1. x \div M = k
    <3>1. M * k =< x /\ x < (M * k) + M
      BY <1>3
    <3> QED
      BY <3>1, QuotientIs
  <2>2. x = (M * (x \div M)) + (x % M) /\ x % M \in 0..(M - 1)
    OBVIOUS
  <2>3. PICK y \in 0..(M - 1) : y = x % M
    BY <2>2
  <2>4. PICK z \in Int : z = M * k
    OBVIOUS
  <2>5. x = z + y /\ x = z + m
    BY <1>3, <2>1, <2>2, <2>3, <2>4
  <2>6. y = m
    BY <2>5
  <2> QED
    BY <2>3, <2>6
<1>4. CASE m >= r
  <2>1. m - r \in 0..(M - 1) /\ t + (m - r) = (M * q) + m
    BY <1>1, <1>2, <1>4
  <2>2. (t + (m - r)) % M = m
    <3>1. t + (m - r) \in Nat
      BY <2>1
    <3> QED
      BY <1>2, <1>3, <2>1, <3>1
  <2> QED
    BY <2>1, <2>2
<1>5. CASE m < r
  <2>1. ((m + M) - r) \in 0..(M - 1)
    BY <1>1, <1>5
  <2>2. t + ((m + M) - r) = (M * (q + 1)) + m
    BY <1>1, <1>2
  <2>3. (t + ((m + M) - r)) % M = m
    <3>1. q + 1 \in Nat /\ t + ((m + M) - r) \in Nat
      BY <1>2, <2>1
    <3> QED
      BY <1>3, <2>2, <3>1
  <2> QED
    BY <2>1, <2>3
<1> QED
  BY <1>1, <1>4, <1>5

\* Every mode has a place in every trial.
LEMMA PlaceOf ==
  ASSUME kind \in Kinds, trials \in TrialCounts[kind],
         NEW m \in 0..(Modes - 1), NEW t \in 0..(trials - 1)
  PROVE  \E o \in 0..(OuterCount - 1), i \in 0..(InnerCount - 1) :
           ModeAt(o, i) = m /\ TrialAt(o, i) = t /\ (kind = "slots" => o = m)
<1>1. CASE Rotates
  <2>1. PICK M \in Nat \ {0} : M = Modes
    BY CountsPositive
  <2>2. t \in Nat
    BY CountsPositive
  <2>3. PICK i \in 0..(M - 1) : (t + i) % M = m
    BY <2>1, <2>2, EveryRemainder
  <2>4. ModeAt(t, i) = m /\ TrialAt(t, i) = t /\ t \in 0..(OuterCount - 1) /\ i \in 0..(InnerCount - 1)
    BY <1>1, <2>1, <2>3, Turning
  <2> QED
    BY <1>1, <2>4, Turning
<1>2. CASE kind = "shm"
  BY <1>2, InTurn
<1>3. CASE kind = "slots"
  BY <1>3, OneByOne
<1> QED
  BY <1>1, <1>2, <1>3, KindIs

\* Each mode and trial has a cell of its own.
LEMMA CellsDiffer ==
  ASSUME kind \in Kinds, trials \in TrialCounts[kind],
         NEW m \in 0..(Modes - 1), NEW t \in 0..(trials - 1)
  PROVE  /\ Cell(m, t) \in Cells
         /\ \A n \in 0..(Modes - 1), u \in 0..(trials - 1) :
              Cell(m, t) = Cell(n, u) => m = n /\ t = u
<1>1. CASE kind # "slots"
  BY <1>1 DEF Cell, Cells
<1>2. CASE kind = "slots"
  <2>1. PICK N \in Nat \ {0} : N = trials
    BY CountsPositive
  <2>2. PICK M \in Nat \ {0} : M = Modes
    BY CountsPositive
  <2>3. m \in 0..(M - 1) /\ t \in 0..(N - 1)
    BY <2>1, <2>2
  <2>4. (m * N) + t \in 0..((M * N) - 1)
    <3>1. (M - m) - 1 \in Nat /\ m \in Nat
      BY <2>3
    <3>2. PICK k \in Nat : k = (M - m) - 1
      BY <3>1
    <3>3. M * N = (m * N) + (k * N) + N /\ k * N \in Nat /\ m * N \in Nat
      <4>1. M = m + k + 1
        BY <2>3, <3>2
      <4>2. (m + k + 1) * N = (m * N) + (k * N) + N
        BY <2>3, <3>1
      <4> QED
        BY <3>1, <4>1, <4>2
    <3> QED
      BY <2>3, <3>3
  <2>5. ASSUME NEW n \in 0..(M - 1), NEW u \in 0..(N - 1), (m * N) + t = (n * N) + u
        PROVE  m = n /\ t = u
    <3>1. N * (m - n) = u - t /\ N * (n - m) = t - u
      BY <2>3, <2>5
    <3>2. CASE m - n > 0
      <4>1. N * (m - n) >= N
        BY <2>3, <3>2, Multiple
      <4> QED
        BY <2>3, <3>1, <4>1
    <3>3. CASE n - m > 0
      <4>1. N * (n - m) >= N
        BY <2>3, <3>3, Multiple
      <4> QED
        BY <2>3, <3>1, <4>1
    <3>4. CASE m = n
      BY <2>3, <2>5, <3>4
    <3> QED
      BY <2>3, <3>2, <3>3, <3>4
  <2>6. Cells = 0..((M * N) - 1)
    BY <1>2, <2>1, <2>2 DEF Cells
  <2> QED
    BY <1>2, <2>1, <2>2, <2>4, <2>5, <2>6, OneByOne
<1> QED
  BY <1>1, <1>2

-----------------------------------------------------------------------------
(* What the invariant says, and what leaves it as it is.                   *)

\* All that is defined by the command and its number of trials stays.
LEMMA KindStays ==
  ASSUME UNCHANGED <<kind, trials>>
  PROVE  /\ Modes' = Modes /\ Rotates' = Rotates /\ Cells' = Cells
         /\ OuterCount' = OuterCount /\ InnerCount' = InnerCount
         /\ \A o, i : ModeAt(o, i)' = ModeAt(o, i) /\ TrialAt(o, i)' = TrialAt(o, i)
         /\ \A r : OuterOf(r)' = OuterOf(r)
         /\ \A m, t : Cell(m, t)' = Cell(m, t)
<1>1. Modes' = Modes /\ Rotates' = Rotates
  BY DEF Modes, Rotates
<1> QED
  BY <1>1 DEF Cells, OuterCount, InnerCount, ModeAt, TrialAt, OuterOf, Cell, TurnedMode

\* Without a trial the measurements stay.
LEMMA MeasuredStays ==
  ASSUME MeasuredInv, UNCHANGED <<kind, trials, outer, inner, measured>>
  PROVE  MeasuredInv'
<1>1. \A r : IsMeasurement(r)' = IsMeasurement(r)
  BY KindStays DEF IsMeasurement, IsBefore
<1>2. \A o, i : IsBefore(o, i)' = IsBefore(o, i)
  BY DEF IsBefore
<1> QED
  BY <1>1, <1>2, KindStays DEF MeasuredInv

\* And so do the arrays, as long as they are not written.
LEMMA ArraysStay ==
  ASSUME UNCHANGED <<kind, trials, data, measured>>
  PROVE  /\ DataHolds => DataHolds'
         /\ SortedHolds => SortedHolds'
<1>1. \A m, t : CellSorted(m, t)' = CellSorted(m, t)
  BY KindStays DEF CellSorted
<1> QED
  BY <1>1, KindStays DEF DataHolds, SortedHolds

\* A median stays what it is when more is measured.
LEMMA MedianStays ==
  ASSUME UNCHANGED trials, measured \subseteq measured'
  PROVE  \A m, x : MedianOf(m, x) => MedianOf(m, x)'
<1>1. \A w, x : IsMedian(w, x)' = IsMedian(w, x)
  BY DEF IsMedian
<1> QED
  BY <1>1 DEF MedianOf

\* When a mode has been through, all its trials have been measured.
LEMMA AllMeasured ==
  ASSUME LoopInv, MeasuredInv, NEW m \in 0..(Modes - 1), NEW t \in 0..(trials - 1),
         outer = OuterCount \/ (kind = "slots" /\ m < outer)
  PROVE  \E r \in measured : r.mode = m /\ r.trial = t
<1>1. PICK o \in 0..(OuterCount - 1), i \in 0..(InnerCount - 1) :
         ModeAt(o, i) = m /\ TrialAt(o, i) = t /\ (kind = "slots" => o = m)
  BY PlaceOf DEF LoopInv
<1>2. PICK c \in Nat \ {0} : c = OuterCount
  BY CountsPositive DEF LoopInv
<1>3. o < outer
  <2>1. CASE outer = OuterCount
    BY <1>2, <2>1
  <2>2. CASE kind = "slots" /\ m < outer
    BY <1>1, <2>2
  <2> QED
    BY <2>1, <2>2
<1>4. PICK r \in measured : OuterOf(r) = o /\ r.order = i
  BY <1>3 DEF MeasuredInv, IsBefore
<1>5. r.mode = m /\ r.trial = t
  BY <1>1, <1>4 DEF MeasuredInv, IsMeasurement
<1> QED
  BY <1>5

\* The round of a measurement is one of the loop.
LEMMA RoundIs ==
  ASSUME LoopInv, NEW r, IsMeasurement(r)
  PROVE  OuterOf(r) \in 0..(OuterCount - 1)
<1>1. CASE Rotates
  BY <1>1, Turning DEF IsMeasurement
<1>2. CASE kind = "shm"
  BY <1>2, InTurn DEF IsMeasurement
<1>3. CASE kind = "slots"
  BY <1>3, OneByOne DEF IsMeasurement
<1> QED
  BY <1>1, <1>2, <1>3, KindIs DEF LoopInv

\* There is one measurement of a mode in a trial.
LEMMA OnlyOne ==
  ASSUME LoopInv, MeasuredInv, NEW a \in measured, NEW b \in measured,
         a.mode = b.mode, a.trial = b.trial
  PROVE  a = b
<1>1. IsMeasurement(a) /\ IsMeasurement(b)
  BY DEF MeasuredInv
<1>2. OuterOf(a) \in 0..(OuterCount - 1) /\ OuterOf(b) \in 0..(OuterCount - 1)
  BY <1>1, RoundIs
<1>3. a.order \in 0..(InnerCount - 1) /\ b.order \in 0..(InnerCount - 1)
  BY <1>1 DEF IsMeasurement
<1>4. /\ ModeAt(OuterOf(a), a.order) = ModeAt(OuterOf(b), b.order)
      /\ TrialAt(OuterOf(a), a.order) = TrialAt(OuterOf(b), b.order)
  BY <1>1 DEF IsMeasurement
<1>5. OuterOf(a) = OuterOf(b) /\ a.order = b.order
  BY <1>2, <1>3, <1>4, PlacesDiffer DEF LoopInv
<1> QED
  BY <1>5 DEF MeasuredInv

\* A cell is of one mode and trial, those of a measurement if it has one.
LEMMA CellOf ==
  ASSUME LoopInv, MeasuredInv, DataHolds, NEW r \in measured
  PROVE  /\ Cell(r.mode, r.trial) \in Cells
         /\ data[Cell(r.mode, r.trial)].ms = r.ms /\ data[Cell(r.mode, r.trial)].second = r.second
         /\ Row(r.mode, r.trial, data[Cell(r.mode, r.trial)]) = OneTrial(r)
<1>1. r.mode \in 0..(Modes - 1) /\ r.trial \in 0..(trials - 1)
  BY DEF MeasuredInv, IsMeasurement
<1>2. Cell(r.mode, r.trial) \in Cells
  BY <1>1, CellsDiffer DEF LoopInv
<1>3. data[Cell(r.mode, r.trial)] = [ms |-> r.ms, second |-> r.second]
  BY DEF DataHolds
<1> QED
  BY <1>2, <1>3 DEF Row, OneTrial

\* A median of numbers is a number.
LEMMA MedianIsNumber ==
  ASSUME trials \in Nat \ {0}, NEW key \in [1..trials -> Nat]
  PROVE  /\ Median(key) \in Nat
         /\ \E w \in [0..(trials - 1) -> Nat] : /\ \A t \in 0..(trials - 1) : w[t] = key[t + 1]
                                                /\ IsMedian(w, Median(key))
<1> DEFINE w == [t \in 0..(trials - 1) |-> key[t + 1]]
<1>1. \A t \in 0..(trials - 1) : t + 1 \in 1..trials
  OBVIOUS
<1>2. w \in [0..(trials - 1) -> Nat] /\ \A t \in 0..(trials - 1) : w[t] = key[t + 1]
  BY <1>1
<1> HIDE DEF w
<1>3. IsMedian(w, Median(key))
  <2>1. key \in [1..trials -> Int] /\ w \in [0..(trials - 1) -> Int]
    BY <1>2
  <2> QED
    BY <1>2, <2>1, MedianIs
<1>4. PICK x : x = Median(key)
  OBVIOUS
<1>5. PICK t \in DOMAIN w, u \in DOMAIN w : x = trials * (w[t] + w[u])
  BY <1>3, <1>4 DEF IsMedian
<1>6. w[t] \in Nat /\ w[u] \in Nat
  BY <1>2, <1>5
<1>7. w[t] + w[u] \in Nat
  BY <1>6
<1>8. trials * (w[t] + w[u]) \in Nat
  BY <1>7
<1> QED
  BY <1>2, <1>3, <1>4, <1>5, <1>8

\* What is concluded for a mode all of whose trials have been measured.
LEMMA MedianHolds ==
  ASSUME LoopInv, MeasuredInv, DataHolds, NEW m \in 0..(Modes - 1),
         \A t \in 0..(trials - 1) : \E r \in measured : r.mode = m /\ r.trial = t
  PROVE  /\ Median(Times(m)) \in Nat /\ Median(Seconds(m)) \in Nat
         /\ MedianOf(m, Median(Times(m)))
         /\ Times(m) \in [1..trials -> Nat]
<1>1. PICK n \in Nat \ {0} : n = trials
  BY CountsPositive DEF LoopInv
<1>2. ASSUME NEW t \in 0..(n - 1)
      PROVE  /\ data[Cell(m, t)].ms \in Nat /\ data[Cell(m, t)].second \in Nat
             /\ \E r \in measured : r.mode = m /\ r.trial = t /\ r.ms = data[Cell(m, t)].ms
  <2>1. PICK r \in measured : r.mode = m /\ r.trial = t
    BY <1>1, <1>2
  <2>2. Cell(m, t) \in Cells /\ data[Cell(m, t)].ms = r.ms
    BY <2>1, CellOf
  <2>3. data[Cell(m, t)] \in [ms : Nat, second : Nat]
    BY <2>2 DEF DataHolds
  <2> QED
    BY <2>1, <2>2, <2>3
<1>3. \A t \in 1..n : t - 1 \in 0..(n - 1)
  OBVIOUS
<1>4. /\ Times(m) = [t \in 1..n |-> data[Cell(m, t - 1)].ms]
      /\ Seconds(m) = [t \in 1..n |-> data[Cell(m, t - 1)].second]
  BY <1>1 DEF Times, Seconds
<1>5. Times(m) \in [1..n -> Nat] /\ Seconds(m) \in [1..n -> Nat]
  BY <1>2, <1>3, <1>4
<1>6. Median(Times(m)) \in Nat /\ Median(Seconds(m)) \in Nat
  BY <1>1, <1>5, MedianIsNumber
<1>7. PICK w \in [0..(n - 1) -> Nat] : /\ \A t \in 0..(n - 1) : w[t] = Times(m)[t + 1]
                                       /\ IsMedian(w, Median(Times(m)))
  BY <1>1, <1>5, MedianIsNumber
<1>8. ASSUME NEW t \in 0..(n - 1) PROVE w[t] = data[Cell(m, t)].ms
  <2>1. t + 1 \in 1..n /\ (t + 1) - 1 = t
    BY <1>1
  <2>2. Times(m)[t + 1] = data[Cell(m, (t + 1) - 1)].ms
    BY <1>4, <2>1
  <2> QED
    BY <1>7, <2>1, <2>2
<1>9. MedianOf(m, Median(Times(m)))
  <2>1. ASSUME NEW t \in 0..(n - 1)
        PROVE  \E r \in measured : r.mode = m /\ r.trial = t /\ r.ms = w[t]
    <3>1. PICK r \in measured : r.mode = m /\ r.trial = t /\ r.ms = data[Cell(m, t)].ms
      BY <1>2
    <3>2. r.ms = w[t]
      BY <1>8, <3>1
    <3> QED
      BY <3>1, <3>2
  <2>2. PICK x : x = Median(Times(m))
    OBVIOUS
  <2>3. w \in [0..(trials - 1) -> Nat] /\ IsMedian(w, x)
    BY <1>1, <1>7, <2>2
  <2>4. MedianOf(m, x)
    BY <1>1, <2>1, <2>3, Zenon DEF MedianOf
  <2> QED
    BY <2>2, <2>4
<1> QED
  BY <1>1, <1>5, <1>6, <1>9

-----------------------------------------------------------------------------
(* The invariant implies that the results are true.                        *)

\* The types are those of the invariant.
LEMMA ResultTypes == ASSUME LoopInv, MeasuredInv, MedianInv PROVE TypeOK
<1>1. \A m \in measured : /\ m.mode \in 0..(Modes - 1) /\ m.trial \in 0..(trials - 1)
                          /\ m.order \in Nat
  BY CountsPositive DEF LoopInv, MeasuredInv, IsMeasurement
<1>2. Len(medians) =< Modes
  <2>1. PICK M \in Nat : M = Modes
    BY CountsPositive DEF LoopInv
  <2>2. Len(medians) \in 0..M
    BY <2>1 DEF MedianInv, MediansHold
  <2> QED
    BY <2>1, <2>2
<1> QED
  BY <1>1, <1>2 DEF LoopInv, TypeOK, Places, Saving

\* The times and totals of the modes, as numbers.
LEMMA MedianTypes ==
  ASSUME LoopInv, MedianInv, kind # "shm", Len(medians) = Modes
  PROVE  /\ Modes \in Nat \ {0} /\ TimeOf \in [1..Modes -> Int] /\ TotalOf \in [1..Modes -> Int]
         /\ \A m \in 1..Modes : /\ TimeOf[m] = medians[m].ms /\ medians[m].ms \in Nat
                                /\ TotalOf[m] = medians[m].second /\ medians[m].second \in Nat
<1>1. PICK M \in Nat \ {0} : M = Modes
  BY CountsPositive DEF LoopInv
<1>2. medians \in Seq([ms : Nat, second : Nat]) /\ Len(medians) = M
  BY <1>1 DEF MedianInv, MediansHold
<1>3. \A m \in 1..M : medians[m] \in [ms : Nat, second : Nat]
  <2>1. \A R : medians \in Seq(R) => \A m \in 1..Len(medians) : medians[m] \in R
    OBVIOUS
  <2> QED
    BY <1>2, <2>1
<1>4. \A m \in 1..M : medians[m].ms \in Nat /\ medians[m].second \in Nat
  BY <1>3
<1>5. TimeOf = [m \in 1..M |-> medians[m].ms] /\ TotalOf = [m \in 1..M |-> medians[m].second]
  BY <1>1 DEF TimeOf, TotalOf
<1>6. TimeOf \in [1..M -> Int] /\ TotalOf \in [1..M -> Int]
  BY <1>4, <1>5
<1> QED
  BY <1>1, <1>4, <1>5, <1>6

\* The mode that is selected for its time is the first of the lowest.
LEMMA BestIsFirst ==
  ASSUME LoopInv, MedianInv, kind # "shm", Len(medians) = Modes
  PROVE  IsFirstLowest(BestBy[1], TimeOf, Modes)
<1> DEFINE n == Modes
           Eq(f) == f = [m \in 1..Modes |-> IF m = 1 THEN 1
                           ELSE IF medians[m].ms < medians[f[m - 1]].ms THEN m ELSE f[m - 1]]
           upTo == CHOOSE f : Eq(f)
           key == TimeOf
<1>1. n \in Nat \ {0} /\ key \in [1..n -> Int]
  BY MedianTypes
<1>2. \A i \in 1..n : key[i] = medians[i].ms
  BY MedianTypes
<1>3. \E f : Eq(f)
  <2> HIDE DEF key
  <2>1. PICK f \in [1..n -> 1..n] : IsScan(f, key, n) /\ \A i \in 1..n : f[i] \in 1..i
    BY <1>1, ScanExists
  <2>2. \A i \in 1..n : i # 1 => i \in 2..n /\ i - 1 \in 1..n
    BY <1>1
  <2>3. f = [i \in 1..n |-> IF i = 1 THEN 1
                            ELSE IF medians[i].ms < medians[f[i - 1]].ms THEN i ELSE f[i - 1]]
    BY <1>1, <1>2, <2>1, <2>2 DEF IsScan
  <2> QED
    BY <1>1, <2>3
<1>4. Eq(upTo)
  <2> HIDE DEF Eq
  <2> QED
    BY <1>3
<1> HIDE DEF upTo, key
<1>5. \A i \in 1..n : upTo[i] = IF i = 1 THEN 1
                                ELSE IF medians[i].ms < medians[upTo[i - 1]].ms THEN i ELSE upTo[i - 1]
  BY <1>1, <1>4
<1>6. IsScan(upTo, key, n)
  <2>1. ASSUME NEW i \in 2..n, upTo[i - 1] \in 1..(i - 1)
        PROVE  upTo[i] = IF key[i] < key[upTo[i - 1]] THEN i ELSE upTo[i - 1]
    <3>1. i \in 1..n /\ i # 1 /\ upTo[i - 1] \in 1..n
      BY <1>1, <2>1
    <3> QED
      BY <1>2, <1>5, <3>1
  <2> QED
    BY <1>1, <1>5, <2>1 DEF IsScan
<1>7. IsFirstLowest(upTo[n], key, n)
  BY <1>1, <1>6, ScanIsFirstLowest
<1>8. BestBy[1] = upTo[n]
  BY DEF BestBy, LowestBy, upTo
<1> QED
  BY <1>7, <1>8 DEF key

\* The mode that is selected for its total is the first of the lowest.
LEMMA BestTotalIsFirst ==
  ASSUME LoopInv, MedianInv, kind # "shm", Len(medians) = Modes
  PROVE  IsFirstLowest(BestBy[2], TotalOf, Modes)
<1> DEFINE n == Modes
           Eq(f) == f = [m \in 1..Modes |-> IF m = 1 THEN 1
                           ELSE IF medians[m].second < medians[f[m - 1]].second THEN m ELSE f[m - 1]]
           upTo == CHOOSE f : Eq(f)
           key == TotalOf
<1>1. n \in Nat \ {0} /\ key \in [1..n -> Int]
  BY MedianTypes
<1>2. \A i \in 1..n : key[i] = medians[i].second
  BY MedianTypes
<1>3. \E f : Eq(f)
  <2> HIDE DEF key
  <2>1. PICK f \in [1..n -> 1..n] : IsScan(f, key, n) /\ \A i \in 1..n : f[i] \in 1..i
    BY <1>1, ScanExists
  <2>2. \A i \in 1..n : i # 1 => i \in 2..n /\ i - 1 \in 1..n
    BY <1>1
  <2>3. f = [i \in 1..n |-> IF i = 1 THEN 1
                            ELSE IF medians[i].second < medians[f[i - 1]].second THEN i ELSE f[i - 1]]
    BY <1>1, <1>2, <2>1, <2>2 DEF IsScan
  <2> QED
    BY <1>1, <2>3
<1>4. Eq(upTo)
  <2> HIDE DEF Eq
  <2> QED
    BY <1>3
<1> HIDE DEF upTo, key
<1>5. \A i \in 1..n : upTo[i] = IF i = 1 THEN 1
                                ELSE IF medians[i].second < medians[upTo[i - 1]].second THEN i ELSE upTo[i - 1]
  BY <1>1, <1>4
<1>6. IsScan(upTo, key, n)
  <2>1. ASSUME NEW i \in 2..n, upTo[i - 1] \in 1..(i - 1)
        PROVE  upTo[i] = IF key[i] < key[upTo[i - 1]] THEN i ELSE upTo[i - 1]
    <3>1. i \in 1..n /\ i # 1 /\ upTo[i - 1] \in 1..n
      BY <1>1, <2>1
    <3> QED
      BY <1>2, <1>5, <3>1
  <2> QED
    BY <1>1, <1>5, <2>1 DEF IsScan
<1>7. IsFirstLowest(upTo[n], key, n)
  BY <1>1, <1>6, ScanIsFirstLowest
<1>8. BestBy[2] = upTo[n]
  BY DEF BestBy, LowestBy, upTo
<1> QED
  BY <1>7, <1>8 DEF key

\* The lines of a summary are of different modes.
LEMMA LinesCounted ==
  ASSUME LoopInv, SummaryHolds
  PROVE  Cardinality(summary) = Modes
<1>1. PICK M \in Nat \ {0} : M = Modes
  BY CountsPositive DEF LoopInv
<1>2. PICK b, c : summary = {Line(m, b, c) : m \in 1..M}
  BY <1>1 DEF SummaryHolds
<1> DEFINE f == [m \in 1..M |-> Line(m, b, c)]
<1>3. \A m \in 1..M : f[m] = Line(m, b, c) /\ f[m].mode = m - 1 /\ f[m] \in summary
  BY <1>2 DEF Line
<1>4. f \in [1..M -> summary]
  BY <1>2
<1>5. f \in Surjection(1..M, summary)
  BY <1>2, <1>4 DEF Surjection
<1> HIDE DEF f
<1>6. f \in Injection(1..M, summary)
  <2>1. ASSUME NEW m \in 1..M, NEW n \in 1..M, f[m] = f[n] PROVE m = n
    <3>1. m - 1 = n - 1
      BY <1>3, <2>1
    <3> QED
      BY <3>1
  <2> QED
    BY <1>4, <2>1 DEF Injection, IsInjective
<1>7. ExistsBijection(1..M, summary)
  BY <1>5, <1>6 DEF ExistsBijection, Bijection
<1> QED
  BY <1>1, <1>7, FS_CountingElements

\* The rows of a series that ends well are of all modes and trials.
LEMMA RowsComplete ==
  ASSUME ResultInv, answer = "ok", kind # "shm"
  PROVE  {<<r.mode, r.trial>> : r \in rows} = (0..(Modes - 1)) \X (0..(trials - 1))
<1>1. LoopInv /\ MeasuredInv /\ rows = AllTrials /\ outer = OuterCount
  <2>1. LoopInv /\ MeasuredInv /\ outer = OuterCount
    BY DEF ResultInv, LoopInv
  <2>2. rows = AllTrials
    BY <2>1, KindIs DEF ResultInv, RowsInv, LoopInv
  <2> QED
    BY <2>1, <2>2
<1>2. \A q \in measured : OneTrial(q).mode = q.mode /\ OneTrial(q).trial = q.trial
  BY DEF OneTrial
<1>3. ASSUME NEW r \in rows PROVE r.mode \in 0..(Modes - 1) /\ r.trial \in 0..(trials - 1)
  <2>1. PICK q \in measured : r = OneTrial(q)
    BY <1>1 DEF AllTrials
  <2> QED
    BY <1>1, <1>2, <2>1 DEF MeasuredInv, IsMeasurement
<1>4. ASSUME NEW m \in 0..(Modes - 1), NEW t \in 0..(trials - 1)
      PROVE  \E r \in rows : r.mode = m /\ r.trial = t
  <2>1. PICK q \in measured : q.mode = m /\ q.trial = t
    BY <1>1, AllMeasured
  <2>2. OneTrial(q) \in rows
    BY <1>1 DEF AllTrials
  <2> QED
    BY <1>2, <2>1, <2>2
<1> QED
  BY <1>3, <1>4

\* What the rows say.
LEMMA RowsFollow == ASSUME ResultInv PROVE RowsAreTrue
<1>1. kind # "shm" => rows \subseteq {OneTrial(m) : m \in measured}
  <2>1. kind # "shm" => rows = {} \/ rows = AllTrials
    BY KindIs DEF ResultInv, RowsInv, LoopInv
  <2> QED
    BY <2>1 DEF AllTrials
<1>2. kind = "shm" => \A r \in rows : \E a, b \in measured :
        r = [OneTrial(a) EXCEPT !.ms = b.ms] /\ a.mode = b.mode
  BY DEF ResultInv, RowsInv, IsMixed
<1>3. answer = "ok" /\ kind # "shm" => Cardinality(summary) = Modes
  BY LinesCounted DEF ResultInv, SummaryInv
<1> QED
  BY <1>1, <1>2, <1>3, RowsComplete DEF RowsAreTrue

\* What was measured of a mode in the t-th trial, as the specification looks
\* it up.
LEMMA MeasuredTimesAre ==
  ASSUME LoopInv, MeasuredInv, NEW m \in 0..(Modes - 1),
         NEW w \in [0..(trials - 1) -> Nat],
         \A t \in 0..(trials - 1) : \E r \in measured : r.mode = m /\ r.trial = t /\ r.ms = w[t]
  PROVE  MeasuredTimes(m) = w
<1>1. ASSUME NEW t \in 0..(trials - 1)
      PROVE  (CHOOSE r \in measured : r.mode = m /\ r.trial = t).ms = w[t]
  <2>1. PICK q \in measured : q.mode = m /\ q.trial = t /\ q.ms = w[t]
    BY <1>1
  <2> DEFINE r == CHOOSE r \in measured : r.mode = m /\ r.trial = t
  <2>2. r \in measured /\ r.mode = m /\ r.trial = t
    BY <2>1, Zenon
  <2> HIDE DEF r
  <2>3. r = q
    BY <2>1, <2>2, OnlyOne
  <2>4. r.ms = w[t]
    BY <2>1, <2>3
  <2> QED
    BY <2>4 DEF r
<1> QED
  BY <1>1 DEF MeasuredTimes

\* What the lines of a summary say.
LEMMA SelectionFollows == ASSUME ResultInv PROVE SelectionIsBest
<1> SUFFICES ASSUME NEW r \in summary
             PROVE  /\ r.ms # 0 => IsMedian(MeasuredTimes(r.mode), r.ms)
                    /\ kind # "shm" =>
                         /\ r.selected <=> First(r, LAMBDA s : s.ms)
                         /\ kind = "memory" => (r.selectedTotal <=> First(r, LAMBDA s : s.second))
  BY DEF SelectionIsBest
<1>1. LoopInv /\ MeasuredInv /\ MedianInv /\ Len(medians) = Modes /\ SummaryHolds
  BY DEF ResultInv, SummaryInv
<1>2. PICK M \in Nat \ {0} : M = Modes
  BY <1>1, CountsPositive DEF LoopInv
<1>3. PICK b \in Int, c \in Int :
         /\ summary = {Line(m, b, c) : m \in 1..M}
         /\ kind # "shm" => IsFirstLowest(b, TimeOf, M) /\ IsFirstLowest(c, TotalOf, M)
  BY <1>1, <1>2 DEF SummaryHolds
<1>4. ASSUME NEW m \in 1..M
      PROVE  /\ Line(m, b, c) \in summary /\ Line(m, b, c).mode = m - 1
             /\ Line(m, b, c).ms = medians[m].ms /\ Line(m, b, c).second = medians[m].second
             /\ Line(m, b, c).selected <=> (kind # "shm" /\ m = b)
             /\ Line(m, b, c).selectedTotal <=> (kind = "memory" /\ m = c)
  BY <1>3 DEF Line
<1>5. PICK n \in 1..M : r = Line(n, b, c)
  BY <1>3
<1>6. ASSUME r.ms # 0 PROVE IsMedian(MeasuredTimes(r.mode), r.ms)
  <2>1. MedianOf(n - 1, medians[n].ms)
    BY <1>1, <1>2, <1>4, <1>5, <1>6 DEF MedianInv, MediansHold
  <2>2. PICK w \in [0..(trials - 1) -> Nat] :
          /\ \A t \in 0..(trials - 1) : \E q \in measured : q.mode = n - 1 /\ q.trial = t /\ q.ms = w[t]
          /\ IsMedian(w, medians[n].ms)
    BY <2>1 DEF MedianOf
  <2>3. n - 1 \in 0..(Modes - 1)
    BY <1>2
  <2>4. MeasuredTimes(n - 1) = w
    BY <1>1, <2>2, <2>3, MeasuredTimesAre
  <2> QED
    BY <1>4, <1>5, <2>2, <2>4
<1>7. ASSUME kind # "shm" PROVE r.selected <=> First(r, LAMBDA s : s.ms)
  <2>1. \A m \in 1..M : TimeOf[m] = medians[m].ms /\ medians[m].ms \in Nat
    BY <1>1, <1>2, <1>7, MedianTypes
  <2>2. First(r, LAMBDA s : s.ms) <=>
          \A m \in 1..M : /\ TimeOf[n] =< TimeOf[m]
                          /\ m < n => TimeOf[n] < TimeOf[m]
    <3>1. First(r, LAMBDA s : s.ms) <=>
            \A s \in summary : r.ms =< s.ms /\ (s.mode < r.mode => r.ms < s.ms)
      BY DEF First
    <3>2. \A m \in 1..M : m - 1 < n - 1 <=> m < n
      OBVIOUS
    <3>3. \A s \in summary : \E m \in 1..M : s = Line(m, b, c)
      BY <1>3
    <3> QED
      BY <1>4, <1>5, <2>1, <3>1, <3>2, <3>3
  <2>3. r.selected <=> n = b
    BY <1>4, <1>5, <1>7
  <2>4. IsFirstLowest(b, TimeOf, M)
    BY <1>3, <1>7
  <2>5. (\A m \in 1..M : TimeOf[n] =< TimeOf[m] /\ (m < n => TimeOf[n] < TimeOf[m])) <=> n = b
    BY <2>1, <2>4 DEF IsFirstLowest
  <2> QED
    BY <2>2, <2>3, <2>5
<1>8. ASSUME kind # "shm", kind = "memory" PROVE r.selectedTotal <=> First(r, LAMBDA s : s.second)
  <2>1. \A m \in 1..M : TotalOf[m] = medians[m].second /\ medians[m].second \in Nat
    BY <1>1, <1>2, <1>8, MedianTypes
  <2>2. First(r, LAMBDA s : s.second) <=>
          \A m \in 1..M : /\ TotalOf[n] =< TotalOf[m]
                          /\ m < n => TotalOf[n] < TotalOf[m]
    <3>1. First(r, LAMBDA s : s.second) <=>
            \A s \in summary : r.second =< s.second /\ (s.mode < r.mode => r.second < s.second)
      BY DEF First
    <3>2. \A m \in 1..M : m - 1 < n - 1 <=> m < n
      OBVIOUS
    <3>3. \A s \in summary : \E m \in 1..M : s = Line(m, b, c)
      BY <1>3
    <3> QED
      BY <1>4, <1>5, <2>1, <3>1, <3>2, <3>3
  <2>3. r.selectedTotal <=> n = c
    BY <1>4, <1>5, <1>8
  <2>4. IsFirstLowest(c, TotalOf, M)
    BY <1>3, <1>8
  <2>5. (\A m \in 1..M : TotalOf[n] =< TotalOf[m] /\ (m < n => TotalOf[n] < TotalOf[m])) <=> n = c
    BY <2>1, <2>4 DEF IsFirstLowest
  <2> QED
    BY <2>2, <2>3, <2>5
<1> QED
  BY <1>6, <1>7, <1>8

\* Together.
LEMMA ResultInvTrue == ResultInv => ResultsAreTrue
BY ResultTypes, RowsFollow, SelectionFollows DEF ResultInv, ResultsAreTrue

-----------------------------------------------------------------------------
(* The steps.                                                              *)

\* At the start nothing is measured and nothing concluded.
LEMMA ResultInvInit == Init => ResultInv
<1> SUFFICES ASSUME Init PROVE ResultInv
  OBVIOUS
<1>1. /\ kind \in Kinds /\ trials \in TrialCounts[kind] /\ outer = 0 /\ inner = 0
      /\ answer = "pending" /\ measured = {} /\ rows = {} /\ medians = <<>> /\ summary = {}
      /\ pc = IF WritesAsItRuns THEN "openTrials" ELSE "run"
  BY DEF Init
<1>2. /\ Modes \in Nat \ {0} /\ trials \in Nat \ {0}
      /\ OuterCount \in Nat \ {0} /\ InnerCount \in Nat \ {0}
  BY <1>1, CountsPositive
<1>3. LoopInv
  <2>1. outer \in 0..OuterCount /\ inner \in 0..(InnerCount - 1) /\ outer < OuterCount
    BY <1>1, <1>2
  <2>2. (pc = "openTrials" /\ Rotates) \/ pc = "run"
    BY <1>1 DEF WritesAsItRuns
  <2> QED
    BY <1>1, <2>1, <2>2 DEF LoopInv, Places, Saving
<1>4. MeasuredInv
  <2>1. ASSUME NEW o \in 0..(OuterCount - 1), NEW i \in 0..(InnerCount - 1) PROVE ~ IsBefore(o, i)
    BY <1>1, <1>2 DEF IsBefore
  <2> QED
    BY <1>1, <2>1 DEF MeasuredInv
<1>5. DataHolds
  <2>1. data = [c \in Cells |-> Zero] /\ Zero \in [ms : Nat, second : Nat]
    BY DEF Init, Zero
  <2>2. data \in [Cells -> [ms : Nat, second : Nat]]
    BY <2>1
  <2> QED
    BY <1>1, <2>2 DEF DataHolds
<1>6. pc \in {"openTrials", "run"}
  BY <1>1
<1>7. RowsInv
  BY <1>1, <1>6 DEF RowsInv, AllTrials
<1>8. MedianInv
  <2>1. MediansHold
    BY <1>1, <1>2 DEF MediansHold
  <2>2. MedianCount
    BY <1>1, <1>6 DEF MedianCount, Saving
  <2> QED
    BY <2>1, <2>2 DEF MedianInv
<1> QED
  BY <1>1, <1>3, <1>4, <1>5, <1>6, <1>7, <1>8 DEF ResultInv, DataInv, SummaryInv

\* The medians stay when only more is measured.
LEMMA MediansStay ==
  ASSUME MediansHold, UNCHANGED <<kind, trials, medians>>, measured \subseteq measured'
  PROVE  MediansHold'
<1>1. Modes' = Modes
  BY DEF Modes
<1>2. \A m, x : MedianOf(m, x) => MedianOf(m, x)'
  BY MedianStays
<1> QED
  BY <1>1, <1>2 DEF MediansHold

\* The rows say the same when nothing is measured.
LEMMA RowsStay ==
  ASSUME UNCHANGED measured
  PROVE  AllTrials' = AllTrials /\ \A r : IsMixed(r)' = IsMixed(r)
BY DEF AllTrials, OneTrial, IsMixed

\* The trials file is opened.
LEMMA OpenTrialsInv == ASSUME ResultInv, OpenTrials PROVE ResultInv'
<1> USE DEF ResultInv
<1>1. /\ pc = "openTrials"
      /\ UNCHANGED <<kind, trials, outer, inner, data, measured, rows, medians, summary>>
      /\ (pc' = "run" /\ answer' = answer) \/ (pc' = "returned" /\ answer' = "failed")
  BY DEF OpenTrials, Goto, Return
<1>2. /\ Rotates /\ kind # "slots" /\ kind # "shm" /\ answer = "pending" /\ summary = {}
      /\ medians = <<>>
  BY <1>1, Turning DEF LoopInv, SummaryInv, MedianInv, MedianCount
<1>3. Rotates' /\ OuterCount' = OuterCount /\ InnerCount' = InnerCount
  BY <1>1, <1>2, KindStays
<1>4. LoopInv'
  <2>1. outer < OuterCount
    BY <1>1 DEF LoopInv
  <2> QED
    BY <1>1, <1>2, <1>3, <2>1 DEF LoopInv, Places, Saving
<1>5. MeasuredInv'
  BY <1>1, MeasuredStays
<1>6. DataInv'
  BY <1>1, <1>2, ArraysStay DEF DataInv
<1>7. RowsInv'
  BY <1>1, <1>2, <1>3, RowsStay DEF RowsInv
<1>8. MedianInv'
  BY <1>1, <1>2, MediansStay DEF MedianInv, MedianCount, Saving
<1>9. SummaryInv'
  BY <1>1, <1>2 DEF SummaryInv
<1> QED
  BY <1>4, <1>5, <1>6, <1>7, <1>8, <1>9

\* A trial fails and the series with it.
LEMMA TrialFailsInv == ASSUME ResultInv, TrialFails PROVE ResultInv'
<1> USE DEF ResultInv
<1>1. /\ pc = "run" /\ pc' = "returned" /\ answer' = "failed"
      /\ UNCHANGED <<kind, trials, outer, inner, data, measured, rows, medians, summary>>
  BY DEF TrialFails, Return
<1>2. summary = {}
  BY <1>1 DEF SummaryInv
<1>3. Rotates' = Rotates /\ OuterCount' = OuterCount /\ InnerCount' = InnerCount
  BY <1>1, KindStays
<1>4. LoopInv'
  BY <1>1, <1>3 DEF LoopInv, Places, Saving
<1>5. MeasuredInv'
  BY <1>1, MeasuredStays
<1>6. DataInv'
  BY <1>1, ArraysStay DEF DataInv
<1>7. RowsInv'
  BY <1>1, <1>3, RowsStay DEF RowsInv
<1>8. MedianInv'
  BY <1>1, MediansStay DEF MedianInv, MedianCount, Saving
<1>9. SummaryInv'
  BY <1>1, <1>2 DEF SummaryInv
<1> QED
  BY <1>4, <1>5, <1>6, <1>7, <1>8, <1>9

\* Nothing happens.
LEMMA NothingHappensInv == ASSUME ResultInv, UNCHANGED vars PROVE ResultInv'
<1> USE DEF ResultInv
<1>1. UNCHANGED <<kind, trials, pc, answer, outer, inner, data, measured, rows, medians, summary>>
  BY DEF vars
<1>2. Rotates' = Rotates /\ OuterCount' = OuterCount /\ InnerCount' = InnerCount /\ Modes' = Modes
  BY <1>1, KindStays
<1>3. LoopInv'
  BY <1>1, <1>2 DEF LoopInv
<1>4. MeasuredInv'
  BY <1>1, MeasuredStays
<1>5. DataInv'
  BY <1>1, ArraysStay DEF DataInv
<1>6. RowsInv'
  BY <1>1, <1>2, RowsStay DEF RowsInv
<1>7. MedianInv'
  BY <1>1, <1>2, MediansStay DEF MedianInv, MedianCount
<1>8. SummaryInv'
  <2>1. SummaryHolds' = SummaryHolds
    BY <1>1, <1>2 DEF SummaryHolds, Line, TimeOf, TotalOf
  <2> QED
    BY <1>1, <1>2, <2>1 DEF SummaryInv
<1> QED
  BY <1>3, <1>4, <1>5, <1>6, <1>7, <1>8

\* The second number of a trial is a number.
LEMMA SecondIs ==
  ASSUME NEW ms \in Latencies, NEW second \in Second(ms)
  PROVE  ms \in Nat /\ second \in Nat
<1>1. ms \in Nat \ {0} /\ Latencies \subseteq Nat /\ Work \in Nat
  BY LatencyAssumption
<1>2. CASE kind = "memory"
  BY <1>1, <1>2 DEF Second
<1>3. CASE kind # "memory"
  <2>1. second = Work \div ms
    BY <1>3 DEF Second
  <2> DEFINE q == Work \div ms  r == Work % ms
  <2>2. Work = (ms * q) + r /\ q \in Int /\ r \in 0..(ms - 1)
    BY <1>1
  <2> HIDE DEF q, r
  <2>3. q >= 0
    <3>1. CASE 0 - q > 0
      <4>1. ms * (0 - q) >= ms /\ ms * (0 - q) = 0 - (ms * q)
        BY <1>1, <2>2, <3>1, Multiple
      <4> QED
        BY <1>1, <2>2, <4>1
    <3> QED
      BY <2>2, <3>1
  <2>4. q \in Nat
    BY <2>2, <2>3
  <2> QED
    BY <1>1, <2>1, <2>4 DEF q
<1> QED
  BY <1>2, <1>3

\* After a trial one place more is before the counters.
LEMMA CountersMove ==
  ASSUME outer \in Nat, inner \in 0..(InnerCount - 1), InnerCount \in Nat \ {0},
         \/ inner' = inner + 1 /\ inner + 1 < InnerCount /\ outer' = outer
         \/ inner' = 0 /\ inner + 1 >= InnerCount /\ outer' = outer + 1
  PROVE  \A o \in Nat, i \in 0..(InnerCount - 1) :
           IsBefore(o, i)' <=> (IsBefore(o, i) \/ (o = outer /\ i = inner))
<1> SUFFICES ASSUME NEW o \in Nat, NEW i \in 0..(InnerCount - 1)
             PROVE  IsBefore(o, i)' <=> (IsBefore(o, i) \/ (o = outer /\ i = inner))
  OBVIOUS
<1>1. PICK n \in Nat \ {0} : n = InnerCount
  OBVIOUS
<1>2. CASE inner' = inner + 1 /\ inner + 1 < InnerCount /\ outer' = outer
  BY <1>1, <1>2 DEF IsBefore
<1>3. CASE inner' = 0 /\ inner + 1 >= InnerCount /\ outer' = outer + 1
  BY <1>1, <1>3 DEF IsBefore
<1> QED
  BY <1>2, <1>3

\* What is known of a trial.
LEMMA TrialIs ==
  ASSUME LoopInv, RunTrial
  PROVE  \E ms \in Nat, second \in Nat :
           LET new == [mode |-> Mode, trial |-> Trial, order |-> inner, ms |-> ms, second |-> second]
           IN /\ ms \in Latencies
              /\ measured' = measured \cup {new}
              /\ data' = [data EXCEPT ![Cell(Mode, Trial)] = [ms |-> ms, second |-> second]]
              /\ rows' = IF Rotates THEN rows \cup {OneTrial(new)} ELSE rows
<1> DEFINE Kept(ms, second) ==
             /\ data' = [data EXCEPT ![Cell(Mode, Trial)] = [ms |-> ms, second |-> second]]
             /\ measured' = measured \cup
                  {[mode |-> Mode, trial |-> Trial, order |-> inner, ms |-> ms, second |-> second]}
             /\ rows' = IF WritesAsItRuns
                        THEN rows \cup {Row(Mode, Trial, [ms |-> ms, second |-> second])} ELSE rows
<1>1. PICK ms \in Latencies : \E second \in Second(ms) : Kept(ms, second)
  BY DEF RunTrial
<1>2. PICK second \in Second(ms) : Kept(ms, second)
  BY <1>1
<1>3. ms \in Nat /\ second \in Nat
  BY SecondIs
<1> QED
  BY <1>2, <1>3 DEF OneTrial, Row, WritesAsItRuns

\* Where the loops go after a trial.
LEMMA RunMoves ==
  ASSUME LoopInv, RunTrial
  PROVE  /\ pc = "run" /\ answer' = answer /\ answer = "pending"
         /\ UNCHANGED <<kind, trials, medians, summary>>
         /\ outer \in Nat /\ outer < OuterCount /\ inner \in 0..(InnerCount - 1)
         /\ OuterCount \in Nat \ {0} /\ InnerCount \in Nat \ {0}
         /\ \/ inner' = inner + 1 /\ inner + 1 < InnerCount /\ outer' = outer
            \/ inner' = 0 /\ inner + 1 >= InnerCount /\ outer' = outer + 1
         /\ outer' \in 0..OuterCount /\ inner' \in 0..(InnerCount - 1)
         /\ \/ pc' = "run" /\ outer' < OuterCount /\ (kind = "slots" => outer' = outer)
            \/ pc' = "summarize" /\ inner' = 0 /\ outer' = outer + 1 /\ kind = "slots"
            \/ pc' = "summarize" /\ inner' = 0 /\ outer' = OuterCount /\ Rotates
            \/ pc' = "sort" /\ outer' = OuterCount /\ kind = "shm"
<1>1. /\ pc = "run" /\ UNCHANGED <<kind, trials, medians, summary>> /\ answer' = answer
      /\ answer = "pending" /\ kind \in Kinds
  BY DEF RunTrial, Goto, LoopInv
<1>2. /\ OuterCount \in Nat \ {0} /\ InnerCount \in Nat \ {0} /\ OuterCount' = OuterCount
      /\ outer \in Nat /\ outer < OuterCount /\ inner \in 0..(InnerCount - 1)
  BY <1>1, CountsPositive, KindStays DEF LoopInv
<1>3. \/ inner' = inner + 1 /\ inner + 1 < InnerCount /\ outer' = outer /\ pc' = "run"
      \/ /\ inner' = 0 /\ ~ (inner + 1 < InnerCount) /\ outer' = outer + 1
         /\ pc' = CASE kind = "slots" -> "summarize"
                    [] kind = "shm" -> IF outer' < OuterCount THEN "run" ELSE "sort"
                    [] Rotates -> IF outer' < OuterCount THEN "run" ELSE "summarize"
  BY DEF RunTrial, Goto
<1>4. PICK n \in Nat \ {0} : n = InnerCount
  BY <1>2
<1>5. PICK c \in Nat \ {0} : c = OuterCount
  BY <1>2
<1>6. CASE inner' = inner + 1 /\ inner + 1 < InnerCount /\ outer' = outer /\ pc' = "run"
  <2>1. outer' \in 0..OuterCount /\ inner' \in 0..(InnerCount - 1) /\ outer' < OuterCount
    BY <1>2, <1>4, <1>5, <1>6
  <2> QED
    BY <1>1, <1>2, <1>6, <2>1
<1>7. CASE /\ inner' = 0 /\ ~ (inner + 1 < InnerCount) /\ outer' = outer + 1
           /\ pc' = CASE kind = "slots" -> "summarize"
                      [] kind = "shm" -> IF outer' < OuterCount THEN "run" ELSE "sort"
                      [] Rotates -> IF outer' < OuterCount THEN "run" ELSE "summarize"
  <2>1. /\ outer' \in 0..OuterCount /\ inner' \in 0..(InnerCount - 1) /\ inner + 1 >= InnerCount
        /\ ~ (outer' < OuterCount) => outer' = OuterCount
    BY <1>2, <1>4, <1>5, <1>7
  <2>2. CASE kind = "slots"
    <3>1. kind # "shm" /\ ~ Rotates
      BY <2>2, OneByOne
    <3>2. pc' = "summarize"
      BY <1>7, <2>2, <3>1
    <3> QED
      BY <1>1, <1>2, <1>7, <2>1, <2>2, <3>2
  <2>3. CASE kind = "shm"
    <3>1. kind # "slots" /\ ~ Rotates
      BY <2>3, InTurn
    <3>2. pc' = IF outer' < OuterCount THEN "run" ELSE "sort"
      BY <1>7, <2>3, <3>1
    <3> QED
      BY <1>1, <1>2, <1>7, <2>1, <2>3, <3>1, <3>2
  <2>4. CASE Rotates
    <3>1. kind # "slots" /\ kind # "shm"
      BY <2>4, Turning
    <3>2. pc' = IF outer' < OuterCount THEN "run" ELSE "summarize"
      BY <1>7, <2>4, <3>1
    <3> QED
      BY <1>1, <1>2, <1>7, <2>1, <2>4, <3>1, <3>2
  <2> QED
    BY <1>1, <2>2, <2>3, <2>4, KindIs
<1> QED
  BY <1>3, <1>6, <1>7

\* What is run next is at the place of the counters.
LEMMA NextPlace ==
  ASSUME LoopInv, pc = "run"
  PROVE  /\ outer \in 0..(OuterCount - 1) /\ inner \in 0..(InnerCount - 1)
         /\ Mode = ModeAt(outer, inner) /\ Trial = TrialAt(outer, inner)
         /\ Mode \in 0..(Modes - 1) /\ Trial \in 0..(trials - 1)
         /\ \A r : r.mode = Mode /\ r.trial = Trial => OuterOf(r) = outer
<1>1. PICK c \in Nat \ {0} : c = OuterCount
  BY CountsPositive DEF LoopInv
<1>2. outer \in 0..(OuterCount - 1) /\ inner \in 0..(InnerCount - 1)
  <2>1. outer \in 0..c /\ outer < c
    BY <1>1 DEF LoopInv
  <2> QED
    BY <1>1, <2>1 DEF LoopInv
<1>3. Mode = ModeAt(outer, inner) /\ Trial = TrialAt(outer, inner)
  BY DEF Mode, Trial, ModeAt, TrialAt
<1>4. Mode \in 0..(Modes - 1) /\ Trial \in 0..(trials - 1)
  BY <1>2, <1>3, PlaceHas DEF LoopInv
<1>5. \A r : r.mode = Mode /\ r.trial = Trial => OuterOf(r) = outer
  BY <1>3, KindIs, Turning, InTurn, OneByOne DEF LoopInv
<1> QED
  BY <1>2, <1>3, <1>4, <1>5

\* A trial measures at a place that no other had.
LEMMA RunMeasures ==
  ASSUME LoopInv, MeasuredInv, RunTrial,
         NEW new, new.mode = Mode, new.trial = Trial, new.order = inner,
         new.ms \in Latencies, new.second \in Nat, measured' = measured \cup {new}
  PROVE  /\ MeasuredInv'
         /\ \A r \in measured : ~ (OuterOf(r) = outer /\ r.order = inner)
<1>1. /\ pc = "run" /\ UNCHANGED <<kind, trials>>
      /\ \/ inner' = inner + 1 /\ inner + 1 < InnerCount /\ outer' = outer
         \/ inner' = 0 /\ inner + 1 >= InnerCount /\ outer' = outer + 1
      /\ outer \in Nat /\ inner \in 0..(InnerCount - 1) /\ InnerCount \in Nat \ {0}
      /\ OuterCount \in Nat \ {0}
  BY RunMoves
<1>2. /\ outer \in 0..(OuterCount - 1)
      /\ Mode = ModeAt(outer, inner) /\ Trial = TrialAt(outer, inner)
      /\ Mode \in 0..(Modes - 1) /\ Trial \in 0..(trials - 1) /\ OuterOf(new) = outer
  BY <1>1, NextPlace
<1>3. \A o \in Nat, i \in 0..(InnerCount - 1) :
        IsBefore(o, i)' <=> (IsBefore(o, i) \/ (o = outer /\ i = inner))
  BY <1>1, CountersMove
<1>4. ~ IsBefore(outer, inner)
  BY <1>1 DEF IsBefore
<1>5. \A o \in 0..(OuterCount - 1) : o \in Nat
  BY <1>1
<1>6. ASSUME NEW r \in measured
      PROVE  /\ IsMeasurement(r)
             /\ OuterOf(r) \in 0..(OuterCount - 1) /\ r.order \in 0..(InnerCount - 1)
             /\ IsBefore(OuterOf(r), r.order)
             /\ ~ (OuterOf(r) = outer /\ r.order = inner)
  <2>1. IsMeasurement(r)
    BY DEF MeasuredInv
  <2> QED
    BY <1>4, <2>1, RoundIs DEF IsMeasurement
<1>7. /\ OuterCount' = OuterCount /\ InnerCount' = InnerCount /\ Modes' = Modes /\ trials' = trials
      /\ \A o, i : ModeAt(o, i)' = ModeAt(o, i) /\ TrialAt(o, i)' = TrialAt(o, i)
      /\ \A r : OuterOf(r)' = OuterOf(r)
  BY <1>1, KindStays
<1>8. ASSUME NEW r \in measured PROVE IsMeasurement(r)'
  <2>1. IsBefore(OuterOf(r), r.order)'
    <3>1. PICK o \in 0..(OuterCount - 1) : o = OuterOf(r)
      BY <1>6
    <3>2. PICK i \in 0..(InnerCount - 1) : i = r.order
      BY <1>6
    <3>3. IsBefore(o, i)'
      BY <1>3, <1>5, <1>6, <3>1, <3>2
    <3>4. OuterOf(r)' = o
      BY <1>7, <3>1
    <3> QED
      BY <3>2, <3>3, <3>4 DEF IsBefore
  <2> QED
    BY <1>6, <1>7, <2>1 DEF IsMeasurement
<1>9. IsMeasurement(new)'
  <2>1. PICK o \in Nat : o = outer
    BY <1>1
  <2>2. PICK i \in 0..(InnerCount - 1) : i = inner
    BY <1>1
  <2>3. IsBefore(o, i)'
    BY <1>3, <2>1, <2>2
  <2>4. OuterOf(new)' = o /\ new.order = i
    BY <1>2, <1>7, <2>1, <2>2
  <2>5. IsBefore(OuterOf(new), new.order)'
    BY <2>3, <2>4 DEF IsBefore
  <2>6. new.mode = ModeAt(o, i) /\ new.trial = TrialAt(o, i)
    BY <1>2, <2>1, <2>2
  <2>7. new.mode = ModeAt(OuterOf(new), new.order)' /\ new.trial = TrialAt(OuterOf(new), new.order)'
    <3>1. ModeAt(o, i)' = ModeAt(o, i) /\ TrialAt(o, i)' = TrialAt(o, i)
      BY <1>7
    <3> QED
      BY <2>4, <2>6, <3>1 DEF ModeAt, TrialAt, TurnedMode
  <2> QED
    BY <1>1, <1>2, <1>7, <2>5, <2>7 DEF IsMeasurement
<1>10. ASSUME NEW a \in measured', NEW b \in measured', OuterOf(a) = OuterOf(b), a.order = b.order
       PROVE  a = b
  <2>1. (a \in measured \/ a = new) /\ (b \in measured \/ b = new)
    OBVIOUS
  <2> QED
    BY <1>2, <1>6, <1>10, <2>1 DEF MeasuredInv
<1>11. ASSUME NEW o \in 0..(OuterCount - 1), NEW i \in 0..(InnerCount - 1), IsBefore(o, i)'
       PROVE  \E r \in measured' : OuterOf(r) = o /\ r.order = i
  <2>1. IsBefore(o, i) \/ (o = outer /\ i = inner)
    BY <1>3, <1>5, <1>11
  <2>2. CASE IsBefore(o, i)
    BY <2>2 DEF MeasuredInv
  <2>3. CASE o = outer /\ i = inner
    BY <1>2, <2>3
  <2> QED
    BY <2>1, <2>2, <2>3
<1>12. MeasuredInv'
  BY <1>7, <1>8, <1>9, <1>10, <1>11 DEF MeasuredInv
<1> QED
  BY <1>6, <1>12

\* Its result goes to a cell that no other has.
LEMMA RunKeeps ==
  ASSUME LoopInv, MeasuredInv, DataHolds, RunTrial,
         NEW ms \in Nat, NEW second \in Nat, NEW new,
         new.mode = Mode, new.trial = Trial, new.order = inner, new.ms = ms, new.second = second,
         ms \in Latencies, measured' = measured \cup {new},
         data' = [data EXCEPT ![Cell(Mode, Trial)] = [ms |-> ms, second |-> second]]
  PROVE  DataHolds'
<1>1. pc = "run" /\ UNCHANGED <<kind, trials>>
  BY RunMoves
<1>2. /\ Mode = ModeAt(outer, inner) /\ Trial = TrialAt(outer, inner)
      /\ outer \in 0..(OuterCount - 1) /\ inner \in 0..(InnerCount - 1)
      /\ Mode \in 0..(Modes - 1) /\ Trial \in 0..(trials - 1)
  BY <1>1, NextPlace
<1>3. \A r \in measured : ~ (OuterOf(r) = outer /\ r.order = inner)
  BY RunMeasures
<1>4. PICK c : c = Cell(Mode, Trial)
  OBVIOUS
<1>5. c \in Cells
  BY <1>2, <1>4, CellsDiffer DEF LoopInv
<1>6. ASSUME NEW r \in measured PROVE Cell(r.mode, r.trial) # c /\ Cell(r.mode, r.trial) \in Cells
  <2>1. IsMeasurement(r)
    BY DEF MeasuredInv
  <2>2. /\ OuterOf(r) \in 0..(OuterCount - 1) /\ r.order \in 0..(InnerCount - 1)
        /\ r.mode = ModeAt(OuterOf(r), r.order) /\ r.trial = TrialAt(OuterOf(r), r.order)
        /\ r.mode \in 0..(Modes - 1) /\ r.trial \in 0..(trials - 1)
    BY <2>1, RoundIs DEF IsMeasurement
  <2>3. ~ (r.mode = Mode /\ r.trial = Trial)
    <3> SUFFICES ASSUME r.mode = Mode, r.trial = Trial PROVE FALSE
      OBVIOUS
    <3>1. /\ ModeAt(OuterOf(r), r.order) = ModeAt(outer, inner)
          /\ TrialAt(OuterOf(r), r.order) = TrialAt(outer, inner)
      BY <1>2, <2>2
    <3>2. OuterOf(r) = outer /\ r.order = inner
      BY <1>2, <2>2, <3>1, PlacesDiffer DEF LoopInv
    <3> QED
      BY <1>3, <3>2
  <2>4. Cell(r.mode, r.trial) = Cell(Mode, Trial) => r.mode = Mode /\ r.trial = Trial
    BY <1>2, <2>2, CellsDiffer DEF LoopInv
  <2>5. Cell(r.mode, r.trial) \in Cells
    BY <2>2, CellsDiffer DEF LoopInv
  <2> QED
    BY <1>4, <2>3, <2>4, <2>5
<1>7. data' = [data EXCEPT ![c] = [ms |-> ms, second |-> second]]
  BY <1>4
<1>8. data' \in [Cells -> [ms : Nat, second : Nat]]
  <2>1. PICK R : R = [ms : Nat, second : Nat]
    OBVIOUS
  <2>2. PICK x \in R : x = [ms |-> ms, second |-> second]
    BY <2>1
  <2>3. data \in [Cells -> R] /\ data' = [data EXCEPT ![c] = x]
    BY <1>7, <2>1, <2>2 DEF DataHolds
  <2>4. data' \in [Cells -> R]
    BY <1>5, <2>3
  <2> QED
    BY <2>1, <2>4
<1>9. ASSUME NEW r \in measured' PROVE data'[Cell(r.mode, r.trial)] = [ms |-> r.ms, second |-> r.second]
  <2>1. CASE r = new
    BY <1>4, <1>5, <1>7, <2>1 DEF DataHolds
  <2>2. CASE r \in measured
    BY <1>6, <1>7, <2>2 DEF DataHolds
  <2> QED
    BY <2>1, <2>2
<1>10. Cells' = Cells /\ \A m, t : Cell(m, t)' = Cell(m, t)
  BY <1>1, KindStays
<1> QED
  BY <1>8, <1>9, <1>10 DEF DataHolds

\* A trial.
LEMMA RunTrialInv == ASSUME ResultInv, RunTrial PROVE ResultInv'
<1> USE DEF ResultInv
<1>1. /\ pc = "run" /\ answer' = answer /\ answer = "pending"
      /\ UNCHANGED <<kind, trials, medians, summary>>
      /\ outer' \in 0..OuterCount /\ inner' \in 0..(InnerCount - 1)
      /\ \/ pc' = "run" /\ outer' < OuterCount /\ (kind = "slots" => outer' = outer)
         \/ pc' = "summarize" /\ inner' = 0 /\ outer' = outer + 1 /\ kind = "slots"
         \/ pc' = "summarize" /\ inner' = 0 /\ outer' = OuterCount /\ Rotates
         \/ pc' = "sort" /\ outer' = OuterCount /\ kind = "shm"
  BY RunMoves
<1>2. PICK ms \in Nat, second \in Nat :
        LET new == [mode |-> Mode, trial |-> Trial, order |-> inner, ms |-> ms, second |-> second]
        IN /\ ms \in Latencies
           /\ measured' = measured \cup {new}
           /\ data' = [data EXCEPT ![Cell(Mode, Trial)] = [ms |-> ms, second |-> second]]
           /\ rows' = IF Rotates THEN rows \cup {OneTrial(new)} ELSE rows
  BY TrialIs
<1>3. PICK new : new = [mode |-> Mode, trial |-> Trial, order |-> inner, ms |-> ms, second |-> second]
  OBVIOUS
<1>4. /\ new.mode = Mode /\ new.trial = Trial /\ new.order = inner
      /\ new.ms = ms /\ new.second = second
      /\ ms \in Latencies /\ measured' = measured \cup {new}
      /\ data' = [data EXCEPT ![Cell(Mode, Trial)] = [ms |-> ms, second |-> second]]
      /\ rows' = IF Rotates THEN rows \cup {OneTrial(new)} ELSE rows
  BY <1>2, <1>3
<1>5. /\ Rotates' = Rotates /\ OuterCount' = OuterCount /\ InnerCount' = InnerCount /\ Modes' = Modes
      /\ Rotates => kind # "slots" /\ kind # "shm"
  BY <1>1, KindStays, Turning
<1>6. LoopInv'
  BY <1>1, <1>5 DEF LoopInv, Places, Saving
<1>7. MeasuredInv'
  BY <1>4, RunMeasures
<1>8. DataHolds
  BY <1>1 DEF DataInv
<1>9. DataInv'
  <2>1. DataHolds'
    BY <1>4, <1>8, RunKeeps
  <2> QED
    BY <1>1, <2>1 DEF DataInv
<1>10. RowsInv'
  <2>1. CASE Rotates
    <3>1. AllTrials' = AllTrials \cup {OneTrial(new)}
      BY <1>4 DEF AllTrials, OneTrial
    <3> QED
      BY <1>1, <1>4, <1>5, <2>1, <3>1 DEF RowsInv
  <2>2. CASE ~ Rotates
    <3>1. rows' = {}
      BY <1>1, <1>4, <2>2, KindIs DEF RowsInv, LoopInv
    <3> QED
      BY <1>1, <1>5, <2>2, <3>1 DEF RowsInv
  <2> QED
    BY <2>1, <2>2
<1>11. MedianInv'
  <2>1. MediansHold'
    BY <1>1, <1>4, MediansStay DEF MedianInv
  <2>2. PICK M \in Nat \ {0} : M = Modes
    BY CountsPositive DEF LoopInv
  <2>3. kind # "slots" => medians = <<>> /\ Len(medians) = 0 /\ Len(medians) < Modes
    BY <1>1, <2>2 DEF MedianInv, MedianCount
  <2>4. kind = "slots" => Len(medians) = outer
    BY <1>1 DEF MedianInv, MedianCount
  <2> QED
    BY <1>1, <1>5, <2>1, <2>3, <2>4 DEF MedianInv, MedianCount, Saving
<1>12. SummaryInv'
  BY <1>1 DEF SummaryInv
<1> QED
  BY <1>6, <1>7, <1>9, <1>10, <1>11, <1>12

\* All trials of the mode to be summarized have been measured.
LEMMA SummarizesMeasured ==
  ASSUME ResultInv, pc = "summarize"
  PROVE  /\ Len(medians) \in 0..(Modes - 1)
         /\ \A t \in 0..(trials - 1) : \E r \in measured : r.mode = Len(medians) /\ r.trial = t
<1> USE DEF ResultInv
<1>1. PICK M \in Nat \ {0} : M = Modes
  BY CountsPositive DEF LoopInv
<1>2. PICK n \in 0..M : n = Len(medians)
  BY <1>1 DEF MedianInv, MediansHold
<1>3. outer \in 0..OuterCount /\ kind # "shm"
  BY DEF LoopInv
<1>4. n < M /\ (outer = OuterCount \/ (kind = "slots" /\ n < outer))
  <2>1. CASE kind = "slots"
    <3>1. outer = n + 1 /\ OuterCount = M
      BY <1>1, <1>2, <2>1, OneByOne DEF MedianInv, MedianCount
    <3>2. outer \in 0..M
      BY <1>3, <3>1
    <3>3. n < M /\ n < outer
      BY <3>1, <3>2
    <3> QED
      BY <2>1, <3>3
  <2>2. CASE Rotates
    <3>1. kind # "slots" /\ outer = OuterCount
      BY <2>2, Turning DEF LoopInv
    <3>2. n < M
      BY <1>1, <1>2, <3>1 DEF MedianInv, MedianCount
    <3> QED
      BY <3>1, <3>2
  <2> QED
    BY <1>3, <2>1, <2>2, KindIs DEF LoopInv
<1>5. n \in 0..(Modes - 1)
  BY <1>1, <1>4
<1>6. \A t \in 0..(trials - 1) : \E r \in measured : r.mode = n /\ r.trial = t
  BY <1>4, <1>5, AllMeasured
<1> QED
  BY <1>2, <1>5, <1>6

\* One more median.
LEMMA MedianAdded ==
  ASSUME MediansHold, UNCHANGED <<kind, trials, measured>>,
         NEW x \in [ms : Nat, second : Nat], medians' = Append(medians, x),
         medians \in Seq([ms : Nat, second : Nat]), Modes \in Nat,
         Len(medians) \in 0..(Modes - 1), x.ms # 0 => MedianOf(Len(medians), x.ms)
  PROVE  MediansHold' /\ Len(medians') = Len(medians) + 1
<1>1. PICK R : R = [ms : Nat, second : Nat]
  OBVIOUS
<1>2. PICK s \in Seq(R) : s = medians
  BY <1>1
<1>3. PICK n \in Nat : n = Len(s)
  BY <1>2
<1>4. x \in R /\ medians' = Append(s, x)
  BY <1>1, <1>2
<1>5. /\ Append(s, x) \in Seq(R) /\ Len(Append(s, x)) = n + 1
      /\ \A i \in 1..n : Append(s, x)[i] = s[i]
      /\ Append(s, x)[n + 1] = x
  BY <1>3, <1>4
<1>6. /\ medians' \in Seq([ms : Nat, second : Nat]) /\ Len(medians') = n + 1
      /\ DOMAIN medians' = 1..(n + 1)
  BY <1>1, <1>4, <1>5
<1>7. Modes' = Modes
  BY DEF Modes
<1>8. n + 1 \in 0..Modes
  BY <1>2, <1>3
<1>9. \A m, y : MedianOf(m, y) => MedianOf(m, y)'
  BY MedianStays
<1>10. ASSUME NEW m \in 1..(n + 1), medians'[m].ms # 0 PROVE MedianOf(m - 1, medians[m].ms)'
  <2>1. CASE m = n + 1
    <3>1. medians'[m] = x /\ m - 1 = n /\ Len(medians) = n
      BY <1>2, <1>3, <1>4, <1>5, <2>1
    <3>2. PICK y : y = x.ms
      OBVIOUS
    <3>3. MedianOf(n, y)'
      BY <1>9, <1>10, <3>1, <3>2
    <3>4. medians'[m].ms = y
      BY <3>1, <3>2
    <3>5. MedianOf(m - 1, y)'
      BY <3>1, <3>3
    <3> QED
      BY <3>4, <3>5
  <2>2. CASE m # n + 1
    <3>1. m \in 1..n
      BY <2>2
    <3>2. PICK y : y = medians[m].ms
      OBVIOUS
    <3>3. medians'[m].ms = y
      BY <1>2, <1>4, <1>5, <3>1, <3>2
    <3>4. MedianOf(m - 1, y)
      BY <1>2, <1>3, <1>10, <3>1, <3>2, <3>3 DEF MediansHold
    <3>5. MedianOf(m - 1, y)'
      BY <1>9, <3>4
    <3> QED
      BY <3>3, <3>5
  <2> QED
    BY <2>1, <2>2
<1>11. \A m \in 1..Len(medians') : medians'[m].ms # 0 => MedianOf(m - 1, medians[m].ms)'
  BY <1>6, <1>10
<1>12. DOMAIN medians' = 1..Len(medians') /\ Len(medians') \in 0..Modes'
  BY <1>6, <1>7, <1>8
<1> QED
  BY <1>2, <1>3, <1>6, <1>11, <1>12 DEF MediansHold

\* A mode is summarized, or the series given up.
LEMMA SummarizeInv == ASSUME ResultInv, Summarize PROVE ResultInv'
<1> USE DEF ResultInv
<1>1. /\ pc = "summarize"
      /\ UNCHANGED <<kind, trials, outer, inner, data, measured, rows, summary>>
      /\ kind # "shm" /\ inner = 0 /\ answer = "pending" /\ summary = {}
  BY DEF Summarize, LoopInv, SummaryInv
<1>2. PICK n \in 0..(Modes - 1) : n = Len(medians)
  BY <1>1, SummarizesMeasured
<1>3. PICK M \in Nat \ {0} : M = Modes
  BY CountsPositive DEF LoopInv
<1>4. /\ Rotates' = Rotates /\ OuterCount' = OuterCount /\ InnerCount' = InnerCount /\ Modes' = Modes
      /\ kind = "slots" => OuterCount = Modes /\ ~ Rotates
      /\ Rotates => kind # "slots"
      /\ Rotates \/ kind = "slots"
  BY <1>1, KindStays, KindIs, OneByOne DEF LoopInv
<1>5. MeasuredInv'
  BY <1>1, MeasuredStays
<1>6. DataInv'
  BY <1>1, ArraysStay DEF DataInv
<1>7. SummaryInv'
  <2>1. answer' \in {"pending", "failed"}
    BY <1>1 DEF Summarize, Goto, Return
  <2> QED
    BY <1>1, <2>1 DEF SummaryInv
<1>8. CASE pc' = "returned" /\ answer' = "failed" /\ UNCHANGED medians
  <2>1. LoopInv'
    BY <1>1, <1>4, <1>8 DEF LoopInv, Places, Saving
  <2>2. RowsInv'
    BY <1>1, <1>4, <1>8, RowsStay DEF RowsInv
  <2>3. MedianInv'
    BY <1>1, <1>8, MediansStay DEF MedianInv, MedianCount, Saving
  <2> QED
    BY <1>5, <1>6, <1>7, <2>1, <2>2, <2>3
<1>9. CASE /\ \E lost \in SUBSET {"ms", "second"} :
                 medians' = Append(medians,
                              [ms |-> IF "ms" \in lost THEN 0 ELSE Median(Times(n)),
                               second |-> IF "second" \in lost THEN 0 ELSE Median(Seconds(n))])
           /\ answer' = answer
           /\ pc' = IF n + 1 = Modes THEN IF kind = "slots" THEN "saveTrials" ELSE "saveSummary"
                    ELSE IF kind = "slots" THEN "run" ELSE "summarize"
  <2>1. Median(Times(n)) \in Nat /\ Median(Seconds(n)) \in Nat /\ MedianOf(n, Median(Times(n)))
    <3>1. DataHolds
      BY <1>1 DEF DataInv
    <3>2. \A t \in 0..(trials - 1) : \E r \in measured : r.mode = n /\ r.trial = t
      BY <1>1, <1>2, SummarizesMeasured
    <3> QED
      BY <3>1, <3>2, MedianHolds
  <2>2. PICK x \in [ms : Nat, second : Nat] :
          medians' = Append(medians, x) /\ (x.ms # 0 => MedianOf(n, x.ms))
    <3>1. PICK time \in Nat : time = Median(Times(n)) /\ MedianOf(n, time)
      BY <2>1
    <3>2. PICK total \in Nat : total = Median(Seconds(n))
      BY <2>1
    <3>3. PICK lost : medians' = Append(medians, [ms |-> IF "ms" \in lost THEN 0 ELSE time,
                                                  second |-> IF "second" \in lost THEN 0 ELSE total])
      BY <1>9, <3>1, <3>2
    <3>4. PICK a \in Nat : a = (IF "ms" \in lost THEN 0 ELSE time) /\ (a # 0 => a = time)
      OBVIOUS
    <3>5. PICK b \in Nat : b = IF "second" \in lost THEN 0 ELSE total
      OBVIOUS
    <3>6. medians' = Append(medians, [ms |-> a, second |-> b])
      BY <3>3, <3>4, <3>5
    <3>7. [ms |-> a, second |-> b] \in [ms : Nat, second : Nat] /\ [ms |-> a, second |-> b].ms = a
      OBVIOUS
    <3>8. a # 0 => MedianOf(n, a)
      BY <3>1, <3>4
    <3> QED
      BY <3>6, <3>7, <3>8
  <2>3. MediansHold' /\ Len(medians') = n + 1
    <3>1. medians \in Seq([ms : Nat, second : Nat]) /\ MediansHold
      BY <1>1 DEF MedianInv, MediansHold
    <3>2. Modes \in Nat
      BY <1>3
    <3>3. x.ms # 0 => MedianOf(Len(medians), x.ms)
      BY <1>2, <2>2
    <3> QED
      BY <1>1, <1>2, <2>2, <3>1, <3>2, <3>3, MedianAdded
  <2>4. kind = "slots" => outer = n + 1
    BY <1>1, <1>2 DEF MedianInv, MedianCount
  <2>5. /\ Rotates => outer = OuterCount
        /\ outer \in 0..OuterCount
    BY <1>1 DEF LoopInv
  <2>6. CASE n + 1 = Modes
    <3>1. pc' \in Saving /\ (pc' = "saveTrials" => ~ Rotates) /\ outer = OuterCount
      BY <1>4, <1>9, <2>4, <2>5, <2>6 DEF Saving
    <3>2. LoopInv'
      BY <1>1, <1>4, <1>9, <3>1 DEF LoopInv, Places, Saving
    <3>3. RowsInv'
      BY <1>1, <1>4, <1>9, <3>1, RowsStay DEF RowsInv
    <3>4. MedianInv'
      BY <1>1, <1>4, <1>9, <2>3, <2>6, <3>1 DEF MedianInv, MedianCount, Saving
    <3> QED
      BY <1>5, <1>6, <1>7, <3>2, <3>3, <3>4
  <2>7. CASE n + 1 # Modes
    <3>1. n + 1 < Modes
      BY <1>2, <1>3, <2>7
    <3>2. kind = "slots" => pc' = "run" /\ outer < OuterCount
      BY <1>4, <1>9, <2>4, <2>7, <3>1
    <3>3. Rotates => pc' = "summarize"
      BY <1>4, <1>9, <2>7
    <3>4. LoopInv'
      BY <1>1, <1>4, <1>9, <2>5, <3>2, <3>3 DEF LoopInv, Places, Saving
    <3>5. RowsInv'
      BY <1>1, <1>4, <1>9, <3>2, <3>3, RowsStay DEF RowsInv
    <3>6. MedianInv'
      BY <1>1, <1>4, <1>9, <2>3, <2>4, <3>1, <3>2, <3>3 DEF MedianInv, MedianCount, Saving
    <3> QED
      BY <1>5, <1>6, <1>7, <3>4, <3>5, <3>6
  <2> QED
    BY <2>6, <2>7
<1> QED
  BY <1>1, <1>2, <1>8, <1>9 DEF Summarize, Goto, Return

\* What sorting the times of a mode leaves in its cells.
LEMMA SortedTimes ==
  ASSUME LoopInv, MeasuredInv, DataHolds, kind = "shm", outer = OuterCount,
         NEW m \in 0..(Modes - 1), NEW t \in 0..(trials - 1)
  PROVE  \E a, b \in measured :
           /\ a.mode = m /\ b.mode = m /\ a.trial = t
           /\ [data[<<m, t>>] EXCEPT !.ms = Sorted(Times(m))[t + 1]] = [ms |-> b.ms, second |-> a.second]
<1>1. PICK n \in Nat \ {0} : n = trials
  BY CountsPositive DEF LoopInv
<1>2. \A u \in 0..(trials - 1) : \E r \in measured : r.mode = m /\ r.trial = u
  BY AllMeasured
<1>3. PICK key \in [1..n -> Nat] : key = Times(m)
  BY <1>1, <1>2, MedianHolds
<1>4. key \in [1..n -> Int]
  OBVIOUS
<1>5. PICK p : IsOrder(p, key, n) /\ Sorted(key) = [i \in 1..n |-> key[p[i]]]
  BY <1>4, SortedIs
<1>6. t + 1 \in 1..n
  BY <1>1
<1>7. PICK j \in 1..n : j = p[t + 1]
  BY <1>5, <1>6 DEF IsOrder, Surjection
<1>8. Sorted(key)[t + 1] = key[j]
  BY <1>5, <1>6, <1>7
<1>9. j - 1 \in 0..(trials - 1) /\ key[j] = data[Cell(m, j - 1)].ms
  BY <1>1, <1>3 DEF Times
<1>10. PICK b \in measured : b.mode = m /\ b.trial = j - 1
  BY <1>2, <1>9
<1>11. data[Cell(m, j - 1)].ms = b.ms
  BY <1>10, CellOf
<1>12. PICK a \in measured : a.mode = m /\ a.trial = t
  BY <1>2
<1>13. data[Cell(m, t)] = [ms |-> a.ms, second |-> a.second] /\ Cell(m, t) = <<m, t>>
  BY <1>12, InTurn DEF DataHolds
<1>14. [data[<<m, t>>] EXCEPT !.ms = Sorted(Times(m))[t + 1]] = [ms |-> b.ms, second |-> a.second]
  <2>1. PICK x : x = Sorted(Times(m))[t + 1]
    OBVIOUS
  <2>2. PICK d : d = data[<<m, t>>]
    OBVIOUS
  <2>3. x = b.ms
    BY <1>3, <1>8, <1>9, <1>11, <2>1
  <2>4. d = [ms |-> a.ms, second |-> a.second]
    BY <1>13, <2>2
  <2>5. [d EXCEPT !.ms = x] = [ms |-> x, second |-> a.second]
    BY <2>4
  <2> QED
    BY <2>1, <2>2, <2>3, <2>5
<1> QED
  BY <1>10, <1>12, <1>14

\* The times of every mode are sorted, and their medians taken.
LEMMA SortInv == ASSUME ResultInv, Sort PROVE ResultInv'
<1> USE DEF ResultInv
<1>1. /\ pc = "sort" /\ pc' = "saveTrials" /\ answer' = answer
      /\ UNCHANGED <<kind, trials, outer, inner, measured, rows, summary>>
      /\ kind = "shm" /\ outer = OuterCount /\ answer = "pending" /\ summary = {} /\ rows = {}
  BY DEF Sort, Goto, LoopInv, SummaryInv, RowsInv
<1>2. /\ Rotates' = Rotates /\ OuterCount' = OuterCount /\ InnerCount' = InnerCount /\ Modes' = Modes
      /\ ~ Rotates /\ Cells = (0..(Modes - 1)) \X (0..(trials - 1))
      /\ \A m, t : Cell(m, t)' = <<m, t>>
  BY <1>1, KindStays, InTurn DEF Cells
<1>3. PICK M \in Nat \ {0} : M = Modes
  BY CountsPositive DEF LoopInv
<1>4. DataHolds
  BY <1>1 DEF DataInv
<1>5. LoopInv'
  BY <1>1, <1>2 DEF LoopInv, Places, Saving
<1>6. MeasuredInv'
  BY <1>1, MeasuredStays
<1>7. DataInv'
  <2>1. ASSUME NEW m \in 0..(Modes - 1), NEW t \in 0..(trials - 1) PROVE CellSorted(m, t)'
    <3>1. PICK a \in measured, b \in measured :
            /\ a.mode = m /\ b.mode = m /\ a.trial = t
            /\ [data[<<m, t>>] EXCEPT !.ms = Sorted(Times(m))[t + 1]] = [ms |-> b.ms, second |-> a.second]
      BY <1>1, <1>4, SortedTimes
    <3>2. <<m, t>> \in Cells
      BY <1>2
    <3>3. data' = [c \in Cells |-> [data[c] EXCEPT !.ms = Sorted(Times(c[1]))[c[2] + 1]]]
      BY DEF Sort
    <3>4. data'[<<m, t>>] = [data[<<m, t>>] EXCEPT !.ms = Sorted(Times(m))[t + 1]]
      <4>1. PICK c : c = <<m, t>>
        OBVIOUS
      <4>2. c[1] = m /\ c[2] = t /\ c \in Cells
        BY <3>2, <4>1
      <4>3. data'[c] = [data[c] EXCEPT !.ms = Sorted(Times(c[1]))[c[2] + 1]]
        BY <3>3, <4>2
      <4>4. data'[c] = [data[c] EXCEPT !.ms = Sorted(Times(m))[t + 1]]
        BY <4>2, <4>3
      <4> QED
        BY <4>1, <4>4
    <3>5. data'[<<m, t>>] = [ms |-> b.ms, second |-> a.second]
      BY <3>1, <3>4
    <3>6. PICK c : c = <<m, t>>
      OBVIOUS
    <3>7. Cell(m, t)' = c
      BY <1>2, <3>6
    <3>8. data'[c] = [ms |-> b.ms, second |-> a.second]
      BY <3>5, <3>6
    <3>9. data[Cell(m, t)]' = [ms |-> b.ms, second |-> a.second]
      BY <3>7, <3>8
    <3> QED
      BY <1>1, <3>1, <3>9 DEF CellSorted
  <2> QED
    BY <1>1, <1>2, <2>1 DEF DataInv, SortedHolds
<1>8. RowsInv'
  BY <1>1, <1>2 DEF RowsInv
<1>9. MedianInv'
  <2> DEFINE new == [m \in 1..M |-> [ms |-> Median(Times(m - 1)),
                                     second |-> 2 * FoldSeq(LAMBDA a, b : a + b, 0, Seconds(m - 1))]]
  <2>1. medians' = new
    BY <1>3 DEF Sort
  <2>2. \A m \in 1..M : new[m].ms = Median(Times(m - 1))
    OBVIOUS
  <2>3. Len(new) = M /\ DOMAIN new = 1..M
    <3>1. PICK f : f = [m \in 1..M |-> [ms |-> Median(Times(m - 1)),
                                      second |-> 2 * FoldSeq(LAMBDA a, b : a + b, 0, Seconds(m - 1))]]
      OBVIOUS
    <3>2. DOMAIN f = 1..M /\ f = [m \in 1..M |-> f[m]]
      BY <3>1
    <3>3. f \in Seq({f[m] : m \in 1..M})
      BY <3>2
    <3>4. Len(f) = M
      BY <3>2, <3>3
    <3> QED
      BY <3>1, <3>2, <3>4
  <2> HIDE DEF new
  <2>4. Len(medians') = M /\ DOMAIN medians' = 1..M
    BY <2>1, <2>3
  <2>5. ASSUME NEW m \in 1..M PROVE MedianOf(m - 1, medians[m].ms)'
    <3>1. m - 1 \in 0..(Modes - 1)
      BY <1>3
    <3>2. \A t \in 0..(trials - 1) : \E r \in measured : r.mode = m - 1 /\ r.trial = t
      BY <1>1, <3>1, AllMeasured
    <3>3. PICK x : x = Median(Times(m - 1)) /\ MedianOf(m - 1, x)
      BY <1>4, <3>1, <3>2, MedianHolds
    <3>4. medians'[m].ms = x
      BY <2>1, <2>2, <3>3
    <3>5. MedianOf(m - 1, x)'
      BY <1>1, <3>3, MedianStays
    <3> QED
      BY <3>4, <3>5
  <2>6. MediansHold'
    <3>1. \A m \in 1..Len(medians') : medians'[m].ms # 0 => MedianOf(m - 1, medians[m].ms)'
      BY <2>4, <2>5
    <3>2. Len(medians') \in 0..Modes' /\ DOMAIN medians' = 1..Len(medians')
      BY <1>2, <1>3, <2>4
    <3> QED
      BY <1>1, <3>1, <3>2 DEF MediansHold
  <2> QED
    BY <1>1, <1>2, <1>3, <2>4, <2>6 DEF MedianInv, MedianCount, Saving
<1>10. SummaryInv'
  BY <1>1 DEF SummaryInv
<1> QED
  BY <1>5, <1>6, <1>7, <1>8, <1>9, <1>10

\* What is written to the files of the trials.
LEMMA RowsSaved ==
  ASSUME ResultInv, pc = "saveTrials",
         NEW m \in 0..(Modes - 1), NEW t \in 0..(trials - 1)
  PROVE  /\ kind # "shm" => \E r \in measured : /\ r.mode = m /\ r.trial = t
                                                /\ Row(m, t, data[Cell(m, t)]) = OneTrial(r)
         /\ kind = "shm" => IsMixed(Row(m, t, data[Cell(m, t)]))
<1> USE DEF ResultInv
<1>1. outer = OuterCount
  BY DEF LoopInv, Saving
<1>2. CASE kind # "shm"
  <2>1. PICK r \in measured : r.mode = m /\ r.trial = t
    BY <1>1, AllMeasured
  <2>2. Row(m, t, data[Cell(m, t)]) = OneTrial(r)
    BY <1>2, <2>1, CellOf DEF DataInv
  <2> QED
    BY <1>2, <2>1, <2>2
<1>3. CASE kind = "shm"
  <2>1. CellSorted(m, t)
    BY <1>3 DEF DataInv, SortedHolds
  <2>2. PICK a \in measured, b \in measured :
          /\ a.mode = m /\ b.mode = m /\ a.trial = t
          /\ data[Cell(m, t)] = [ms |-> b.ms, second |-> a.second]
    BY <2>1 DEF CellSorted
  <2>3. Row(m, t, data[Cell(m, t)]) = [OneTrial(a) EXCEPT !.ms = b.ms]
    BY <2>2 DEF Row, OneTrial
  <2> QED
    BY <1>3, <2>2, <2>3 DEF IsMixed
<1> QED
  BY <1>2, <1>3

\* Whose trials reach the disk.
KeptTrials(kept) ==
  /\ kind = "slots" => kept \in {{}, 0..(Modes - 1)}
  /\ rows' = {Row(m, t, data[Cell(m, t)]) : m \in kept, t \in 0..(trials - 1)}

\* They are those of some of the modes.
LEMMA TrialsKept == ASSUME SaveTrials PROVE \E kept \in SUBSET (0..(Modes - 1)) : KeptTrials(kept)
BY DEF SaveTrials, KeptTrials

\* The trials are saved.
LEMMA SaveTrialsInv == ASSUME ResultInv, SaveTrials PROVE ResultInv'
<1> USE DEF ResultInv
<1>1. /\ pc = "saveTrials" /\ pc' = "saveSummary" /\ answer' = answer
      /\ UNCHANGED <<kind, trials, outer, inner, data, measured, medians, summary>>
      /\ ~ Rotates /\ outer = OuterCount /\ answer = "pending" /\ summary = {}
  BY DEF SaveTrials, Goto, LoopInv, SummaryInv, Saving
<1>2. PICK kept \in SUBSET (0..(Modes - 1)) :
        /\ kind = "slots" => kept \in {{}, 0..(Modes - 1)}
        /\ rows' = {Row(m, t, data[Cell(m, t)]) : m \in kept, t \in 0..(trials - 1)}
  BY TrialsKept DEF KeptTrials
<1>3. Rotates' = Rotates /\ OuterCount' = OuterCount /\ InnerCount' = InnerCount /\ Modes' = Modes
  BY <1>1, KindStays
<1>4. LoopInv'
  BY <1>1, <1>3 DEF LoopInv, Places, Saving
<1>5. MeasuredInv'
  BY <1>1, MeasuredStays
<1>6. DataInv'
  BY <1>1, ArraysStay DEF DataInv
<1>7. RowsInv'
  <2>1. CASE kind = "slots"
    <3>1. CASE kept = {}
      <4>1. rows' = {}
        BY <1>2, <3>1
      <4> QED
        BY <1>1, <1>3, <2>1, <4>1 DEF RowsInv
    <3>2. CASE kept = 0..(Modes - 1)
      <4>1. \A x \in rows' : x \in AllTrials
        BY <1>1, <1>2, <2>1, RowsSaved DEF AllTrials
      <4>2. ASSUME NEW r \in measured PROVE OneTrial(r) \in rows'
        <5>1. r.mode \in 0..(Modes - 1) /\ r.trial \in 0..(trials - 1)
          BY DEF MeasuredInv, IsMeasurement
        <5>2. PICK q \in measured : /\ q.mode = r.mode /\ q.trial = r.trial
                                    /\ Row(r.mode, r.trial, data[Cell(r.mode, r.trial)]) = OneTrial(q)
          BY <1>1, <2>1, <5>1, RowsSaved
        <5>3. q = r
          BY <5>2, OnlyOne
        <5> QED
          BY <1>2, <3>2, <5>1, <5>2, <5>3
      <4>3. rows' = AllTrials
        BY <4>1, <4>2 DEF AllTrials
      <4>4. AllTrials' = AllTrials
        BY <1>1, RowsStay
      <4> QED
        BY <1>1, <1>3, <2>1, <4>3, <4>4 DEF RowsInv
    <3> QED
      BY <1>2, <2>1, <3>1, <3>2
  <2>2. CASE kind = "shm"
    <3>1. \A x \in rows' : IsMixed(x)
      BY <1>1, <1>2, <2>2, RowsSaved
    <3>2. \A x : IsMixed(x)' = IsMixed(x)
      BY <1>1, RowsStay
    <3> QED
      BY <1>1, <1>3, <2>2, <3>1, <3>2 DEF RowsInv
  <2> QED
    BY <1>1, <2>1, <2>2, KindIs DEF LoopInv
<1>8. MedianInv'
  BY <1>1, <1>3, MediansStay DEF MedianInv, MedianCount, Saving
<1>9. SummaryInv'
  BY <1>1 DEF SummaryInv
<1> QED
  BY <1>4, <1>5, <1>6, <1>7, <1>8, <1>9

\* The summary is saved.
LEMMA SaveSummaryInv == ASSUME ResultInv, SaveSummary PROVE ResultInv'
<1> USE DEF ResultInv
<1>1. /\ pc = "saveSummary" /\ pc' = "returned"
      /\ UNCHANGED <<kind, trials, outer, inner, data, measured, rows, medians>>
      /\ outer = OuterCount /\ Len(medians) = Modes /\ summary = {}
      /\ answer' \in {"ok", "failed"}
      /\ answer' = "ok" /\ kind = "slots" => rows # {}
  <2>1. /\ pc = "saveSummary" /\ pc' = "returned"
        /\ UNCHANGED <<kind, trials, outer, inner, data, measured, rows, medians>>
        /\ answer' \in {"ok", "failed"}
        /\ answer' = "ok" /\ kind = "slots" => rows # {}
    BY DEF SaveSummary, Return, SavedAll
  <2>2. outer = OuterCount /\ Len(medians) = Modes /\ summary = {}
    BY <2>1 DEF LoopInv, MedianInv, MedianCount, SummaryInv, Saving
  <2> QED
    BY <2>1, <2>2
<1>2. /\ \/ summary' = {SummaryRow(m) : m \in 1..Modes}
         \/ UNCHANGED summary /\ (kind # "shm" => answer' = "failed")
  BY DEF SaveSummary, Return
<1>3. Rotates' = Rotates /\ OuterCount' = OuterCount /\ InnerCount' = InnerCount /\ Modes' = Modes
  BY <1>1, KindStays
<1>4. LoopInv'
  BY <1>1, <1>3 DEF LoopInv, Places, Saving
<1>5. MeasuredInv'
  BY <1>1, MeasuredStays
<1>6. DataInv'
  BY <1>1, ArraysStay DEF DataInv
<1>7. RowsInv'
  BY <1>1, <1>3, RowsStay DEF RowsInv
<1>8. MedianInv'
  BY <1>1, <1>3, MediansStay DEF MedianInv, MedianCount, Saving
<1>9. SummaryInv'
  <2>1. CASE summary' = {SummaryRow(m) : m \in 1..Modes}
    <3>1. PICK M \in Nat \ {0} : M = Modes
      BY CountsPositive DEF LoopInv
    <3>2. \E b, c \in Int :
            /\ summary' = {Line(m, b, c) : m \in 1..M}
            /\ kind # "shm" => IsFirstLowest(b, TimeOf, M) /\ IsFirstLowest(c, TotalOf, M)
      <4>1. CASE kind = "shm"
        <5>1. \A m \in 1..M : SummaryRow(m) = Line(m, 0, 0)
          BY <4>1 DEF SummaryRow, Line
        <5>2. summary' = {Line(m, 0, 0) : m \in 1..M}
          BY <2>1, <3>1, <5>1
        <5> QED
          BY <4>1, <5>2
      <4>2. CASE kind # "shm"
        <5>1. PICK b : b = BestBy[1]
          OBVIOUS
        <5>2. PICK c : c = BestBy[2]
          OBVIOUS
        <5>3. IsFirstLowest(b, TimeOf, M) /\ IsFirstLowest(c, TotalOf, M)
          BY <1>1, <3>1, <4>2, <5>1, <5>2, BestIsFirst, BestTotalIsFirst
        <5>4. b \in Int /\ c \in Int
          BY <5>3 DEF IsFirstLowest
        <5>5. \A m \in 1..M : SummaryRow(m) = Line(m, b, c)
          BY <4>2, <5>1, <5>2 DEF SummaryRow, Line
        <5>6. summary' = {Line(m, b, c) : m \in 1..M}
          BY <2>1, <3>1, <5>5
        <5> QED
          BY <5>3, <5>4, <5>6
      <4> QED
        BY <4>1, <4>2
    <3>3. /\ TimeOf' = TimeOf /\ TotalOf' = TotalOf /\ Modes' = M
          /\ \A m, b, c : Line(m, b, c)' = Line(m, b, c)
      BY <1>1, <1>3, <3>1 DEF TimeOf, TotalOf, Line
    <3>4. SummaryHolds'
      BY <1>1, <3>2, <3>3 DEF SummaryHolds
    <3>5. summary' # {}
      <4>1. 1 \in 1..M
        BY <3>1
      <4> QED
        BY <3>2, <4>1
    <3> QED
      BY <1>1, <1>3, <3>4, <3>5 DEF SummaryInv
  <2>2. CASE UNCHANGED summary /\ (kind # "shm" => answer' = "failed")
    BY <1>1, <2>2 DEF SummaryInv
  <2> QED
    BY <1>2, <2>1, <2>2
<1> QED
  BY <1>4, <1>5, <1>6, <1>7, <1>8, <1>9

\* Every step.
LEMMA ResultInvStep == ResultInv /\ [Next]_vars => ResultInv'
BY OpenTrialsInv, RunTrialInv, TrialFailsInv, SortInv, SummarizeInv, SaveTrialsInv, SaveSummaryInv,
   NothingHappensInv DEF Next

\* However many modes and trials there are, whatever is measured and whatever
\* fails: the rows on disk are those of the trials, the medians are those of
\* what was measured, and the selected mode is the first of the lowest
\* (shm_ring_slot_optimizer.c:1344, 1661, 1705, 1729-1750, 1915-1945,
\* memory_optimizer.c:1738-1770, shm_optimizer.c:125-182).
THEOREM ResultsTrue == Spec => []ResultsAreTrue
<1>1. Spec => []ResultInv
  BY ResultInvInit, ResultInvStep, PTL DEF Spec
<1> QED
  BY <1>1, ResultInvTrue, PTL

\* And so they are when the trials of the memory optimizer are taken page by
\* page (memory_optimizer.c:711-1008, 1301-1408).
THEOREM SeriesResultsTrue == SeriesSpec => []ResultsAreTrue
<1>1. SeriesSpec => []ResultInv
  BY StartsAsSeries, StepsAsSeries, ResultInvInit, ResultInvStep, PTL DEF SeriesSpec
<1> QED
  BY <1>1, ResultInvTrue, PTL
=============================================================================
