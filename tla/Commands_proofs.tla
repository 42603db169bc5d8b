-------------------------- MODULE Commands_proofs ---------------------------
(***************************************************************************)
(* Proofs about the parts of Commands, each for itself and then side by    *)
(* side: main's arguments, the environment profile's row, the sweeps of    *)
(* optimize-chunk, the system-call profiler and the adaptive selector.     *)
(***************************************************************************)
EXTENDS Commands, SequencesExt, SequenceTheorems, WellFoundedInduction, TLAPS

-----------------------------------------------------------------------------
(* Induction over numbers, as a statement about sets of them, and that a   *)
(* function may be defined step by step.                                   *)

\* A set of numbers that is not empty has a least one.
LEMMA LeastNumber ==
  ASSUME NEW T \in SUBSET Nat, T # {}
  PROVE  \E x \in T : \A y \in T : x =< y
<1> DEFINE R == OpToRel(<, Nat)
<1>1. IsWellFoundedOn(R, Nat)
  BY NatLessThanWellFounded
<1>2. \A x, y \in Nat : x < y => <<x, y>> \in R
  BY DEF OpToRel
<1> HIDE DEF R
<1>3. PICK x \in T : \A y \in T : ~ (<<y, x>> \in R)
  BY <1>1, WFMin
<1>4. ASSUME NEW y \in T PROVE x =< y
  <2>1. ~ (y < x)
    BY <1>2, <1>3
  <2> QED
    BY <2>1
<1> QED
  BY <1>4

\* A set that has 0, and n + 1 with every n, has every number.
LEMMA Induction ==
  ASSUME NEW S, 0 \in S, \A n \in Nat : n \in S => n + 1 \in S
  PROVE  \A n \in Nat : n \in S
<1> DEFINE T == Nat \ S
<1> SUFFICES ASSUME T # {} PROVE FALSE
  OBVIOUS
<1>1. PICK x \in T : \A y \in T : x =< y
  <2> HIDE DEF T
  <2>1. T \in SUBSET Nat
    BY DEF T
  <2> QED
    BY <2>1, LeastNumber
<1>2. x - 1 \in Nat /\ x - 1 \in S
  BY <1>1
<1> QED
  BY <1>1, <1>2

\* f keeps the first index, and then every one with a lower key.
IsScan(f, key, n) ==
  /\ f[1] = 1
  /\ \A i \in 2..n : f[i - 1] \in 1..(i - 1) =>
       f[i] = IF key[i] < key[f[i - 1]] THEN i ELSE f[i - 1]

\* b is the first of the lowest of n keys.
IsFirstLowest(b, key, n) ==
  /\ b \in 1..n
  /\ \A i \in 1..n : key[b] =< key[i] /\ (i < b => key[b] < key[i])

\* After i entries the scan is at the first of their lowest.
LEMMA ScanIsFirstLowest ==
  ASSUME NEW n \in Nat \ {0}, NEW key \in [1..n -> Int], NEW f, IsScan(f, key, n)
  PROVE  \A m \in 1..n : IsFirstLowest(f[m], key, m)
<1> DEFINE S == {m \in Nat : m + 1 \in 1..n => IsFirstLowest(f[m + 1], key, m + 1)}
<1>1. 0 \in S
  <2>1. f[1] = 1
    BY DEF IsScan
  <2> QED
    BY <2>1 DEF IsFirstLowest
<1>2. ASSUME NEW m \in Nat, m \in S PROVE m + 1 \in S
  <2> SUFFICES ASSUME m + 2 \in 1..n PROVE IsFirstLowest(f[m + 2], key, m + 2)
    OBVIOUS
  <2>1. IsFirstLowest(f[m + 1], key, m + 1)
    BY <1>2
  <2>2. f[m + 2] = IF key[m + 2] < key[f[m + 1]] THEN m + 2 ELSE f[m + 1]
    <3>1. m + 2 \in 2..n /\ (m + 2) - 1 = m + 1 /\ f[m + 1] \in 1..(m + 1)
      BY <2>1 DEF IsFirstLowest
    <3> QED
      BY <3>1 DEF IsScan
  <2>3. \A i \in 1..(m + 2) : i \in 1..(m + 1) \/ i = m + 2
    OBVIOUS
  <2> QED
    BY <2>1, <2>2, <2>3 DEF IsFirstLowest
<1> HIDE DEF S
<1>3. \A m \in Nat : m \in S
  BY <1>1, <1>2, Induction
<1>4. ASSUME NEW m \in 1..n PROVE IsFirstLowest(f[m], key, m)
  <2>1. m - 1 \in Nat /\ (m - 1) + 1 = m
    OBVIOUS
  <2> QED
    BY <1>3, <2>1 DEF S
<1> QED
  BY <1>4

\* f is defined step by step from its value at 1.
IsRecursive(f, first, step, n) ==
  f[1] = first /\ \A i \in 2..n : f[i] = step[i][f[i - 1]]

\* There is a function that is defined step by step.
LEMMA RecursionExists ==
  ASSUME NEW n \in Nat \ {0}, NEW A, NEW first \in A, NEW step \in [1..n -> [A -> A]]
  PROVE  \E f \in [1..n -> A] : IsRecursive(f, first, step, n)
<1> USE DEF IsRecursive
<1> DEFINE S == {m \in Nat : m + 1 \in 1..n => \E f \in [1..(m + 1) -> A] : IsRecursive(f, first, step, m + 1)}
<1>1. 0 \in S
  <2>1. PICK f : f = [i \in 1..1 |-> first]
    OBVIOUS
  <2>2. f \in [1..(0 + 1) -> A] /\ f[1] = first /\ \A i \in 2..(0 + 1) : f[i] = step[i][f[i - 1]]
    BY <2>1
  <2> QED
    BY <2>2
<1>2. ASSUME NEW m \in Nat, m \in S PROVE m + 1 \in S
  <2> SUFFICES ASSUME m + 2 \in 1..n PROVE \E f \in [1..(m + 2) -> A] : IsRecursive(f, first, step, m + 2)
    OBVIOUS
  <2>1. PICK f \in [1..(m + 1) -> A] : IsRecursive(f, first, step, m + 1)
    BY <1>2
  <2>2. PICK x \in A : x = step[m + 2][f[m + 1]]
    BY <2>1
  <2>3. PICK g \in [1..(m + 2) -> A] : g = [i \in 1..(m + 2) |-> IF i = m + 2 THEN x ELSE f[i]]
    <3>1. \A i \in 1..(m + 2) : i # m + 2 => i \in 1..(m + 1)
      OBVIOUS
    <3> QED
      BY <3>1
  <2>4. ASSUME NEW i \in 2..(m + 2) PROVE g[i] = step[i][g[i - 1]]
    <3>1. CASE i = m + 2
      <4>1. i - 1 = m + 1 /\ m + 1 \in 1..(m + 2) /\ m + 1 # m + 2
        BY <3>1
      <4> QED
        BY <2>2, <2>3, <3>1, <4>1
    <3>2. CASE i # m + 2
      <4>1. i \in 2..(m + 1) /\ i - 1 \in 1..(m + 2) /\ i - 1 # m + 2 /\ i \in 1..(m + 2)
        BY <3>2
      <4>2. g[i] = f[i] /\ g[i - 1] = f[i - 1]
        BY <2>3, <3>2, <4>1
      <4> QED
        BY <2>1, <4>1, <4>2
    <3> QED
      BY <3>1, <3>2
  <2>5. g[1] = first
    BY <2>1, <2>3
  <2> QED
    BY <2>4, <2>5
<1> HIDE DEF S
<1>3. \A m \in Nat : m \in S
  BY <1>1, <1>2, Induction
<1>4. n - 1 \in S /\ (n - 1) + 1 = n
  BY <1>3
<1> QED
  BY <1>4 DEF S

\* There is such a scan.
LEMMA ScanExists ==
  ASSUME NEW n \in Nat \ {0}, NEW key \in [1..n -> Int]
  PROVE  \E f \in [1..n -> 1..n] : /\ IsScan(f, key, n)
                                  /\ \A i \in 1..n : f[i] \in 1..i
<1> DEFINE step == [i \in 1..n |-> [b \in 1..n |-> IF key[i] < key[b] THEN i ELSE b]]
<1>1. step \in [1..n -> [1..n -> 1..n]]
  OBVIOUS
<1>2. \A i \in 1..n, b \in 1..n : step[i][b] = IF key[i] < key[b] THEN i ELSE b
  OBVIOUS
<1> HIDE DEF step
<1>3. PICK f \in [1..n -> 1..n] : IsRecursive(f, 1, step, n)
  <2>1. 1 \in 1..n
    OBVIOUS
  <2> QED
    BY <1>1, <2>1, RecursionExists
<1>4. \A i \in 2..n : i \in 1..n /\ f[i - 1] \in 1..n
  BY <1>3
<1>5. IsScan(f, key, n)
  BY <1>2, <1>3, <1>4 DEF IsScan, IsRecursive
<1>6. \A i \in 1..n : f[i] \in 1..i
  BY <1>5, ScanIsFirstLowest DEF IsFirstLowest
<1> QED
  BY <1>5, <1>6

-----------------------------------------------------------------------------
(* Arithmetic of one width.                                                *)

\* A remainder is in range, and a number in range is its own remainder.
LEMMA InRange ==
  ASSUME NEW x \in Nat
  PROVE  /\ x % Modulus \in 0..(Modulus - 1)
         /\ x < Modulus => x % Modulus = x
BY WidthAssumption

\* A number of units, counted in units again.
LEMMA UnitsCountBack ==
  ASSUME NEW n \in Nat, NEW unit \in Nat \ {0}
  PROVE  n * unit \in Nat /\ (n * unit) \div unit = n
<1> DEFINE q == (n * unit) \div unit  r == (n * unit) % unit
<1>1. n * unit \in Nat
  OBVIOUS
<1>2. n * unit = (unit * q) + r /\ q \in Int /\ r \in 0..(unit - 1)
  BY <1>1
<1> HIDE DEF q, r
<1>3. unit * (n - q) = r
  BY <1>2
<1>4. CASE n - q >= 1
  <2>1. PICK j \in Nat : n - q = j + 1
    <3>1. n - q - 1 \in Nat /\ n - q = (n - q - 1) + 1
      BY <1>2, <1>4
    <3> QED
      BY <3>1
  <2>2. unit * (j + 1) = (unit * j) + unit /\ unit * j >= 0
    OBVIOUS
  <2> QED
    BY <1>2, <1>3, <2>1, <2>2
<1>5. CASE q - n >= 1
  <2>1. PICK j \in Nat : q - n = j + 1
    <3>1. q - n - 1 \in Nat /\ q - n = (q - n - 1) + 1
      BY <1>2, <1>5
    <3> QED
      BY <3>1
  <2>2. unit * (j + 1) = (unit * j) + unit /\ unit * j >= 0
    OBVIOUS
  <2>3. unit * (q - n) = 0 - (unit * (n - q))
    BY <1>2
  <2> QED
    BY <1>2, <1>3, <2>1, <2>2, <2>3
<1> QED
  BY <1>1, <1>2, <1>4, <1>5 DEF q

-----------------------------------------------------------------------------
(* What a command needs and what it calls its results.                     *)

\* What an argument may be, and how results are named.
ParamKinds == {"method", "size", "chunk", "trials"}
NameKinds == {"fixed", "bytes", "given", "none"}

\* Every command of main has a list of parameters and one way to name its
\* results.
LEMMA CommandTypes ==
  ASSUME NEW c \in DOMAIN Commands
  PROVE  Commands[c].params \in Seq(ParamKinds) /\ Commands[c].names \in NameKinds
<1> DEFINE Ok(d) == d.params \in Seq(ParamKinds) /\ d.names \in NameKinds
<1>0. ASSUME NEW p \in Seq(ParamKinds), NEW n \in NameKinds PROVE Ok(Cmd(p, n))
  BY DEF Cmd
<1>a. /\ <<>> \in Seq(ParamKinds) /\ <<"trials">> \in Seq(ParamKinds)
      /\ <<"method", "size", "chunk">> \in Seq(ParamKinds)
      /\ <<"method", "method", "size", "chunk">> \in Seq(ParamKinds)
  BY DEF ParamKinds
<1>b. Sized \in Seq(ParamKinds) /\ SizedTrials \in Seq(ParamKinds) /\ SizedChunk \in Seq(ParamKinds) /\ Series \in Seq(ParamKinds)
  BY DEF Sized, SizedTrials, SizedChunk, Series, ParamKinds
<1>c. "fixed" \in NameKinds /\ "bytes" \in NameKinds /\ "given" \in NameKinds /\ "none" \in NameKinds
  BY DEF NameKinds
<1> HIDE DEF Ok
<1>1. Ok(FinalSummary) /\ Ok(Recommend) /\ Ok(AutoRun) /\ Ok(BuildWorkloads) /\ Ok(Environment)
  BY <1>0, <1>a, <1>b, <1>c DEF FinalSummary, Recommend, AutoRun, BuildWorkloads, Environment
<1>2. Ok(AnalyzeAffinity) /\ Ok(OptimizeMemory) /\ Ok(Profile) /\ Ok(CompareSyscalls) /\ Ok(Verify)
  BY <1>0, <1>a, <1>b, <1>c DEF AnalyzeAffinity, OptimizeMemory, Profile, CompareSyscalls, Verify
<1>3. /\ Ok(Benchmark) /\ Ok(OptimizeChunk) /\ Ok(OptimizeShm) /\ Ok(OptimizeRingSlots)
      /\ Ok(Transport)
  BY <1>0, <1>b, <1>c DEF Benchmark, OptimizeChunk, OptimizeShm, OptimizeRingSlots, Transport
<1>4. Ok(Commands[c])
  BY <1>1, <1>2, <1>3 DEF Commands
<1> QED
  BY <1>4 DEF Ok

\* An argument that is accepted is a positive number of the right width.
LEMMA ParsedInRange ==
  ASSUME NEW text \in Texts
  PROVE  ParsePositive(text) \in 0..(Modulus - 1)
<1>1. text.digits \in Digits \cup {-1}
  BY DEF Texts
<1>2. CASE text.digits = -1 \/ text.digits >= Modulus \/ text.tail
  BY <1>2, WidthAssumption DEF ParsePositive, NoValue
<1>3. CASE ~ (text.digits = -1 \/ text.digits >= Modulus \/ text.tail)
  <2>0. text.digits # -1 /\ ~ (text.digits >= Modulus)
    BY <1>3
  <2>a. text.digits \in Digits
    BY <1>1, <2>0, Zenon
  <2>b. text.digits \in Nat
    BY <2>a, DigitsAssumption, Zenon
  <2>1. text.digits \in Nat /\ text.digits < Modulus /\ Modulus - text.digits \in Nat
    BY <2>b, <2>0, WidthAssumption
  <2>2. ParsePositive(text) = Strtoull(text)
    BY <1>3 DEF ParsePositive
  <2>3. (Modulus - text.digits) % Modulus \in 0..(Modulus - 1)
    BY <2>1, InRange
  <2> QED
    BY <2>1, <2>2, <2>3, WidthAssumption DEF Strtoull
<1> QED
  BY <1>2, <1>3

\* As long as the sizes fit, a command gets the bytes it was asked for, and
\* it names its results as main records them.
LEMMA NamedAsRecorded ==
  ASSUME TypeOK, Fits, cmd \in DOMAIN Commands
  PROVE  /\ TotalBytes = value.size * MB /\ ChunkSize = value.chunk * KB
         /\ Named = Recorded
<1>1. value.size \in Nat /\ value.chunk \in Nat /\ MB \in Nat \ {0} /\ KB \in Nat \ {0}
  BY WidthAssumption DEF TypeOK, Numbers
<1>2. TotalBytes = value.size * MB /\ TotalBytes \div MB = value.size
  BY <1>1, InRange, UnitsCountBack DEF TotalBytes, Fits
<1>3. ChunkSize = value.chunk * KB /\ ChunkSize \div KB = value.chunk
  BY <1>1, InRange, UnitsCountBack DEF ChunkSize, Fits
<1>4. Commands[cmd].names \in NameKinds
  BY CommandTypes
<1> HIDE DEF Commands
<1>5. Named = Recorded
  <2>1. CASE Commands[cmd].names = "bytes"
    BY <1>2, <1>3, <2>1 DEF Named, Recorded
  <2>2. CASE Commands[cmd].names = "given"
    BY <2>2 DEF Named, Recorded
  <2>3. CASE Commands[cmd].names = "fixed"
    BY <2>3 DEF Named, Recorded
  <2>4. CASE Commands[cmd].names = "none"
    BY <2>4 DEF Named, Recorded
  <2> QED
    BY <1>4, <2>1, <2>2, <2>3, <2>4 DEF NameKinds
<1> QED
  BY <1>2, <1>3, <1>5

-----------------------------------------------------------------------------
(* The invariant: nothing is called before all arguments are parsed, and   *)
(* what is written and recorded is named after the same values.            *)

\* What has not happened before main calls a command.
NothingYet == called = NoCall /\ wrote = {} /\ manifest = NotRecorded /\ code = -1

\* What has happened at which place.
InOrder ==
  /\ next >= 1
  /\ pc \in {"parse", "succeeded", "failed"} => cmd \in DOMAIN Commands
  /\ pc \in {"dispatch", "parse"} => NothingYet
  /\ pc \in {"succeeded", "failed"} => manifest = NotRecorded /\ code = -1
  /\ code = 1 => called = NoCall /\ wrote = {}

\* What was called, written and recorded is of the values that were parsed.
FromValues ==
  /\ called # NoCall => called.size = TotalBytes /\ called.chunk = ChunkSize
  /\ wrote # {} => cmd \in DOMAIN Commands /\ wrote \subseteq Named
  /\ manifest # NotRecorded =>
       cmd \in DOMAIN Commands /\ manifest.names = Recorded /\ manifest.code = code

\* The invariant of main.
CInv == TypeOK /\ InOrder /\ FromValues

\* The invariant is what OutputsAreNamed needs.
LEMMA CInvNames == CInv => OutputsAreNamed
<1> SUFFICES ASSUME CInv PROVE OutputsAreNamed
  OBVIOUS
<1>1. ASSUME Fits, called # NoCall
      PROVE  called.size = value.size * MB /\ called.chunk = value.chunk * KB
  <2>1. value.size \in Nat /\ value.chunk \in Nat /\ MB \in Nat \ {0} /\ KB \in Nat \ {0}
    BY WidthAssumption DEF CInv, TypeOK, Numbers
  <2>2. TotalBytes = value.size * MB /\ ChunkSize = value.chunk * KB
    BY <1>1, <2>1, InRange, UnitsCountBack DEF TotalBytes, ChunkSize, Fits
  <2> QED
    BY <1>1, <2>2 DEF CInv, FromValues
<1>2. ASSUME Fits, manifest # NotRecorded PROVE wrote \subseteq manifest.names
  BY <1>2, NamedAsRecorded DEF CInv, FromValues
<1> QED
  BY <1>1, <1>2 DEF OutputsAreNamed, CInv, FromValues, InOrder

\* Nothing is called at the start.
LEMMA CInvInit == Init => CInv
<1> SUFFICES ASSUME Init PROVE CInv
  OBVIOUS
<1>1. TypeOK
  BY WidthAssumption DEF Init, TypeOK, NoValue, NotRecorded, NoCall
<1> QED
  BY <1>1 DEF Init, CInv, InOrder, FromValues, NothingYet

\* One step per action.
LEMMA CInvStep == CInv /\ [Next]_vars => CInv'
<1> SUFFICES ASSUME CInv, [Next]_vars PROVE CInv'
  OBVIOUS
<1> USE DEF CInv
<1>1. ASSUME UNCHANGED <<cmd, value>>
      PROVE  TotalBytes' = TotalBytes /\ ChunkSize' = ChunkSize /\ Named' = Named /\ Recorded' = Recorded
  BY <1>1 DEF TotalBytes, ChunkSize, Named, Recorded
<1>2. CASE Dispatch
  <2>1. TypeOK'
    BY <1>2 DEF Dispatch, Exit, TypeOK, Wanted
  <2>2. InOrder'
    BY <1>2 DEF Dispatch, Exit, InOrder, NothingYet, TypeOK
  <2>3. FromValues'
    BY <1>2 DEF Dispatch, InOrder, NothingYet, FromValues
  <2> QED
    BY <2>1, <2>2, <2>3
<1>3. CASE ParseArgument
  <2>1. TypeOK'
    <3>1. cmd \in DOMAIN Commands /\ next \in Nat /\ next >= 1
      BY <1>3 DEF ParseArgument, InOrder, TypeOK
    <3>2. Params \in Seq(ParamKinds) /\ next \in DOMAIN Params
      BY <1>3, <3>1, CommandTypes DEF ParseArgument, Params
    <3>3. ASSUME Params[next] \in Numbers PROVE argv[Params[next]] \in Texts
      BY <3>1, <3>2, <3>3 DEF TypeOK, Wanted, Params, Range
    <3>4. ASSUME Params[next] \in Numbers
          PROVE  ParsePositive(argv[Params[next]]) \in 0..(Modulus - 1)
      BY <3>3, <3>4, ParsedInRange
    <3>5. value' \in [Numbers -> 0..(Modulus - 1)]
      BY <1>3, <3>4 DEF ParseArgument, TypeOK
    <3> QED
      BY <1>3, <3>5 DEF ParseArgument, Exit, TypeOK, Wanted
  <2>2. InOrder'
    BY <1>3 DEF ParseArgument, Exit, InOrder, NothingYet, TypeOK
  <2>3. FromValues'
    BY <1>3 DEF ParseArgument, InOrder, NothingYet, FromValues
  <2> QED
    BY <2>1, <2>2, <2>3
<1>4. CASE Call
  <2>1. TotalBytes \in 0..(Modulus - 1) /\ ChunkSize \in 0..(Modulus - 1)
    <3>1. value.size \in Nat /\ value.chunk \in Nat /\ MB \in Nat \ {0} /\ KB \in Nat \ {0}
      BY WidthAssumption DEF TypeOK, Numbers
    <3>2. value.size * MB \in Nat /\ value.chunk * KB \in Nat
      BY <3>1, UnitsCountBack
    <3> QED
      BY <3>2, InRange DEF TotalBytes, ChunkSize
  <2>2. TypeOK'
    BY <1>4, <2>1 DEF Call, TypeOK, Wanted
  <2>3. InOrder'
    BY <1>4 DEF Call, InOrder, NothingYet
  <2>4. FromValues'
    BY <1>1, <1>4 DEF Call, InOrder, NothingYet, FromValues, NoCall
  <2> QED
    BY <2>2, <2>3, <2>4
<1>5. CASE Record
  <2>1. TypeOK'
    BY <1>5 DEF Record, Exit, TypeOK, Wanted
  <2>2. InOrder'
    BY <1>5 DEF Record, Exit, InOrder
  <2>3. FromValues'
    BY <1>1, <1>5 DEF Record, Exit, InOrder, FromValues, NotRecorded
  <2> QED
    BY <2>1, <2>2, <2>3
<1>6. CASE UNCHANGED vars
  <2>1. TypeOK' /\ InOrder'
    BY <1>6 DEF vars, TypeOK, Wanted, InOrder, NothingYet
  <2>2. FromValues'
    BY <1>1, <1>6 DEF vars, FromValues
  <2> QED
    BY <2>1, <2>2
<1> QED
  BY <1>2, <1>3, <1>4, <1>5, <1>6 DEF Next

-----------------------------------------------------------------------------
(* The environment profile: what its row is made of.                       *)

\* f takes one sequence of ss more at every step.
IsFlat(f, ss, n) ==
  f[1] = ss[1] /\ \A i \in 2..n : f[i] = f[i - 1] \o ss[i]

\* There is a function that puts them together step by step.
LEMMA FlatExists ==
  ASSUME NEW S, NEW n \in Nat \ {0}, NEW ss \in [1..n -> Seq(S)]
  PROVE  \E f \in [1..n -> Seq(S)] : IsFlat(f, ss, n)
<1> DEFINE step == [i \in 1..n |-> [s \in Seq(S) |-> s \o ss[i]]]
<1>1. ASSUME NEW i \in 1..n, NEW s \in Seq(S) PROVE s \o ss[i] \in Seq(S)
  <2>1. PICK t \in Seq(S) : t = ss[i]
    OBVIOUS
  <2> QED
    BY <2>1, ConcatProperties
<1>2. step \in [1..n -> [Seq(S) -> Seq(S)]] /\ ss[1] \in Seq(S)
  BY <1>1
<1>3. \A i \in 1..n : \A s \in Seq(S) : step[i][s] = s \o ss[i]
  OBVIOUS
<1> HIDE DEF step
<1>4. PICK f \in [1..n -> Seq(S)] : IsRecursive(f, ss[1], step, n)
  BY <1>2, RecursionExists
<1>5. \A i \in 2..n : i \in 1..n /\ f[i - 1] \in Seq(S)
  BY <1>4
<1> QED
  BY <1>3, <1>4, <1>5 DEF IsRecursive, IsFlat

\* A flattened sequence is built step by step.
LEMMA FlattenIsFlat ==
  ASSUME NEW S, NEW n \in Nat \ {0}, NEW ss \in [1..n -> Seq(S)]
  PROVE  \E f \in [1..n -> Seq(S)] : IsFlat(f, ss, n) /\ EnvironmentRow!FlattenSeq(ss) = f[n]
<1> DEFINE Eq(f) == f = [i \in 1..Len(ss) |-> IF i = 1 THEN ss[i] ELSE f[i - 1] \o ss[i]]
           flatten == CHOOSE f : Eq(f)
<1>1. ss \in Seq(Seq(S)) /\ Len(ss) = n
  OBVIOUS
<1>2. PICK g \in [1..n -> Seq(S)] : IsFlat(g, ss, n)
  BY FlatExists
<1>3. g = [i \in 1..n |-> IF i = 1 THEN ss[i] ELSE g[i - 1] \o ss[i]]
  <2>1. \A i \in 1..n : i # 1 => i \in 2..n
    OBVIOUS
  <2> QED
    BY <1>2, <2>1 DEF IsFlat
<1>4. Eq(flatten)
  <2>1. Eq(g)
    BY <1>1, <1>3, Zenon
  <2> HIDE DEF Eq
  <2> QED
    BY <2>1
<1>5. EnvironmentRow!FlattenSeq(ss) = flatten[n]
  BY <1>1 DEF EnvironmentRow!FlattenSeq
<1> HIDE DEF flatten
<1>6. flatten = [i \in 1..n |-> IF i = 1 THEN ss[i] ELSE flatten[i - 1] \o ss[i]]
  BY <1>1, <1>4
<1>7. IsFlat(flatten, ss, n)
  <2>1. flatten[1] = ss[1]
    BY <1>6
  <2>2. ASSUME NEW i \in 2..n PROVE flatten[i] = flatten[i - 1] \o ss[i]
    <3>1. i \in 1..n /\ i # 1
      OBVIOUS
    <3> QED
      BY <1>6, <3>1
  <2> QED
    BY <2>1, <2>2 DEF IsFlat
<1>8. flatten \in [1..n -> Seq(S)]
  <2> DEFINE T == {m \in Nat : m + 1 \in 1..n => flatten[m + 1] \in Seq(S)}
  <2>1. 0 \in T
    BY <1>7 DEF IsFlat
  <2>2. ASSUME NEW m \in Nat, m \in T PROVE m + 1 \in T
    <3> SUFFICES ASSUME m + 2 \in 1..n PROVE flatten[m + 2] \in Seq(S)
      OBVIOUS
    <3>1. flatten[m + 1] \in Seq(S) /\ m + 2 \in 2..n /\ (m + 2) - 1 = m + 1
      BY <2>2
    <3>2. flatten[m + 2] = flatten[m + 1] \o ss[m + 2] /\ ss[m + 2] \in Seq(S)
      BY <1>7, <3>1 DEF IsFlat
    <3> QED
      BY <3>1, <3>2
  <2> HIDE DEF T
  <2>3. \A m \in Nat : m \in T
    BY <2>1, <2>2, Induction
  <2>4. ASSUME NEW i \in 1..n PROVE flatten[i] \in Seq(S)
    <3>1. i - 1 \in T /\ (i - 1) + 1 = i
      BY <2>3
    <3> QED
      BY <3>1 DEF T
  <2> QED
    BY <1>6, <2>4
<1> QED
  BY <1>5, <1>7, <1>8

\* Sequences of one element each are the sequence of the elements.
LEMMA FlattenSingles ==
  ASSUME NEW S, NEW t \in Seq(S)
  PROVE  EnvironmentRow!FlattenSeq([i \in DOMAIN t |-> <<t[i]>>]) = t
<1>1. PICK n \in Nat : n = Len(t)
  OBVIOUS
<1>2. DOMAIN t = 1..n
  BY <1>1
<1>3. PICK ss : ss = [i \in 1..n |-> <<t[i]>>]
  OBVIOUS
<1>4. ss \in [1..n -> Seq(S)] /\ \A i \in 1..n : ss[i] = <<t[i]>> /\ Len(ss[i]) = 1
  BY <1>1, <1>3
<1>5. CASE n = 0
  <2>1. ss \in Seq(Seq(S)) /\ Len(ss) = 0
    BY <1>4, <1>5
  <2>2. t = <<>> /\ ss = <<>>
    BY <1>1, <1>5, <2>1, EmptySeq
  <2> QED
    BY <1>2, <1>3, <2>1, <2>2 DEF EnvironmentRow!FlattenSeq
<1>6. CASE n # 0
  <2>1. PICK f \in [1..n -> Seq(S)] : IsFlat(f, ss, n) /\ EnvironmentRow!FlattenSeq(ss) = f[n]
    BY <1>4, <1>6, FlattenIsFlat
  <2> DEFINE IsFront(s, m) == Len(s) = m /\ \A i \in 1..m : s[i] = t[i]
             T == {m \in Nat : m + 1 \in 1..n => IsFront(f[m + 1], m + 1)}
  <2>2. 0 \in T
    BY <1>4, <2>1 DEF IsFlat
  <2>3. ASSUME NEW m \in Nat, m \in T PROVE m + 1 \in T
    <3> SUFFICES ASSUME m + 2 \in 1..n PROVE IsFront(f[m + 2], m + 2)
      OBVIOUS
    <3>1. IsFront(f[m + 1], m + 1) /\ m + 2 \in 2..n /\ (m + 2) - 1 = m + 1
      BY <2>3
    <3>2. f[m + 2] = f[m + 1] \o <<t[m + 2]>> /\ f[m + 1] \in Seq(S)
      <4>1. f[m + 2] = f[m + 1] \o ss[m + 2]
        BY <2>1, <3>1 DEF IsFlat
      <4>2. m + 1 \in 1..n
        OBVIOUS
      <4> QED
        BY <1>4, <4>1, <4>2
    <3> QED
      BY <3>1, <3>2
  <2> HIDE DEF T
  <2>4. n - 1 \in T /\ (n - 1) + 1 = n
    BY <1>6, <2>2, <2>3, Induction
  <2>5. Len(f[n]) = n /\ (\A i \in 1..n : f[n][i] = t[i]) /\ f[n] \in Seq(S)
    BY <1>6, <2>1, <2>4 DEF T
  <2>6. f[n] = t
    BY <1>1, <2>5
  <2> QED
    BY <1>2, <1>3, <2>1, <2>6
<1> QED
  BY <1>5, <1>6

\* What was there stays there.
Begins(s, t) == Len(s) =< Len(t) /\ \A j \in 1..Len(s) : t[j] = s[j]

\* What begins a beginning begins the whole.
LEMMA BeginsOn ==
  ASSUME NEW S, NEW a \in Seq(S), NEW c \in Seq(S), NEW d \in Seq(S), Begins(c, a), Begins(a, d)
  PROVE  Begins(c, d)
<1>1. Len(c) =< Len(d)
  BY DEF Begins
<1>2. ASSUME NEW j \in 1..Len(c) PROVE d[j] = c[j]
  <2>1. j \in 1..Len(a)
    BY DEF Begins
  <2> QED
    BY <2>1 DEF Begins
<1> QED
  BY <1>1, <1>2 DEF Begins

\* What has been put together stays at the beginning.
LEMMA FlatExtends ==
  ASSUME NEW S, NEW n \in Nat \ {0}, NEW ss \in [1..n -> Seq(S)], NEW f \in [1..n -> Seq(S)],
         IsFlat(f, ss, n), NEW k \in 1..n
  PROVE  Begins(f[k], f[n])
<1> USE DEF Begins
<1> DEFINE T == {m \in Nat : k + m \in 1..n => Begins(f[k], f[k + m])}
<1>1. 0 \in T
  BY DEF IsFlat
<1>2. ASSUME NEW m \in Nat, m \in T PROVE m + 1 \in T
  <2> SUFFICES ASSUME k + (m + 1) \in 1..n PROVE Begins(f[k], f[k + (m + 1)])
    OBVIOUS
  <2>1. k + m \in 1..n /\ k + (m + 1) \in 2..n /\ (k + (m + 1)) - 1 = k + m
    OBVIOUS
  <2>2. PICK a \in Seq(S), b \in Seq(S) : a = f[k + m] /\ b = ss[k + (m + 1)]
    BY <2>1
  <2>3. f[k + (m + 1)] = a \o b
    BY <2>1, <2>2 DEF IsFlat
  <2>4. Begins(f[k], a)
    BY <1>2, <2>1, <2>2
  <2>5. Begins(a, a \o b)
    BY ConcatProperties
  <2>6. PICK c \in Seq(S) : c = f[k]
    OBVIOUS
  <2>7. a \o b \in Seq(S)
    BY ConcatProperties
  <2>8. PICK d \in Seq(S) : d = a \o b
    BY <2>7
  <2>9. Begins(c, a) /\ Begins(a, d)
    BY <2>4, <2>5, <2>6, <2>8
  <2>10. Begins(c, d)
    BY <2>9, BeginsOn
  <2> QED
    BY <2>3, <2>6, <2>8, <2>10
<1> HIDE DEF T
<1>3. \A m \in Nat : m \in T
  BY <1>1, <1>2, Induction
<1>4. n - k \in T /\ k + (n - k) = n
  BY <1>3
<1> QED
  BY <1>4 DEF T

\* Where column k of a row begins: its characters follow, then a comma
\* unless it is the last.
Laid(line, cols, sep, s, k, n) ==
  /\ \A j \in 1..Len(cols[k]) : line[s[k] + j - 1] = cols[k][j]
  /\ k < n => /\ s[k + 1] = s[k] + Len(cols[k]) + 1
              /\ line[s[k] + Len(cols[k])] = sep /\ s[k] + Len(cols[k]) =< Len(line)
  /\ k = n => Len(line) = s[k] + Len(cols[k]) - 1

\* s says where each column starts.
IsLaid(line, cols, sep, s, n) ==
  /\ s \in [1..n -> Nat] /\ s[1] = 1
  /\ \A k \in 1..n : Laid(line, cols, sep, s, k, n)

\* The columns with commas between them are laid out in a row.
LEMMA RowIsLaid ==
  ASSUME NEW S, NEW sep \in S, NEW n \in Nat \ {0}, NEW cols \in [1..n -> Seq(S)],
         NEW ss, ss = [i \in 1..n |-> IF i = 1 THEN cols[i] ELSE <<sep>> \o cols[i]]
  PROVE  \E line \in Seq(S) : line = EnvironmentRow!FlattenSeq(ss) /\ \E s : IsLaid(line, cols, sep, s, n)
<1>1. ASSUME NEW i \in 2..n
      PROVE  /\ ss[i] \in Seq(S) /\ Len(ss[i]) = Len(cols[i]) + 1 /\ ss[i][1] = sep
             /\ \A j \in 1..Len(cols[i]) : ss[i][j + 1] = cols[i][j]
  <2>1. ss[i] = <<sep>> \o cols[i]
    BY <1>1
  <2>2. PICK c \in Seq(S) : c = cols[i]
    BY <1>1
  <2>3. <<sep>> \in Seq(S)
    OBVIOUS
  <2> QED
    BY <2>1, <2>2, <2>3, ConcatProperties
<1>2. ss[1] = cols[1]
  OBVIOUS
<1>3. ss \in [1..n -> Seq(S)]
  <2>1. ASSUME NEW i \in 1..n PROVE ss[i] \in Seq(S)
    <3>1. i = 1 \/ i \in 2..n
      OBVIOUS
    <3> QED
      BY <1>1, <1>2, <3>1
  <2> QED
    BY <2>1
<1>4. PICK f \in [1..n -> Seq(S)] : IsFlat(f, ss, n) /\ EnvironmentRow!FlattenSeq(ss) = f[n]
  BY <1>3, FlattenIsFlat
<1>12. ASSUME NEW k \in 1..n
       PROVE  Len(f[k]) =< Len(f[n]) /\ \A j \in 1..Len(f[k]) : f[n][j] = f[k][j]
  <2>1. Begins(f[k], f[n])
    BY <1>3, <1>4, FlatExtends
  <2> QED
    BY <2>1 DEF Begins
<1>11. PICK line \in Seq(S) : line = f[n]
  BY <1>4
<1> DEFINE at(i) == IF i = 1 THEN 1 ELSE Len(f[i - 1]) + 2
           cut(i) == f[i][Len(f[i - 1]) + 1]
<1>5. PICK s : s = [i \in 1..n |-> at(i)]
  OBVIOUS
<1>6. ASSUME NEW i \in 1..n
      PROVE  /\ at(i) \in Nat /\ Len(f[i]) = at(i) + Len(cols[i]) - 1
             /\ \A j \in 1..Len(cols[i]) : f[i][at(i) + j - 1] = cols[i][j]
             /\ (i # 1 => cut(i) = sep)
  <2>1. CASE i = 1
    BY <1>2, <1>4, <2>1 DEF IsFlat
  <2>2. CASE i # 1
    <3>1. i \in 2..n /\ i - 1 \in 1..n
      BY <2>2
    <3>2. PICK a \in Seq(S), b \in Seq(S), c \in Seq(S) :
            a = f[i - 1] /\ b = ss[i] /\ c = cols[i]
      BY <1>3, <3>1
    <3>3. f[i] = a \o b
      BY <1>4, <3>1, <3>2 DEF IsFlat
    <3>4. Len(b) = Len(c) + 1 /\ b[1] = sep /\ \A j \in 1..Len(c) : b[j + 1] = c[j]
      BY <1>1, <3>1, <3>2
    <3>5. PICK d \in Seq(S) : d = a \o b
      BY ConcatProperties
    <3>6. Len(d) = Len(a) + Len(b)
          /\ \A j \in 1..(Len(a) + Len(b)) : d[j] = IF j =< Len(a) THEN a[j] ELSE b[j - Len(a)]
      BY <3>5, ConcatProperties
    <3>7. Len(d) = Len(a) + 2 + Len(c) - 1
      BY <3>4, <3>6
    <3>8. d[Len(a) + 1] = sep
      <4>1. Len(a) + 1 \in 1..(Len(a) + Len(b)) /\ ~ (Len(a) + 1 =< Len(a))
            /\ (Len(a) + 1) - Len(a) = 1
        BY <3>4
      <4> QED
        BY <3>4, <3>6, <4>1
    <3>9. ASSUME NEW j \in 1..Len(c) PROVE d[Len(a) + 2 + j - 1] = c[j]
      <4>1. Len(a) + 2 + j - 1 \in 1..(Len(a) + Len(b)) /\ ~ (Len(a) + 2 + j - 1 =< Len(a))
            /\ (Len(a) + 2 + j - 1) - Len(a) = j + 1
        BY <3>4
      <4> QED
        BY <3>4, <3>6, <4>1
    <3>10. PICK x \in Nat : x = Len(a) + 2
      OBVIOUS
    <3>11. at(i) = x /\ Len(f[i - 1]) = Len(a)
      BY <2>2, <3>2, <3>10
    <3>12. f[i] = d /\ cols[i] = c
      BY <3>2, <3>3, <3>5
    <3>13. Len(d) = x + Len(c) - 1 /\ \A j \in 1..Len(c) : d[x + j - 1] = c[j]
      BY <3>7, <3>9, <3>10
    <3> HIDE DEF at
    <3> QED
      BY <3>8, <3>11, <3>12, <3>13
  <2> QED
    BY <2>1, <2>2
<1>7. \A i \in 1..n : s[i] = at(i)
  BY <1>5
<1>8. ASSUME NEW k \in 1..n PROVE Laid(line, cols, sep, s, k, n)
  <2>1. s[k] = at(k)
    BY <1>7
  <2>2. Len(f[k]) =< Len(line) /\ \A j \in 1..Len(f[k]) : line[j] = f[k][j]
    <3>1. Len(f[k]) =< Len(f[n]) /\ \A j \in 1..Len(f[k]) : f[n][j] = f[k][j]
      BY <1>12
    <3> QED
      BY <1>11, <3>1
  <2>3. PICK a \in Nat, l \in Nat, e \in Nat : a = at(k) /\ l = Len(cols[k]) /\ e = Len(f[k])
    <3>1. at(k) \in Nat /\ cols[k] \in Seq(S) /\ f[k] \in Seq(S)
      BY <1>4, <1>6
    <3>2. Len(cols[k]) \in Nat /\ Len(f[k]) \in Nat
      BY <3>1
    <3> HIDE DEF at
    <3> QED
      BY <3>1, <3>2
  <2>4. e = a + l - 1 /\ \A j \in 1..l : f[k][a + j - 1] = cols[k][j]
    BY <1>6, <2>3
  <2>5. a >= 1
    BY <2>3
  <2>6. ASSUME NEW j \in 1..l PROVE line[a + j - 1] = cols[k][j]
    <3>1. a + j - 1 \in 1..e
      BY <2>4, <2>5
    <3> QED
      BY <2>2, <2>3, <2>4, <3>1
  <2>7. ASSUME k < n PROVE s[k + 1] = a + l + 1 /\ line[a + l] = sep /\ a + l =< Len(line)
    <3>1. k + 1 \in 1..n /\ (k + 1) - 1 = k /\ k + 1 # 1
      BY <2>7
    <3>2. s[k + 1] = e + 2
      BY <1>7, <2>3, <3>1
    <3>3. f[k + 1][e + 1] = sep
      <4>1. cut(k + 1) = sep
        BY <1>6, <3>1
      <4>2. Len(f[(k + 1) - 1]) + 1 = e + 1
        BY <2>3, <3>1
      <4> QED
        BY <4>1, <4>2
    <3>4. Len(f[k + 1]) = (e + 2) + Len(cols[k + 1]) - 1
      BY <1>6, <2>3, <3>1
    <3>5. Len(cols[k + 1]) \in Nat
      BY <3>1
    <3>6. e + 1 \in 1..Len(f[k + 1])
      <4>1. PICK l2 \in Nat : l2 = Len(cols[k + 1])
        BY <3>5
      <4>2. PICK e2 \in Nat : e2 = Len(f[k + 1])
        BY <3>1
      <4>3. e2 = (e + 2) + l2 - 1
        BY <3>4, <4>1, <4>2
      <4> QED
        BY <4>2, <4>3
    <3>7. line[e + 1] = f[k + 1][e + 1]
      <4>1. \A j \in 1..Len(f[k + 1]) : f[n][j] = f[k + 1][j]
        BY <1>12, <3>1
      <4> QED
        BY <1>11, <3>6, <4>1
    <3>8. e + 2 = a + l + 1 /\ e + 1 = a + l
      BY <2>4
    <3>9. Len(f[k + 1]) =< Len(line)
      <4>1. Len(f[k + 1]) =< Len(f[n])
        BY <1>12, <3>1
      <4> QED
        BY <1>11, <4>1
    <3>10. e + 1 =< Len(line)
      <4>1. PICK e2 \in Nat : e2 = Len(f[k + 1])
        BY <3>1
      <4> QED
        BY <3>6, <3>9, <4>1
    <3> QED
      BY <3>2, <3>3, <3>7, <3>8, <3>10
  <2>8. k = n => Len(line) = a + l - 1
    BY <1>11, <2>3, <2>4
  <2> QED
    BY <2>1, <2>3, <2>6, <2>7, <2>8 DEF Laid
<1>9. s \in [1..n -> Nat] /\ s[1] = 1
  BY <1>5, <1>6
<1>10. IsLaid(line, cols, sep, s, n)
  BY <1>8, <1>9 DEF IsLaid
<1> QED
  BY <1>4, <1>10, <1>11

-----------------------------------------------------------------------------
(* The environment profile: what its reader does with a row.               *)

\* The cut comma is the first from a place on, and there is none before it.
LEMMA NextComma ==
  ASSUME NEW S, NEW line \in Seq(S), NEW from \in Nat \ {0}
  PROVE  /\ EnvironmentRow!CommaFrom(line, from) \in Nat
         /\ \/ EnvironmentRow!CommaFrom(line, from) = Len(line) + 1
            \/ EnvironmentRow!CommaFrom(line, from) >= from
         /\ \A i \in from..Len(line) :
              line[i] = EnvironmentRow!Comma => EnvironmentRow!CommaFrom(line, from) =< i
         /\ \A m \in Nat : /\ m >= from /\ \A i \in from..(m - 1) : line[i] # EnvironmentRow!Comma
                           /\ m = Len(line) + 1 \/ (m =< Len(line) /\ line[m] = EnvironmentRow!Comma)
                           => EnvironmentRow!CommaFrom(line, from) = m
<1>1. PICK commas : commas = {i \in from..Len(line) : line[i] = EnvironmentRow!Comma}
  OBVIOUS
<1>2. PICK cut : cut = EnvironmentRow!CommaFrom(line, from)
  OBVIOUS
<1>3. cut = IF commas = {} THEN Len(line) + 1
             ELSE CHOOSE i \in commas : \A j \in commas : i =< j
  BY <1>1, <1>2 DEF EnvironmentRow!CommaFrom
<1>4. CASE commas = {}
  BY <1>1, <1>2, <1>3, <1>4
<1>5. CASE commas # {}
  <2>1. commas \in SUBSET Nat
    BY <1>1
  <2>2. \E i \in commas : \A j \in commas : i =< j
    BY <1>5, <2>1, LeastNumber
  <2>3. cut \in commas /\ \A j \in commas : cut =< j
    BY <1>3, <1>5, <2>2
  <2>4. cut \in Nat /\ cut >= from /\ cut =< Len(line) /\ line[cut] = EnvironmentRow!Comma
    BY <1>1, <2>3
  <2>5. ASSUME NEW m \in Nat, m >= from, \A i \in from..(m - 1) : line[i] # EnvironmentRow!Comma,
               m = Len(line) + 1 \/ (m =< Len(line) /\ line[m] = EnvironmentRow!Comma)
        PROVE  cut = m
    <3>1. cut >= m
      <4>1. cut \notin from..(m - 1)
        BY <2>4, <2>5
      <4> QED
        BY <2>4, <2>5, <4>1
    <3>2. CASE m = Len(line) + 1
      BY <2>4, <3>1, <3>2
    <3>3. CASE m =< Len(line) /\ line[m] = EnvironmentRow!Comma
      <4>1. m \in commas
        BY <1>1, <2>5, <3>3
      <4> QED
        BY <2>3, <2>4, <3>1, <4>1
    <3> QED
      BY <2>5, <3>2, <3>3
  <2> QED
    BY <1>1, <1>2, <2>3, <2>4, <2>5
<1> QED
  BY <1>4, <1>5

\* strchr finds the first comma, or the end.
LEMMA FirstComma ==
  ASSUME NEW S, NEW line \in Seq(S), NEW from \in Nat \ {0}, NEW m \in Nat, m >= from,
         \A i \in from..(m - 1) : line[i] # EnvironmentRow!Comma,
         m = Len(line) + 1 \/ (m =< Len(line) /\ line[m] = EnvironmentRow!Comma)
  PROVE  EnvironmentRow!CommaFrom(line, from) = m
BY NextComma

\* It does not pass a comma.
LEMMA CommaBefore ==
  ASSUME NEW S, NEW line \in Seq(S), NEW from \in Nat \ {0}, NEW i \in Nat, i >= from,
         i =< Len(line), line[i] = EnvironmentRow!Comma
  PROVE  EnvironmentRow!CommaFrom(line, from) \in Nat /\ EnvironmentRow!CommaFrom(line, from) =< i
<1>1. i \in from..Len(line)
  OBVIOUS
<1> QED
  BY <1>1, NextComma

\* A sequence over a set is one over a larger set.
LEMMA SeqOfMore ==
  ASSUME NEW A, NEW B, A \subseteq B, NEW s \in Seq(A)
  PROVE  s \in Seq(B)
<1>1. PICK n \in Nat : n = Len(s)
  OBVIOUS
<1>2. s \in [1..n -> A]
  BY <1>1
<1>3. s \in [1..n -> B]
  BY <1>2
<1> QED
  BY <1>3

\* A sequence that is found in another one, cut out of it.
LEMMA CutOut ==
  ASSUME NEW S, NEW line \in Seq(S), NEW c \in Seq(S), NEW a \in Nat \ {0}, NEW e \in Nat,
         e = a + Len(c) - 1, e =< Len(line), \A j \in 1..Len(c) : line[a + j - 1] = c[j]
  PROVE  SubSeq(line, a, e) = c
<1>1. \A i \in a..e : line[i] \in S
  OBVIOUS
<1>2. PICK d : d = SubSeq(line, a, e)
  OBVIOUS
<1>3. /\ d \in Seq(S) /\ Len(d) = IF a =< e THEN e - a + 1 ELSE 0
      /\ \A j \in 1..(e - a + 1) : d[j] = line[a + j - 1]
  BY <1>1, <1>2, SubSeqProperties
<1>4. PICK l \in Nat : l = Len(c)
  OBVIOUS
<1>5. Len(d) = l /\ \A j \in 1..l : d[j] = c[j]
  BY <1>3, <1>4
<1>6. d = c
  BY <1>3, <1>4, <1>5
<1> QED
  BY <1>2, <1>6

\* Fields begin at the start of the line and behind commas.
LEMMA BeginsBehindCommas ==
  ASSUME NEW S, NEW line \in Seq(S), MaxFields # 0
  PROVE  /\ EnvironmentRow!Begin(line) \in [1..MaxFields -> Nat \ {0}]
         /\ EnvironmentRow!Begin(line)[1] = 1
         /\ \A k \in 2..MaxFields :
              EnvironmentRow!Begin(line)[k] =
                EnvironmentRow!CommaFrom(line, EnvironmentRow!Begin(line)[k - 1]) + 1
<1> DEFINE after == [i \in Nat \ {0} |-> EnvironmentRow!CommaFrom(line, i) + 1]
           step == [k \in 1..MaxFields |-> after]
           Eq(f) == f = [k \in 1..MaxFields |->
                           IF k = 1 THEN 1 ELSE EnvironmentRow!CommaFrom(line, f[k - 1]) + 1]
           current == CHOOSE f : Eq(f)
<1>1. MaxFields \in Nat \ {0}
  BY EnvironmentInstance DEF EnvironmentRow!EnvironmentAssumption
<1>2. \A i \in Nat \ {0} : EnvironmentRow!CommaFrom(line, i) \in Nat
  BY NextComma
<1>3. step \in [1..MaxFields -> [Nat \ {0} -> Nat \ {0}]]
      /\ \A k \in 1..MaxFields : \A i \in Nat \ {0} :
           step[k][i] = EnvironmentRow!CommaFrom(line, i) + 1
  BY <1>2
<1> HIDE DEF step
<1>4. PICK g \in [1..MaxFields -> Nat \ {0}] : IsRecursive(g, 1, step, MaxFields)
  <2>1. 1 \in Nat \ {0}
    OBVIOUS
  <2> QED
    BY <1>1, <1>3, <2>1, RecursionExists
<1>5. Eq(g)
  <2>1. \A k \in 1..MaxFields : k # 1 => k \in 2..MaxFields /\ k - 1 \in 1..MaxFields
    BY <1>1
  <2> QED
    BY <1>3, <1>4, <2>1 DEF IsRecursive
<1>6. Eq(current)
  <2> HIDE DEF Eq
  <2> QED
    BY <1>5
<1>7. EnvironmentRow!Begin(line) = current
  BY DEF EnvironmentRow!Begin
<1> HIDE DEF current
<1>8. current[1] = 1 /\ \A k \in 2..MaxFields :
        current[k] = EnvironmentRow!CommaFrom(line, current[k - 1]) + 1
  BY <1>1, <1>6
<1>9. current \in [1..MaxFields -> Nat \ {0}]
  <2> DEFINE T == {m \in Nat : m + 1 \in 1..MaxFields => current[m + 1] \in Nat \ {0}}
  <2>1. 0 \in T
    BY <1>8
  <2>2. ASSUME NEW m \in Nat, m \in T PROVE m + 1 \in T
    <3> SUFFICES ASSUME m + 2 \in 1..MaxFields PROVE current[m + 2] \in Nat \ {0}
      OBVIOUS
    <3>1. m + 2 \in 2..MaxFields /\ (m + 2) - 1 = m + 1 /\ current[m + 1] \in Nat \ {0}
      BY <1>1, <2>2
    <3> QED
      BY <1>2, <1>8, <3>1
  <2> HIDE DEF T
  <2>3. \A m \in Nat : m \in T
    BY <2>1, <2>2, Induction
  <2>4. ASSUME NEW k \in 1..MaxFields PROVE current[k] \in Nat \ {0}
    <3>1. k - 1 \in T /\ (k - 1) + 1 = k
      BY <2>3
    <3> QED
      BY <3>1 DEF T
  <2> QED
    BY <1>6, <2>4
<1> QED
  BY <1>7, <1>8, <1>9

\* What column k of a row is read as, if none before it has a comma.
CutAt(line, cols, k) ==
  /\ EnvironmentRow!Begin(line)[k] =< Len(line)
  /\ (\A i \in 1..k : \A j \in 1..Len(cols[i]) : cols[i][j] # EnvironmentRow!Comma)
     => EnvironmentRow!Pieces(line)[k] = cols[k]

\* A row that is laid out is cut into its columns, up to the first with a
\* comma of its own, and into no fewer fields than it has columns.
LEMMA RowInPieces ==
  ASSUME NEW S, NEW line \in Seq(S), NEW n \in Nat \ {0}, n =< MaxFields,
         NEW cols \in [1..n -> Seq(S)], \A k \in 1..n : Len(cols[k]) # 0,
         NEW s, IsLaid(line, cols, EnvironmentRow!Comma, s, n)
  PROVE  \A k \in 1..n : CutAt(line, cols, k)
<1>1. MaxFields \in Nat \ {0}
  BY EnvironmentInstance DEF EnvironmentRow!EnvironmentAssumption
<1>2. PICK begin : begin = EnvironmentRow!Begin(line)
  OBVIOUS
<1>3. /\ begin \in [1..MaxFields -> Nat \ {0}] /\ begin[1] = 1
      /\ \A k \in 2..MaxFields : begin[k] = EnvironmentRow!CommaFrom(line, begin[k - 1]) + 1
  BY <1>1, <1>2, BeginsBehindCommas
<1>4. ASSUME NEW k \in 1..n
      PROVE  /\ s[k] \in Nat /\ Len(cols[k]) \in Nat \ {0} /\ k \in 1..MaxFields
             /\ Laid(line, cols, EnvironmentRow!Comma, s, k, n)
  BY <1>1 DEF IsLaid
<1>5. s[1] = 1
  BY DEF IsLaid
<1>6. ASSUME NEW k \in Nat, k + 1 \in 1..n, k # 0
      PROVE  /\ k \in 1..n /\ k < n /\ k + 1 \in 2..MaxFields /\ (k + 1) - 1 = k
             /\ s[k + 1] = s[k] + Len(cols[k]) + 1
             /\ line[s[k] + Len(cols[k])] = EnvironmentRow!Comma
             /\ s[k] + Len(cols[k]) =< Len(line)
             /\ begin[k + 1] = EnvironmentRow!CommaFrom(line, begin[k]) + 1
  <2>1. k \in 1..n /\ k < n /\ k + 1 \in 2..MaxFields /\ (k + 1) - 1 = k
    BY <1>1, <1>6
  <2>2. Laid(line, cols, EnvironmentRow!Comma, s, k, n)
    BY <1>4, <2>1
  <2>3. begin[k + 1] = EnvironmentRow!CommaFrom(line, begin[k]) + 1
    BY <1>3, <2>1
  <2> QED
    BY <2>1, <2>2, <2>3 DEF Laid
<1>7. \A k \in 1..n : s[k] >= 1
  <2> DEFINE T == {m \in Nat : m + 1 \in 1..n => s[m + 1] >= 1}
  <2>1. 0 \in T
    BY <1>5
  <2>2. ASSUME NEW m \in Nat, m \in T PROVE m + 1 \in T
    <3> SUFFICES ASSUME (m + 1) + 1 \in 1..n PROVE s[(m + 1) + 1] >= 1
      OBVIOUS
    <3>1. m + 1 \in 1..n /\ s[(m + 1) + 1] = s[m + 1] + Len(cols[m + 1]) + 1
      BY <1>6
    <3>2. s[m + 1] \in Nat /\ Len(cols[m + 1]) \in Nat
      BY <1>4, <3>1
    <3> QED
      BY <3>1, <3>2
  <2> HIDE DEF T
  <2>3. \A m \in Nat : m \in T
    BY <2>1, <2>2, Induction
  <2>4. ASSUME NEW k \in 1..n PROVE s[k] >= 1
    <3>1. k - 1 \in T /\ (k - 1) + 1 = k
      BY <2>3
    <3> QED
      BY <3>1 DEF T
  <2> QED
    BY <2>4
<1>8. \A k \in 1..n : begin[k] =< s[k]
  <2> DEFINE T == {m \in Nat : m + 1 \in 1..n => begin[m + 1] =< s[m + 1]}
  <2>1. 0 \in T
    BY <1>3, <1>5
  <2>2. ASSUME NEW m \in Nat, m \in T PROVE m + 1 \in T
    <3> SUFFICES ASSUME (m + 1) + 1 \in 1..n PROVE begin[(m + 1) + 1] =< s[(m + 1) + 1]
      OBVIOUS
    <3>1. PICK k \in 1..n : k = m + 1
      BY <1>6
    <3>2. k + 1 \in 1..n /\ k # 0
      BY <3>1
    <3>3. PICK b \in Nat \ {0} : b = begin[k]
      BY <1>3, <1>4
    <3>4. PICK p \in Nat : p = s[k] + Len(cols[k])
      BY <1>4
    <3>5. b =< p /\ p =< Len(line) /\ line[p] = EnvironmentRow!Comma /\ s[k + 1] = p + 1
      <4>1. b =< s[k] /\ s[k] \in Nat /\ Len(cols[k]) \in Nat
        BY <1>4, <2>2, <3>1, <3>3
      <4> QED
        BY <1>6, <3>2, <3>4, <4>1
    <3>6. EnvironmentRow!CommaFrom(line, b) \in Nat /\ EnvironmentRow!CommaFrom(line, b) =< p
      BY <3>5, CommaBefore
    <3>7. begin[k + 1] = EnvironmentRow!CommaFrom(line, b) + 1
      BY <1>6, <3>2, <3>3
    <3> QED
      BY <3>1, <3>5, <3>6, <3>7
  <2> HIDE DEF T
  <2>3. \A m \in Nat : m \in T
    BY <2>1, <2>2, Induction
  <2>4. ASSUME NEW k \in 1..n PROVE begin[k] =< s[k]
    <3>1. k - 1 \in T /\ (k - 1) + 1 = k
      BY <2>3
    <3> QED
      BY <3>1 DEF T
  <2> QED
    BY <2>4
<1>9. ASSUME NEW k \in 1..n PROVE begin[k] =< Len(line)
  <2>1. PICK a \in Nat, l \in Nat \ {0}, b \in Nat :
          a = s[k] /\ l = Len(cols[k]) /\ b = begin[k]
    BY <1>3, <1>4
  <2>2. b =< a
    BY <1>8, <2>1
  <2>3. a + l =< Len(line) \/ Len(line) = a + l - 1
    BY <1>4, <2>1 DEF Laid
  <2> QED
    BY <2>1, <2>2, <2>3
<1>10. ASSUME NEW k \in 1..n, \A j \in 1..Len(cols[k]) : cols[k][j] # EnvironmentRow!Comma
       PROVE  EnvironmentRow!CommaFrom(line, s[k]) = s[k] + Len(cols[k])
  <2>1. PICK a \in Nat \ {0}, l \in Nat \ {0} : a = s[k] /\ l = Len(cols[k])
    <3>1. s[k] \in Nat \ {0}
      BY <1>4, <1>7
    <3> QED
      BY <1>4, <3>1
  <2>2. ASSUME NEW i \in a..(a + l - 1) PROVE line[i] # EnvironmentRow!Comma
    <3>1. (i - a) + 1 \in 1..l /\ i = a + ((i - a) + 1) - 1
      OBVIOUS
    <3>2. line[a + ((i - a) + 1) - 1] = cols[k][(i - a) + 1]
      BY <1>4, <2>1, <3>1 DEF Laid
    <3> QED
      BY <1>10, <2>1, <3>1, <3>2
  <2>3. a + l = Len(line) + 1 \/ (a + l =< Len(line) /\ line[a + l] = EnvironmentRow!Comma)
    BY <1>4, <2>1 DEF Laid
  <2>4. a + l \in Nat /\ a + l >= a
    OBVIOUS
  <2>5. EnvironmentRow!CommaFrom(line, a) = a + l
    BY <2>2, <2>3, <2>4, FirstComma
  <2> QED
    BY <2>1, <2>5
<1>11. ASSUME NEW k \in 1..n,
              \A i \in 1..k : \A j \in 1..Len(cols[i]) : cols[i][j] # EnvironmentRow!Comma
       PROVE  EnvironmentRow!Pieces(line)[k] = cols[k]
  <2> DEFINE T == {m \in Nat : m + 1 \in 1..k => begin[m + 1] = s[m + 1]}
  <2>1. 0 \in T
    BY <1>3, <1>5
  <2>2. ASSUME NEW m \in Nat, m \in T PROVE m + 1 \in T
    <3> SUFFICES ASSUME (m + 1) + 1 \in 1..k PROVE begin[(m + 1) + 1] = s[(m + 1) + 1]
      OBVIOUS
    <3>1. PICK i \in 1..n : i = m + 1
      OBVIOUS
    <3>2. i + 1 \in 1..n /\ i # 0 /\ i \in 1..k
      BY <3>1
    <3>3. EnvironmentRow!CommaFrom(line, s[i]) = s[i] + Len(cols[i])
      BY <1>10, <1>11, <3>2
    <3>4. begin[i] = s[i]
      BY <2>2, <3>1, <3>2
    <3> QED
      BY <1>6, <3>1, <3>2, <3>3, <3>4
  <2> HIDE DEF T
  <2>3. \A m \in Nat : m \in T
    BY <2>1, <2>2, Induction
  <2>4. begin[k] = s[k]
    <3>1. k - 1 \in T /\ (k - 1) + 1 = k
      BY <2>3
    <3> QED
      BY <3>1 DEF T
  <2>5. EnvironmentRow!CommaFrom(line, s[k]) = s[k] + Len(cols[k])
    BY <1>10, <1>11
  <2>6. k \in {i \in 1..MaxFields : begin[i] =< Len(line)}
    BY <1>4, <1>9
  <2>7. EnvironmentRow!Pieces(line)[k] =
          SubSeq(line, begin[k], EnvironmentRow!CommaFrom(line, begin[k]) - 1)
    BY <1>2, <2>6 DEF EnvironmentRow!Pieces
  <2>8. PICK a \in Nat \ {0} : a = s[k]
    BY <1>4, <1>7
  <2>9. PICK c \in Seq(S) : c = cols[k]
    OBVIOUS
  <2>10. Laid(line, cols, EnvironmentRow!Comma, s, k, n)
    BY <1>4
  <2>11. \A j \in 1..Len(c) : line[a + j - 1] = c[j]
    BY <2>8, <2>9, <2>10 DEF Laid
  <2>12. a + Len(c) =< Len(line) \/ Len(line) = a + Len(c) - 1
    BY <2>8, <2>9, <2>10 DEF Laid
  <2>13. PICK e \in Nat : e = a + Len(c) - 1
    <3>1. Len(c) \in Nat
      OBVIOUS
    <3>2. a + Len(c) - 1 \in Nat
      BY <3>1
    <3> QED
      BY <3>2
  <2>14. e =< Len(line)
    BY <2>12, <2>13
  <2>15. SubSeq(line, a, e) = c
    BY <2>11, <2>13, <2>14, CutOut
  <2>16. begin[k] = a /\ EnvironmentRow!CommaFrom(line, begin[k]) - 1 = e
    <3>1. EnvironmentRow!CommaFrom(line, begin[k]) = a + Len(c)
      BY <2>4, <2>5, <2>8, <2>9
    <3> QED
      BY <2>4, <2>8, <2>13, <3>1
  <2> QED
    BY <2>7, <2>9, <2>15, <2>16
<1> QED
  BY <1>2, <1>9, <1>11 DEF CutAt

\* The characters of a text, and of a number.
Chars == STRING \cup {EnvironmentRow!Comma, EnvironmentRow!Quote, EnvironmentRow!Space, "x"}

\* What a row is made of can be told apart.
LEMMA CharactersDiffer ==
  /\ EnvironmentRow!Comma # EnvironmentRow!Quote /\ EnvironmentRow!Quote # EnvironmentRow!Space
  /\ \E x \in Chars : /\ EnvironmentRow!Number = <<x>> /\ x # EnvironmentRow!Comma
                       /\ x # EnvironmentRow!Quote /\ x # EnvironmentRow!Space
BY DEF EnvironmentRow!Comma, EnvironmentRow!Quote, EnvironmentRow!Space, EnvironmentRow!Number, Chars

\* Doubling the quotes adds nothing else, and nothing where there is none.
LEMMA Doubled ==
  ASSUME NEW S, EnvironmentRow!Quote \in S, NEW t \in Seq(S)
  PROVE  /\ EnvironmentRow!DoubleQuotes(t) \in Seq(S)
         /\ (\A i \in DOMAIN t : t[i] # EnvironmentRow!Quote) => EnvironmentRow!DoubleQuotes(t) = t
<1>1. PICK q \in S : q = EnvironmentRow!Quote
  OBVIOUS
<1>2. PICK ss : ss = [i \in DOMAIN t |-> IF t[i] = q THEN <<q, q>> ELSE <<t[i]>>]
  OBVIOUS
<1>3. EnvironmentRow!DoubleQuotes(t) = EnvironmentRow!FlattenSeq(ss)
  BY <1>1, <1>2 DEF EnvironmentRow!DoubleQuotes
<1>4. ASSUME \A i \in DOMAIN t : t[i] # q PROVE EnvironmentRow!DoubleQuotes(t) = t
  <2>1. ss = [i \in DOMAIN t |-> <<t[i]>>]
    BY <1>2, <1>4
  <2> QED
    BY <1>3, <2>1, FlattenSingles
<1>5. EnvironmentRow!DoubleQuotes(t) \in Seq(S)
  <2>1. PICK n \in Nat : n = Len(t)
    OBVIOUS
  <2>2. DOMAIN t = 1..n /\ \A i \in 1..n : t[i] \in S
    BY <2>1
  <2>3. CASE n = 0
    BY <1>4, <2>2, <2>3
  <2>4. CASE n # 0
    <3>1. ASSUME NEW i \in 1..n PROVE ss[i] \in Seq(S)
      <4>1. PICK c \in S : c = t[i]
        BY <2>2
      <4>2. <<q, q>> \in Seq(S) /\ <<c>> \in Seq(S)
        OBVIOUS
      <4> QED
        BY <1>2, <2>2, <4>1, <4>2
    <3>2. ss \in [1..n -> Seq(S)]
      BY <1>2, <2>2, <3>1
    <3>3. PICK f \in [1..n -> Seq(S)] : IsFlat(f, ss, n) /\ EnvironmentRow!FlattenSeq(ss) = f[n]
      BY <2>4, <3>2, FlattenIsFlat
    <3> QED
      BY <1>3, <2>4, <3>3
  <2> QED
    BY <2>3, <2>4
<1> QED
  BY <1>1, <1>4, <1>5

\* What begins and ends with something else than a blank is not trimmed.
LEMMA NotTrimmed ==
  ASSUME NEW S, NEW t \in Seq(S), Len(t) # 0, t[1] # EnvironmentRow!Space,
         t[Len(t)] # EnvironmentRow!Space
  PROVE  EnvironmentRow!TrimSpaces(t) = t
<1>1. PICK n \in Nat \ {0} : n = Len(t)
  OBVIOUS
<1>2. PICK dark : dark = EnvironmentRow!Dark(t)
  OBVIOUS
<1>3. dark = {i \in 1..n : t[i] # EnvironmentRow!Space}
  BY <1>1, <1>2 DEF EnvironmentRow!Dark
<1>4. 1 \in dark /\ n \in dark /\ dark \subseteq 1..n
  BY <1>1, <1>3
<1>5. (CHOOSE i \in dark : \A j \in dark : i =< j) = 1
  <2>1. PICK first : first = CHOOSE i \in dark : \A j \in dark : i =< j
    OBVIOUS
  <2>2. 1 \in dark /\ \A j \in dark : 1 =< j
    BY <1>4
  <2>3. first \in dark /\ \A j \in dark : first =< j
    BY <2>1, <2>2
  <2>4. first = 1
    BY <1>4, <2>2, <2>3
  <2> QED
    BY <2>1, <2>4
<1>6. (CHOOSE i \in dark : \A j \in dark : i >= j) = n
  <2>1. PICK last : last = CHOOSE i \in dark : \A j \in dark : i >= j
    OBVIOUS
  <2>2. n \in dark /\ \A j \in dark : n >= j
    BY <1>4
  <2>3. last \in dark /\ \A j \in dark : last >= j
    BY <2>1, <2>2
  <2>4. last = n
    BY <1>4, <2>2, <2>3
  <2> QED
    BY <2>1, <2>4
<1>7. EnvironmentRow!TrimSpaces(t) = SubSeq(t, 1, n)
  BY <1>2, <1>4, <1>5, <1>6 DEF EnvironmentRow!TrimSpaces
<1>8. SubSeq(t, 1, n) = t
  <2>1. \A j \in 1..Len(t) : t[1 + j - 1] = t[j]
    OBVIOUS
  <2>2. n = 1 + Len(t) - 1 /\ n =< Len(t) /\ 1 \in Nat \ {0}
    BY <1>1
  <2> QED
    BY <2>1, <2>2, CutOut
<1> QED
  BY <1>7, <1>8

\* Quotes around a text: how it looks, and that they come off again.
LEMMA QuotesComeOff ==
  ASSUME NEW S, EnvironmentRow!Quote \in S, NEW t \in Seq(S),
         NEW w, w = <<EnvironmentRow!Quote>> \o t \o <<EnvironmentRow!Quote>>
  PROVE  /\ w \in Seq(S) /\ Len(w) = Len(t) + 2
         /\ w[1] = EnvironmentRow!Quote /\ w[Len(w)] = EnvironmentRow!Quote
         /\ EnvironmentRow!StripOuterQuotes(w) = t
<1>1. PICK q \in S : q = EnvironmentRow!Quote
  OBVIOUS
<1>2. PICK u \in Seq(S) : u = <<q>>
  <2>1. <<q>> \in Seq(S)
    OBVIOUS
  <2> QED
    BY <2>1
<1>3. Len(u) = 1 /\ u[1] = q
  BY <1>2
<1>4. PICK v \in Seq(S) : v = u \o t
  BY ConcatProperties
<1>5. Len(v) = Len(t) + 1 /\ v[1] = q /\ \A j \in 1..Len(t) : v[j + 1] = t[j]
  <2>1. Len(v) = Len(u) + Len(t)
        /\ \A i \in 1..(Len(u) + Len(t)) : v[i] = IF i =< Len(u) THEN u[i] ELSE t[i - Len(u)]
    BY <1>4, ConcatProperties
  <2> QED
    BY <1>3, <2>1
<1>6. w = v \o u
  BY <1>1, <1>2, <1>4
<1>7. w \in Seq(S) /\ Len(w) = Len(v) + Len(u)
      /\ \A i \in 1..(Len(v) + Len(u)) : w[i] = IF i =< Len(v) THEN v[i] ELSE u[i - Len(v)]
  BY <1>6, ConcatProperties
<1>8. PICK l \in Nat : l = Len(t)
  OBVIOUS
<1>9. Len(w) = l + 2 /\ w[1] = q /\ w[l + 2] = q /\ \A j \in 1..l : w[j + 1] = t[j]
  BY <1>3, <1>5, <1>7, <1>8
<1>10. SubSeq(w, 2, l + 1) = t
  <2>1. \A j \in 1..Len(t) : w[2 + j - 1] = t[j]
    BY <1>8, <1>9
  <2>2. l + 1 = 2 + Len(t) - 1 /\ l + 1 =< Len(w) /\ 2 \in Nat \ {0} /\ l + 1 \in Nat
    BY <1>8, <1>9
  <2> QED
    BY <1>7, <2>1, <2>2, CutOut
<1>11. EnvironmentRow!StripOuterQuotes(w) = SubSeq(w, 2, l + 1)
  <2>1. Len(w) >= 2 /\ w[1] = EnvironmentRow!Quote /\ w[Len(w)] = EnvironmentRow!Quote
        /\ Len(w) - 1 = l + 1
    BY <1>1, <1>8, <1>9
  <2> QED
    BY <2>1 DEF EnvironmentRow!StripOuterQuotes
<1> QED
  BY <1>1, <1>7, <1>8, <1>9, <1>10, <1>11

-----------------------------------------------------------------------------
(* The environment profile: its invariant.                                 *)

\* What was found, and what of it is written and read.
FoundHolds ==
  /\ found \in [DOMAIN Columns -> FieldTexts \cup {EnvironmentRow!Number}]
  /\ \A i \in DOMAIN Columns : Columns[i] = "number" => found[i] = EnvironmentRow!Number

\* What was read is what was written, split.
FieldsHold ==
  \/ fields = EnvironmentRow!Missing /\ (row = EnvironmentRow!NoRow
                                        \/ Len(EnvironmentRow!SplitCsv(row)) < Len(Columns))
  \/ /\ fields = EnvironmentRow!SplitCsv(row) /\ row # EnvironmentRow!NoRow
     /\ Len(EnvironmentRow!SplitCsv(row)) >= Len(Columns)

\* The invariant of the environment profile.
EnvironmentInv ==
  /\ FoundHolds
  /\ stage \in {"profile", "summarize", "done"} /\ saved \in {"pending", "ok", "failed"}
  /\ row \in {EnvironmentRow!NoRow, EnvironmentRow!Row}
  /\ stage = "profile" => row = EnvironmentRow!NoRow /\ saved = "pending"
  /\ saved = "ok" => row = EnvironmentRow!Row
  /\ IF stage = "done" THEN FieldsHold ELSE fields = EnvironmentRow!Missing

\* What the constants of the environment profile are.
LEMMA EnvironmentConstants ==
  /\ Columns \in Seq({"text", "number"}) /\ FieldTexts \subseteq Seq(STRING)
  /\ MaxFields \in Nat /\ Len(Columns) =< MaxFields
BY EnvironmentInstance DEF EnvironmentRow!EnvironmentAssumption

\* A column as it is written, and as it is read back.
LEMMA ColumnIsReadBack ==
  ASSUME FoundHolds, NEW i \in DOMAIN Columns
  PROVE  /\ EnvironmentRow!Column(i) \in Seq(Chars) /\ Len(EnvironmentRow!Column(i)) # 0
         /\ ~ EnvironmentRow!Has(found[i], EnvironmentRow!Comma) =>
              \A j \in 1..Len(EnvironmentRow!Column(i)) :
                EnvironmentRow!Column(i)[j] # EnvironmentRow!Comma
         /\ EnvironmentRow!StripOuterQuotes(EnvironmentRow!TrimSpaces(EnvironmentRow!Column(i))) =
              IF EnvironmentRow!Has(found[i], EnvironmentRow!Quote)
              THEN EnvironmentRow!DoubleQuotes(found[i]) ELSE found[i]
<1>1. PICK t : t = found[i]
  OBVIOUS
<1>2. PICK x \in Chars : /\ EnvironmentRow!Number = <<x>> /\ x # EnvironmentRow!Comma
                        /\ x # EnvironmentRow!Quote /\ x # EnvironmentRow!Space
  BY CharactersDiffer
<1>3. t \in Seq(Chars)
  <2>1. <<x>> \in Seq(Chars)
    OBVIOUS
  <2>2. FieldTexts \subseteq Seq(Chars)
    <3>1. STRING \subseteq Chars
      BY DEF Chars
    <3>2. \A s \in Seq(STRING) : s \in Seq(Chars)
      BY <3>1, SeqOfMore
    <3> QED
      BY <3>2, EnvironmentConstants
  <2> QED
    BY <1>1, <1>2, <2>1, <2>2 DEF FoundHolds
<1>4. EnvironmentRow!Quote \in Chars
  BY DEF Chars
<1>5. CASE Columns[i] = "text"
  <2>1. PICK d \in Seq(Chars) : d = EnvironmentRow!DoubleQuotes(t)
    BY <1>3, <1>4, Doubled
  <2>2. PICK w : w = <<EnvironmentRow!Quote>> \o d \o <<EnvironmentRow!Quote>>
    OBVIOUS
  <2>3. EnvironmentRow!Column(i) = w
    BY <1>1, <1>5, <2>1, <2>2 DEF EnvironmentRow!Column, EnvironmentRow!WriteField
  <2>4. /\ w \in Seq(Chars) /\ Len(w) = Len(d) + 2
        /\ w[1] = EnvironmentRow!Quote /\ w[Len(w)] = EnvironmentRow!Quote
        /\ EnvironmentRow!StripOuterQuotes(w) = d
    BY <1>4, <2>2, QuotesComeOff
  <2>5. Len(w) # 0
    BY <2>4
  <2>6. EnvironmentRow!TrimSpaces(w) = w
    BY <2>4, <2>5, NotTrimmed, CharactersDiffer
  <2>7. ASSUME ~ EnvironmentRow!Has(t, EnvironmentRow!Comma), NEW j \in 1..Len(w)
        PROVE  w[j] # EnvironmentRow!Comma
    <3>1. PICK P : P = Chars \ {EnvironmentRow!Comma}
      OBVIOUS
    <3>2. EnvironmentRow!Quote \in P
      BY <1>4, <3>1, CharactersDiffer
    <3>3. t \in Seq(P)
      <4>1. \A k \in 1..Len(t) : t[k] \in P
        BY <1>3, <2>7, <3>1 DEF EnvironmentRow!Has
      <4> QED
        BY <1>3, <4>1
    <3>4. d \in Seq(P)
      BY <2>1, <3>2, <3>3, Doubled
    <3>5. w \in Seq(P)
      BY <2>2, <3>2, <3>4, QuotesComeOff
    <3> QED
      BY <3>1, <3>5
  <2>8. ~ EnvironmentRow!Has(t, EnvironmentRow!Quote) => d = t
    BY <1>3, <1>4, <2>1, Doubled DEF EnvironmentRow!Has
  <2> QED
    BY <1>1, <2>1, <2>3, <2>4, <2>5, <2>6, <2>7, <2>8
<1>6. CASE Columns[i] # "text"
  <2>1. Columns[i] = "number"
    BY <1>6, EnvironmentConstants
  <2>2. t = <<x>>
    BY <1>1, <1>2, <2>1 DEF FoundHolds
  <2>3. EnvironmentRow!Column(i) = t
    BY <1>1, <1>6 DEF EnvironmentRow!Column
  <2>4. Len(t) = 1 /\ t[1] = x /\ DOMAIN t = 1..1
    BY <2>2
  <2>5. ~ EnvironmentRow!Has(t, EnvironmentRow!Quote) /\ \A j \in 1..Len(t) : t[j] # EnvironmentRow!Comma
    BY <1>2, <2>4 DEF EnvironmentRow!Has
  <2>6. EnvironmentRow!TrimSpaces(t) = t
    BY <1>2, <1>3, <2>4, NotTrimmed
  <2>7. EnvironmentRow!StripOuterQuotes(t) = t
    BY <2>4 DEF EnvironmentRow!StripOuterQuotes
  <2> QED
    BY <1>1, <1>3, <2>3, <2>4, <2>5, <2>6, <2>7
<1> QED
  BY <1>5, <1>6

\* A line is split into a sequence of fields, no more than the reader takes.
LEMMA SplitIsSeq ==
  ASSUME NEW S, NEW line \in Seq(S)
  PROVE  \E m \in 0..MaxFields : /\ DOMAIN EnvironmentRow!SplitCsv(line) = 1..m
                                /\ Len(EnvironmentRow!SplitCsv(line)) = m
                                /\ \A k \in 1..MaxFields :
                                     k =< m <=> EnvironmentRow!Begin(line)[k] =< Len(line)
<1>1. PICK used : used = {k \in 1..MaxFields : EnvironmentRow!Begin(line)[k] =< Len(line)}
  OBVIOUS
<1>2. ASSUME NEW k \in used, k # 1 PROVE k - 1 \in used
  <2>1. k \in 2..MaxFields /\ k - 1 \in 1..MaxFields /\ MaxFields # 0
    BY <1>1, <1>2, EnvironmentConstants
  <2>2. PICK begin \in [1..MaxFields -> Nat \ {0}] : begin = EnvironmentRow!Begin(line)
    BY <2>1, BeginsBehindCommas
  <2>3. begin[k] = EnvironmentRow!CommaFrom(line, begin[k - 1]) + 1
    BY <2>1, <2>2, BeginsBehindCommas
  <2>4. PICK b \in Nat \ {0} : b = begin[k - 1]
    BY <2>1, <2>2
  <2>5. PICK c \in Nat : c = EnvironmentRow!CommaFrom(line, b)
    BY NextComma
  <2>6. c = Len(line) + 1 \/ c >= b
    BY <2>5, NextComma
  <2>7. c + 1 =< Len(line)
    BY <1>1, <2>2, <2>3, <2>4, <2>5
  <2>8. b =< Len(line)
    BY <2>6, <2>7
  <2> QED
    BY <1>1, <2>1, <2>2, <2>4, <2>8
<1>3. PICK m \in 0..MaxFields : used = 1..m
  <2>1. PICK T : T = {j \in 0..MaxFields : j + 1 \notin used}
    OBVIOUS
  <2>2. T \in SUBSET Nat /\ T # {}
    <3>1. MaxFields \in 0..MaxFields /\ MaxFields + 1 \notin used
      BY <1>1, EnvironmentConstants
    <3> QED
      BY <2>1, <3>1
  <2>3. PICK m \in T : \A j \in T : m =< j
    BY <2>2, LeastNumber
  <2>4. m \in 0..MaxFields /\ m + 1 \notin used
    BY <2>1, <2>3
  <2>5. ASSUME NEW k \in 1..m PROVE k \in used
    <3>1. k - 1 \in 0..MaxFields /\ ~ (m =< k - 1) /\ (k - 1) + 1 = k
      BY <2>4, EnvironmentConstants
    <3> QED
      BY <2>1, <2>3, <3>1
  <2>6. ASSUME NEW k \in used, k > m PROVE FALSE
    <3>1. PICK U : U = {j \in used : j > m}
      OBVIOUS
    <3>2. U \in SUBSET Nat /\ U # {}
      BY <1>1, <2>6, <3>1
    <3>3. PICK l \in U : \A j \in U : l =< j
      BY <3>2, LeastNumber
    <3>4. l \in used /\ l > m /\ l \in Nat /\ l # m + 1
      BY <2>4, <3>1, <3>2, <3>3
    <3>5. l # 1 /\ l - 1 > m /\ l - 1 \in Nat
      BY <2>4, <3>4
    <3>6. l - 1 \in used
      BY <1>2, <3>4, <3>5
    <3>7. l =< l - 1
      BY <3>1, <3>3, <3>5, <3>6
    <3> QED
      BY <3>4, <3>7
  <2>7. used \subseteq Nat
    BY <1>1
  <2>8. used = 1..m
    <3>1. ASSUME NEW k \in used PROVE k \in 1..m
      BY <1>1, <2>4, <2>6, <2>7, <3>1
    <3> QED
      BY <2>5, <3>1
  <2> QED
    BY <2>4, <2>8
<1>4. DOMAIN EnvironmentRow!SplitCsv(line) = 1..m
  <2>1. DOMAIN EnvironmentRow!Pieces(line) = used
    BY <1>1 DEF EnvironmentRow!Pieces
  <2> QED
    BY <1>3, <2>1 DEF EnvironmentRow!SplitCsv
<1>5. Len(EnvironmentRow!SplitCsv(line)) = m
  <2>1. PICK split : split = EnvironmentRow!SplitCsv(line)
    OBVIOUS
  <2>2. split = [k \in 1..m |-> split[k]]
    BY <1>4, <2>1 DEF EnvironmentRow!SplitCsv
  <2>3. m \in Nat
    OBVIOUS
  <2> QED
    BY <2>1, <2>2, <2>3
<1>6. \A k \in 1..MaxFields : k =< m <=> EnvironmentRow!Begin(line)[k] =< Len(line)
  BY <1>1, <1>3, EnvironmentConstants
<1> QED
  BY <1>4, <1>5, <1>6

\* The row is read back: all of its columns, and up to the first text with a
\* comma as they were.
LEMMA RowIsRead ==
  ASSUME FoundHolds, Len(Columns) # 0
  PROVE  /\ EnvironmentRow!Row \in Seq(Chars) /\ EnvironmentRow!Row # EnvironmentRow!NoRow
         /\ Len(EnvironmentRow!SplitCsv(EnvironmentRow!Row)) >= Len(Columns)
         /\ \A k \in DOMAIN Columns :
              (\A i \in 1..k : ~ EnvironmentRow!Has(found[i], EnvironmentRow!Comma)) =>
                EnvironmentRow!SplitCsv(EnvironmentRow!Row)[k] =
                  IF EnvironmentRow!Has(found[k], EnvironmentRow!Quote)
                  THEN EnvironmentRow!DoubleQuotes(found[k]) ELSE found[k]
<1>1. PICK n \in Nat \ {0} : n = Len(Columns)
  BY EnvironmentConstants
<1>2. DOMAIN Columns = 1..n /\ n =< MaxFields /\ MaxFields \in Nat
  BY <1>1, EnvironmentConstants
<1>3. PICK cols \in [1..n -> Seq(Chars)] : cols = [i \in 1..n |-> EnvironmentRow!Column(i)]
  BY <1>2, ColumnIsReadBack
<1>4. \A i \in 1..n : cols[i] = EnvironmentRow!Column(i) /\ Len(cols[i]) # 0
  BY <1>2, <1>3, ColumnIsReadBack
<1>5. PICK ss : ss = [i \in 1..n |-> IF i = 1 THEN cols[i] ELSE <<EnvironmentRow!Comma>> \o cols[i]]
  OBVIOUS
<1>6. EnvironmentRow!Row = EnvironmentRow!FlattenSeq(ss)
  <2>1. ss = [i \in DOMAIN Columns |-> IF i = 1 THEN EnvironmentRow!Column(i)
                                      ELSE <<EnvironmentRow!Comma>> \o EnvironmentRow!Column(i)]
    BY <1>2, <1>4, <1>5
  <2> QED
    BY <2>1 DEF EnvironmentRow!Row
<1>7. EnvironmentRow!Comma \in Chars
  BY DEF Chars
<1>8. PICK line \in Seq(Chars) : /\ line = EnvironmentRow!Row
                                /\ \E s : IsLaid(line, cols, EnvironmentRow!Comma, s, n)
  BY <1>5, <1>6, <1>7, RowIsLaid
<1>9. PICK s : IsLaid(line, cols, EnvironmentRow!Comma, s, n)
  BY <1>8
<1>10. \A k \in 1..n :
         /\ EnvironmentRow!Begin(line)[k] =< Len(line)
         /\ (\A i \in 1..k : \A j \in 1..Len(cols[i]) : cols[i][j] # EnvironmentRow!Comma)
            => EnvironmentRow!Pieces(line)[k] = cols[k]
  <2>1. \A k \in 1..n : Len(cols[k]) # 0
    BY <1>4
  <2>2. \A k \in 1..n : CutAt(line, cols, k)
    BY <1>2, <1>9, <2>1, RowInPieces
  <2> QED
    BY <2>2 DEF CutAt
<1>11. PICK m \in 0..MaxFields :
         /\ DOMAIN EnvironmentRow!SplitCsv(line) = 1..m /\ Len(EnvironmentRow!SplitCsv(line)) = m
         /\ \A k \in 1..MaxFields : k =< m <=> EnvironmentRow!Begin(line)[k] =< Len(line)
  BY SplitIsSeq
<1>12. m >= n
  <2>1. n \in 1..n /\ n \in 1..MaxFields
    BY <1>2
  <2> QED
    BY <1>10, <1>11, <2>1
<1>13. line # <<>>
  <2>1. 1 =< m
    BY <1>12
  <2>2. EnvironmentRow!Begin(line)[1] =< Len(line) /\ EnvironmentRow!Begin(line)[1] = 1
    <3>1. MaxFields # 0 /\ 1 \in 1..MaxFields
      BY <1>2
    <3> QED
      BY <1>11, <2>1, <3>1, BeginsBehindCommas
  <2> QED
    BY <2>2
<1>14. ASSUME NEW k \in 1..n, \A i \in 1..k : ~ EnvironmentRow!Has(found[i], EnvironmentRow!Comma)
       PROVE  EnvironmentRow!SplitCsv(line)[k] =
                IF EnvironmentRow!Has(found[k], EnvironmentRow!Quote)
                THEN EnvironmentRow!DoubleQuotes(found[k]) ELSE found[k]
  <2>1. ASSUME NEW i \in 1..k, NEW j \in 1..Len(cols[i]) PROVE cols[i][j] # EnvironmentRow!Comma
    <3>1. i \in 1..n
      OBVIOUS
    <3>2. cols[i] = EnvironmentRow!Column(i)
      BY <1>4, <3>1
    <3> QED
      BY <1>2, <1>14, <2>1, <3>1, <3>2, ColumnIsReadBack
  <2>2. EnvironmentRow!Pieces(line)[k] = EnvironmentRow!Column(k)
    BY <1>4, <1>10, <2>1
  <2>3. k \in 1..m
    BY <1>12
  <2>4. EnvironmentRow!SplitCsv(line)[k] =
          EnvironmentRow!StripOuterQuotes(EnvironmentRow!TrimSpaces(EnvironmentRow!Pieces(line)[k]))
    <3>1. DOMAIN EnvironmentRow!Pieces(line) = DOMAIN EnvironmentRow!SplitCsv(line)
      BY DEF EnvironmentRow!SplitCsv
    <3> QED
      BY <1>11, <2>3, <3>1 DEF EnvironmentRow!SplitCsv
  <2> QED
    BY <1>2, <2>2, <2>4, ColumnIsReadBack
<1> QED
  BY <1>1, <1>2, <1>8, <1>11, <1>12, <1>13, <1>14 DEF EnvironmentRow!NoRow

\* At the start nothing is written or read.
LEMMA ProfileStarts == EnvironmentRow!Init => EnvironmentInv
<1> SUFFICES ASSUME EnvironmentRow!Init PROVE EnvironmentInv
  OBVIOUS
<1>1. FoundHolds
  BY DEF EnvironmentRow!Init, FoundHolds
<1> QED
  BY <1>1 DEF EnvironmentRow!Init, EnvironmentInv

\* Writing and reading keep the invariant.
LEMMA EnvironmentStep ==
  ASSUME EnvironmentInv, EnvironmentRow!Next PROVE EnvironmentInv'
<1>1. found' = found /\ FoundHolds'
  BY DEF EnvironmentInv, FoundHolds, EnvironmentRow!Next, EnvironmentRow!SaveCsvReport,
         EnvironmentRow!SummarizeEnvironment
<1>2. EnvironmentRow!Row' = EnvironmentRow!Row
  BY <1>1 DEF EnvironmentRow!Row, EnvironmentRow!Column
<1>3. CASE EnvironmentRow!SaveCsvReport
  BY <1>1, <1>2, <1>3 DEF EnvironmentRow!SaveCsvReport, EnvironmentInv
<1>4. CASE EnvironmentRow!SummarizeEnvironment
  <2>1. stage = "summarize" /\ stage' = "done" /\ saved' = saved /\ row' = row
        /\ fields' = IF row = EnvironmentRow!NoRow \/ Len(EnvironmentRow!SplitCsv(row)) < Len(Columns)
                     THEN EnvironmentRow!Missing ELSE EnvironmentRow!SplitCsv(row)
    BY <1>4 DEF EnvironmentRow!SummarizeEnvironment
  <2>2. FieldsHold'
    <3>1. CASE row = EnvironmentRow!NoRow \/ Len(EnvironmentRow!SplitCsv(row)) < Len(Columns)
      BY <2>1, <3>1 DEF FieldsHold
    <3>2. CASE ~ (row = EnvironmentRow!NoRow \/ Len(EnvironmentRow!SplitCsv(row)) < Len(Columns))
      <4>1. Len(EnvironmentRow!SplitCsv(row)) >= Len(Columns)
        <5>1. row = EnvironmentRow!Row /\ FoundHolds
          BY <3>2 DEF EnvironmentInv
        <5>2. CASE Len(Columns) # 0
          BY <5>1, <5>2, RowIsRead
        <5>3. CASE Len(Columns) = 0
          <6>1. EnvironmentRow!Row = <<>>
            BY <5>3, EnvironmentConstants DEF EnvironmentRow!Row, EnvironmentRow!FlattenSeq
          <6> QED
            BY <3>2, <5>1, <6>1 DEF EnvironmentRow!NoRow
        <5> QED
          BY <5>2, <5>3
      <4> QED
        BY <2>1, <3>2, <4>1 DEF FieldsHold
    <3> QED
      BY <3>1, <3>2
  <2> QED
    BY <1>1, <1>2, <2>1, <2>2 DEF EnvironmentInv
<1> QED
  BY <1>3, <1>4 DEF EnvironmentRow!Next

\* The invariant is what RowIsReadBack needs.
LEMMA EnvironmentInvIsReadBack == EnvironmentInv => EnvironmentRow!RowIsReadBack
<1> SUFFICES ASSUME EnvironmentInv PROVE EnvironmentRow!RowIsReadBack
  OBVIOUS
<1>1. FoundHolds /\ DOMAIN found = DOMAIN Columns
  BY DEF EnvironmentInv, FoundHolds
<1>2. Len(fields) =< MaxFields
  <2>1. CASE fields = EnvironmentRow!Missing
    BY <2>1, EnvironmentConstants DEF EnvironmentRow!Missing
  <2>2. CASE fields # EnvironmentRow!Missing
    <3>1. row = EnvironmentRow!Row /\ fields = EnvironmentRow!SplitCsv(row) /\ row # EnvironmentRow!NoRow
      BY <2>2 DEF EnvironmentInv, FieldsHold
    <3>2. CASE Len(Columns) # 0
      <4>1. row \in Seq(Chars)
        BY <1>1, <3>1, <3>2, RowIsRead
      <4> QED
        BY <3>1, <4>1, SplitIsSeq, EnvironmentConstants
    <3>3. CASE Len(Columns) = 0
      <4>1. EnvironmentRow!Row = <<>>
        BY <3>3, EnvironmentConstants DEF EnvironmentRow!Row, EnvironmentRow!FlattenSeq
      <4> QED
        BY <3>1, <4>1 DEF EnvironmentRow!NoRow
    <3> QED
      BY <3>2, <3>3
  <2> QED
    BY <2>1, <2>2
<1>3. EnvironmentRow!TypeOK
  BY <1>1, <1>2 DEF EnvironmentInv, EnvironmentRow!TypeOK
<1>4. ASSUME stage = "done", saved = "ok", NEW i \in DOMAIN Columns,
             \A j \in 1..i : ~ EnvironmentRow!Has(found[j], EnvironmentRow!Comma)
      PROVE  /\ fields # EnvironmentRow!Missing
             /\ fields[i] = IF EnvironmentRow!Has(found[i], EnvironmentRow!Quote)
                            THEN EnvironmentRow!DoubleQuotes(found[i]) ELSE found[i]
  <2>1. Len(Columns) # 0 /\ Len(Columns) \in Nat
    BY <1>4, EnvironmentConstants
  <2>2. row = EnvironmentRow!Row /\ FieldsHold
    BY <1>4 DEF EnvironmentInv
  <2>3. /\ row \in Seq(Chars) /\ row # EnvironmentRow!NoRow
        /\ Len(EnvironmentRow!SplitCsv(row)) >= Len(Columns)
        /\ EnvironmentRow!SplitCsv(row)[i] =
             IF EnvironmentRow!Has(found[i], EnvironmentRow!Quote)
             THEN EnvironmentRow!DoubleQuotes(found[i]) ELSE found[i]
    BY <1>1, <1>4, <2>1, <2>2, RowIsRead
  <2>4. PICK m \in Nat : m = Len(EnvironmentRow!SplitCsv(row))
    BY <2>3, SplitIsSeq, EnvironmentConstants
  <2>5. m # 0 /\ ~ (m < Len(Columns))
    BY <2>1, <2>3, <2>4
  <2>6. fields = EnvironmentRow!SplitCsv(row)
    BY <2>2, <2>3, <2>4, <2>5 DEF FieldsHold
  <2>7. EnvironmentRow!SplitCsv(row) # <<>>
    BY <2>4, <2>5
  <2> QED
    BY <2>3, <2>6, <2>7 DEF EnvironmentRow!Missing
<1> QED
  BY <1>3, <1>4 DEF EnvironmentRow!RowIsReadBack

-----------------------------------------------------------------------------
(* The sweeps of optimize-chunk: their invariant.                          *)

USE DEF Sweep!Chunk, Sweep!Method, Sweep!At, Sweep!Goto, Sweep!TmpName

\* Every row of chunk size c has been read back from a file for it.
RowDone(p, c) ==
  \A m \in 1..MethodCount :
    rows[p][c][m].chunk = c /\ rows[p][c][m].method = m /\ rows[p][c][m].ms \in Latencies

\* The chunk size marked for method m is the first with the lowest median.
IsBest(p, m) ==
  /\ best[p][m] \in 1..ChunkCount
  /\ \A c \in 1..ChunkCount :
       /\ rows[p][best[p][m]][m].ms =< rows[p][c][m].ms
       /\ c < best[p][m] => rows[p][best[p][m]][m].ms < rows[p][c][m].ms

\* What sweep p has at each place.
SweepHolds(p) ==
  /\ \A m \in 1..buffers[p] : medians[p][m] \in Latencies
  /\ sweeping[p] = "close" => buffers[p] = MethodCount
  /\ sweeping[p] \in {"suite", "close", "parse", "unlink"} =>
       \A c \in 1..ChunkCount : c < chunk[p] => RowDone(p, c)
  /\ sweeping[p] = "unlink" => RowDone(p, chunk[p])
  /\ sweeping[p] \in {"best", "detail", "summary", "ok"} \/ published[p] # {} =>
       \A c \in 1..ChunkCount : RowDone(p, c)
  /\ sweeping[p] \in {"detail", "summary", "ok"} \/ published[p] # {} =>
       \A m \in 1..MethodCount : IsBest(p, m)
  /\ sweeping[p] \in {"suite", "close", "parse", "unlink", "best"} => published[p] = {}

\* A file holds a measurement of every method with the chunk size it is named after.
TmpHolds ==
  \A c \in 1..ChunkCount : tmp[c].state = "full" =>
    tmp[c].chunk = c /\ tmp[c].ms \in [1..MethodCount -> Latencies]

\* Somebody is about to unlink the file, or has not got to it.
Broken == {"failed", "crashed", "killed"}

\* A file has a sweep that will unlink it, or that broke off.
TmpIsOwned ==
  \A c \in 1..ChunkCount : tmp[c].state # "absent" =>
    \E p \in Sweeps : \/ sweeping[p] \in Broken
                      \/ chunk[p] = c /\ sweeping[p] \in {"close", "parse", "unlink"}

\* The invariant of the sweeps.
SweepInv == Sweep!TypeOK /\ TmpHolds /\ TmpIsOwned /\ \A p \in Sweeps : SweepHolds(p)

\* What the constants of the sweeps are.
LEMMA SweepConstants ==
  /\ ChunkCount \in Nat \ {0} /\ MethodCount \in Nat \ {0} /\ Latencies \subseteq Nat \ {0}
BY SweepInstance DEF Sweep!SweepAssumption

\* At the start there is no file and no sweep has a row.
LEMMA SweepStarts == Sweep!Init => SweepInv
<1> SUFFICES ASSUME Sweep!Init PROVE SweepInv
  OBVIOUS
<1> USE SweepConstants DEF Sweep!Init
<1>1. Sweep!NoFile \in Sweep!Files /\ Sweep!NoFile.state = "absent"
  BY DEF Sweep!NoFile, Sweep!Files
<1>2. Sweep!Zero \in Sweep!RowSet
  BY DEF Sweep!Zero, Sweep!RowSet
<1>3. Sweep!TypeOK
  BY <1>1, <1>2 DEF Sweep!TypeOK
<1>4. TmpHolds /\ TmpIsOwned
  BY <1>1 DEF TmpHolds, TmpIsOwned
<1>5. \A p \in Sweeps : SweepHolds(p)
  BY DEF SweepHolds
<1> QED
  BY <1>3, <1>4, <1>5 DEF SweepInv

\* A step of sweep p leaves the others as they are; only p's links to them may go.
LEMMA SweepOthers ==
  ASSUME SweepInv, NEW p \in Sweeps,
         \A q \in Sweeps \ {p} :
           /\ sweeping'[q] = sweeping[q] /\ chunk'[q] = chunk[q] /\ buffers'[q] = buffers[q]
           /\ medians'[q] = medians[q] /\ rows'[q] = rows[q] /\ best'[q] = best[q]
           /\ published'[q] = published[q],
         SweepHolds(p)', Sweep!TypeOK', TmpHolds', TmpIsOwned'
  PROVE  SweepInv'
<1>1. ASSUME NEW q \in Sweeps PROVE SweepHolds(q)'
  <2>1. CASE q = p
    BY <2>1
  <2>2. CASE q # p
    <3>1. /\ sweeping'[q] = sweeping[q] /\ chunk'[q] = chunk[q] /\ buffers'[q] = buffers[q]
          /\ medians'[q] = medians[q] /\ rows'[q] = rows[q] /\ best'[q] = best[q]
          /\ published'[q] = published[q] /\ SweepHolds(q)
      BY <2>2 DEF SweepInv
    <3> QED
      BY <3>1 DEF SweepHolds, RowDone, IsBest
  <2> QED
    BY <2>1, <2>2
<1> QED
  BY <1>1 DEF SweepInv

\* A step that leaves the files and only moves p, from where it owns no file
\* or to where it has given up.
LEMMA SweepMoves ==
  ASSUME SweepInv, NEW p \in Sweeps, NEW place, sweeping' = [sweeping EXCEPT ![p] = place],
         place \in {"failed", "crashed", "killed", "best", "detail", "summary", "ok"},
         sweeping[p] \notin Broken, sweeping[p] \in {"close", "parse", "unlink"} => place \in Broken,
         UNCHANGED <<chunk, buffers, medians, linked, rows, tmp>>,
         best' \in [Sweeps -> [1..MethodCount -> 0..ChunkCount]],
         published' \in [Sweeps -> SUBSET {"detail", "summary"}],
         \A q \in Sweeps \ {p} : best'[q] = best[q] /\ published'[q] = published[q],
         SweepHolds(p)'
  PROVE  SweepInv'
<1> USE DEF SweepInv
<1>1. sweeping'[p] = place /\ \A q \in Sweeps \ {p} : sweeping'[q] = sweeping[q]
  BY DEF Sweep!TypeOK
<1>2. Sweep!TypeOK'
  BY DEF Sweep!TypeOK, Sweep!Ended
<1>3. TmpHolds'
  BY DEF TmpHolds
<1>4. TmpIsOwned'
  <2> SUFFICES ASSUME NEW c \in 1..ChunkCount, tmp[c].state # "absent"
               PROVE  \E q \in Sweeps : \/ sweeping'[q] \in Broken
                                        \/ chunk'[q] = c /\ sweeping'[q] \in {"close", "parse", "unlink"}
    BY DEF TmpIsOwned
  <2>1. PICK q \in Sweeps : \/ sweeping[q] \in Broken
                            \/ chunk[q] = c /\ sweeping[q] \in {"close", "parse", "unlink"}
    BY DEF TmpIsOwned
  <2>2. CASE q # p
    BY <1>1, <2>1, <2>2
  <2>3. CASE q = p
    BY <1>1, <2>1, <2>3
  <2> QED
    BY <2>2, <2>3
<1> QED
  BY <1>1, <1>2, <1>3, <1>4, SweepOthers

\* It fails, crashes or is killed, and what it has published stays.
LEMMA SweepBreaks ==
  ASSUME SweepInv, NEW p \in Sweeps, NEW place \in Broken, sweeping' = [sweeping EXCEPT ![p] = place],
         sweeping[p] \notin Broken, UNCHANGED <<chunk, buffers, medians, linked, rows, best, published, tmp>>
  PROVE  SweepInv'
<1>1. sweeping'[p] = place /\ SweepHolds(p)
  BY DEF SweepInv, Sweep!TypeOK
<1>2. SweepHolds(p)'
  BY <1>1 DEF SweepHolds, RowDone, IsBest, Broken
<1>3. best' \in [Sweeps -> [1..MethodCount -> 0..ChunkCount]]
      /\ published' \in [Sweeps -> SUBSET {"detail", "summary"}]
  BY DEF SweepInv, Sweep!TypeOK
<1> QED
  BY <1>2, <1>3, SweepMoves DEF Broken

\* One more method is measured, or the sweep fails.
LEMMA SweepMeasures ==
  ASSUME SweepInv, NEW p \in Sweeps, Sweep!RunMethod(p) PROVE SweepInv'
<1> USE DEF SweepInv
<1>1. UNCHANGED <<chunk, linked, rows, best, published, tmp>> /\ sweeping[p] = "suite"
      /\ buffers[p] < MethodCount
  BY DEF Sweep!RunMethod
<1>2. CASE /\ \E ms \in Latencies : medians' = [medians EXCEPT ![p][buffers[p] + 1] = ms]
           /\ buffers' = [buffers EXCEPT ![p] = @ + 1]
           /\ UNCHANGED sweeping
  <2>1. PICK ms \in Latencies : medians' = [medians EXCEPT ![p][buffers[p] + 1] = ms]
    BY <1>2
  <2>2. PICK k \in 0..MethodCount : k = buffers[p]
    BY DEF Sweep!TypeOK
  <2>3. k + 1 \in 1..MethodCount /\ k + 1 \in 0..MethodCount
    BY <1>1, <2>2, SweepConstants
  <2>4. PICK old \in [1..MethodCount -> Latencies \cup {0}] : old = medians[p]
    BY DEF Sweep!TypeOK
  <2>5. PICK new : new = [old EXCEPT ![k + 1] = ms]
    OBVIOUS
  <2>6. medians' = [medians EXCEPT ![p] = new] /\ buffers' = [buffers EXCEPT ![p] = k + 1]
    BY <1>2, <2>1, <2>2, <2>4, <2>5
  <2>7. new \in [1..MethodCount -> Latencies \cup {0}]
    BY <2>3, <2>4, <2>5
  <2>8. /\ medians'[p] = new /\ buffers'[p] = k + 1
        /\ \A q \in Sweeps \ {p} : medians'[q] = medians[q] /\ buffers'[q] = buffers[q]
    BY <2>6 DEF Sweep!TypeOK
  <2>9. Sweep!TypeOK'
    BY <1>1, <1>2, <2>3, <2>6, <2>7 DEF Sweep!TypeOK
  <2>10. \A m \in 1..(k + 1) : new[m] \in Latencies
    <3>1. \A m \in 1..k : old[m] \in Latencies
      BY <2>2, <2>4 DEF SweepHolds
    <3>2. ASSUME NEW m \in 1..(k + 1) PROVE new[m] \in Latencies
      <4>1. CASE m = k + 1
        BY <2>3, <2>4, <2>5, <4>1
      <4>2. CASE m # k + 1
        <5>1. m \in 1..k /\ m \in 1..MethodCount
          BY <2>2, <2>3, <4>2, SweepConstants
        <5> QED
          BY <2>4, <2>5, <3>1, <4>2, <5>1
      <4> QED
        BY <4>1, <4>2
    <3> QED
      BY <3>2
  <2>11. SweepHolds(p)'
    <3>1. \A m \in 1..buffers'[p] : medians'[p][m] \in Latencies
      BY <2>8, <2>10
    <3>2. /\ sweeping' = sweeping /\ chunk' = chunk /\ rows' = rows /\ best' = best
          /\ published' = published /\ SweepHolds(p) /\ sweeping[p] = "suite"
      BY <1>1, <1>2
    <3> HIDE DEF SweepInv
    <3> QED
      BY <3>1, <3>2 DEF SweepHolds, RowDone, IsBest
  <2>12. TmpHolds' /\ TmpIsOwned'
    BY <1>1, <1>2 DEF TmpHolds, TmpIsOwned
  <2> QED
    BY <1>1, <1>2, <2>8, <2>9, <2>11, <2>12, SweepOthers
<1>3. CASE \E place \in {"failed", "crashed"} : Sweep!Goto(p, place) /\ UNCHANGED <<buffers, medians>>
  BY <1>1, <1>3, SweepBreaks DEF Broken
<1> QED
  BY <1>2, <1>3 DEF Sweep!RunMethod

\* Opening the file empties it, whoever has it.
LEMMA SweepOpens ==
  ASSUME SweepInv, NEW p \in Sweeps, Sweep!OpenCsv(p) PROVE SweepInv'
<1> USE DEF SweepInv
<1>1. UNCHANGED <<chunk, buffers, medians, rows, best, published>> /\ sweeping[p] = "suite"
      /\ buffers[p] = MethodCount
  BY DEF Sweep!OpenCsv
<1>2. CASE /\ tmp' = [tmp EXCEPT ![chunk[p]] = Sweep!EmptyFile]
           /\ linked' = [linked EXCEPT ![p] = TRUE]
           /\ Sweep!Goto(p, "close")
  <2>1. Sweep!EmptyFile \in Sweep!Files /\ Sweep!EmptyFile.state = "empty"
    <3>1. Sweep!NoFile \in Sweep!Files
      BY SweepConstants DEF Sweep!NoFile, Sweep!Files
    <3> QED
      BY <3>1 DEF Sweep!EmptyFile, Sweep!Files
  <2>2. chunk[p] \in 1..ChunkCount
    BY DEF Sweep!TypeOK
  <2>3. /\ sweeping'[p] = "close" /\ \A q \in Sweeps \ {p} : sweeping'[q] = sweeping[q]
        /\ tmp'[chunk[p]] = Sweep!EmptyFile
        /\ \A c \in (1..ChunkCount) \ {chunk[p]} : tmp'[c] = tmp[c]
    BY <1>2, <2>2 DEF Sweep!TypeOK
  <2>4. Sweep!TypeOK'
    BY <1>1, <1>2, <2>1 DEF Sweep!TypeOK
  <2>5. TmpHolds'
    BY <2>1, <2>3 DEF TmpHolds
  <2>6. TmpIsOwned'
    <3> SUFFICES ASSUME NEW c \in 1..ChunkCount, tmp'[c].state # "absent"
                 PROVE  \E q \in Sweeps : \/ sweeping'[q] \in Broken
                                          \/ chunk'[q] = c /\ sweeping'[q] \in {"close", "parse", "unlink"}
      BY DEF TmpIsOwned
    <3>1. CASE c = chunk[p]
      BY <1>1, <2>3, <3>1
    <3>2. CASE c # chunk[p]
      <4>1. PICK q \in Sweeps : \/ sweeping[q] \in Broken
                                \/ chunk[q] = c /\ sweeping[q] \in {"close", "parse", "unlink"}
        BY <2>3, <3>2 DEF TmpIsOwned
      <4>2. q # p
        BY <1>1, <4>1 DEF Broken
      <4> QED
        BY <1>1, <2>3, <4>1, <4>2
    <3> QED
      BY <3>1, <3>2
  <2>7. SweepHolds(p)'
    <3>1. SweepHolds(p)
      OBVIOUS
    <3> QED
      BY <1>1, <2>3, <3>1 DEF SweepHolds, RowDone, IsBest
  <2> QED
    BY <1>1, <2>3, <2>4, <2>5, <2>6, <2>7, SweepOthers
<1>3. CASE Sweep!Goto(p, "failed") /\ UNCHANGED <<tmp, linked>>
  BY <1>1, <1>3, SweepBreaks DEF Broken
<1> QED
  BY <1>2, <1>3 DEF Sweep!OpenCsv

\* The file gets a median of every method.
LEMMA SweepCloses ==
  ASSUME SweepInv, NEW p \in Sweeps, Sweep!CloseCsv(p) PROVE SweepInv'
<1> USE DEF SweepInv
<1>1. UNCHANGED <<chunk, linked, rows, best, published>> /\ sweeping[p] = "close"
  BY DEF Sweep!CloseCsv
<1>2. PICK file : file = [state |-> "full", by |-> p, chunk |-> chunk[p], ms |-> medians[p]]
  OBVIOUS
<1>3. medians[p] \in [1..MethodCount -> Latencies] /\ chunk[p] \in 1..ChunkCount
  BY <1>1 DEF SweepHolds, Sweep!TypeOK
<1>4. file \in Sweep!Files /\ file.state = "full" /\ file.chunk = chunk[p] /\ file.ms = medians[p]
  <2>1. chunk[p] \in 0..ChunkCount
    BY <1>3, SweepConstants
  <2> QED
    BY <1>2, <1>3, <2>1 DEF Sweep!Files
<1>5. tmp' = IF linked[p] THEN [tmp EXCEPT ![chunk[p]] = file] ELSE tmp
  BY <1>2 DEF Sweep!CloseCsv
<1>6. /\ sweeping' = [sweeping EXCEPT ![p] = "parse"] /\ buffers' = [buffers EXCEPT ![p] = 0]
      /\ medians' = [medians EXCEPT ![p] = [m \in 1..MethodCount |-> 0]]
  BY DEF Sweep!CloseCsv
<1>7. /\ sweeping'[p] = "parse" /\ buffers'[p] = 0
      /\ \A q \in Sweeps \ {p} : /\ sweeping'[q] = sweeping[q] /\ buffers'[q] = buffers[q]
                                  /\ medians'[q] = medians[q]
      /\ tmp'[chunk[p]] \in {file, tmp[chunk[p]]}
      /\ \A c \in (1..ChunkCount) \ {chunk[p]} : tmp'[c] = tmp[c]
  BY <1>3, <1>5, <1>6 DEF Sweep!TypeOK
<1>8. Sweep!TypeOK'
  <2>1. tmp' \in [1..ChunkCount -> Sweep!Files]
    BY <1>3, <1>4, <1>5 DEF Sweep!TypeOK
  <2>2. 0 \in 0..MethodCount
    BY SweepConstants
  <2> QED
    BY <1>1, <1>6, <2>1, <2>2 DEF Sweep!TypeOK
<1>9. TmpHolds'
  BY <1>3, <1>4, <1>7 DEF TmpHolds
<1>10. TmpIsOwned'
  <2> SUFFICES ASSUME NEW c \in 1..ChunkCount, tmp'[c].state # "absent"
               PROVE  \E q \in Sweeps : \/ sweeping'[q] \in Broken
                                        \/ chunk'[q] = c /\ sweeping'[q] \in {"close", "parse", "unlink"}
    BY DEF TmpIsOwned
  <2>1. CASE c = chunk[p]
    BY <1>1, <1>7, <2>1
  <2>2. CASE c # chunk[p]
    <3>1. PICK q \in Sweeps : \/ sweeping[q] \in Broken
                              \/ chunk[q] = c /\ sweeping[q] \in {"close", "parse", "unlink"}
      BY <1>7, <2>2 DEF TmpIsOwned
    <3>2. q # p
      BY <1>1, <2>2, <3>1 DEF Broken
    <3> QED
      BY <1>1, <1>7, <3>1, <3>2
  <2> QED
    BY <2>1, <2>2
<1>11. SweepHolds(p)'
  <2>1. SweepHolds(p)
    OBVIOUS
  <2> QED
    BY <1>1, <1>7, <2>1 DEF SweepHolds, RowDone, IsBest
<1> QED
  BY <1>1, <1>7, <1>8, <1>9, <1>10, <1>11, SweepOthers

\* The rows are read back from a full file, or the sweep fails.
LEMMA SweepReadsBack ==
  ASSUME SweepInv, NEW p \in Sweeps, Sweep!ParseCsv(p) PROVE SweepInv'
<1> USE DEF SweepInv
<1>1. UNCHANGED <<chunk, buffers, medians, linked, best, published, tmp>> /\ sweeping[p] = "parse"
  BY DEF Sweep!ParseCsv
<1>2. PICK c \in 1..ChunkCount : c = chunk[p]
  BY DEF Sweep!TypeOK
<1>3. CASE tmp[c].state = "full"
  <2>1. PICK read : read = [m \in 1..MethodCount |->
                              [by |-> tmp[c].by, chunk |-> tmp[c].chunk, method |-> m,
                               ms |-> tmp[c].ms[m]]]
    OBVIOUS
  <2>2. PICK old : old = rows[p]
    OBVIOUS
  <2>3. old \in [1..ChunkCount -> [1..MethodCount -> Sweep!RowSet]]
    BY <2>2 DEF Sweep!TypeOK
  <2>4. PICK new : new = [old EXCEPT ![c] = read]
    OBVIOUS
  <2>5. rows' = [rows EXCEPT ![p] = new] /\ sweeping' = [sweeping EXCEPT ![p] = "unlink"]
    BY <1>2, <1>3, <2>1, <2>2, <2>4 DEF Sweep!ParseCsv, Sweep!TypeOK
  <2>6. tmp[c] \in Sweep!Files /\ tmp[c].chunk = c /\ tmp[c].ms \in [1..MethodCount -> Latencies]
    BY <1>3 DEF TmpHolds, Sweep!TypeOK
  <2>7. \A m \in 1..MethodCount : /\ read[m] \in Sweep!RowSet /\ read[m].chunk = c
                                  /\ read[m].method = m /\ read[m].ms \in Latencies
    <3> SUFFICES ASSUME NEW m \in 1..MethodCount
                 PROVE  /\ read[m] \in Sweep!RowSet /\ read[m].chunk = c
                        /\ read[m].method = m /\ read[m].ms \in Latencies
      OBVIOUS
    <3>1. read[m] = [by |-> tmp[c].by, chunk |-> tmp[c].chunk, method |-> m, ms |-> tmp[c].ms[m]]
      BY <2>1
    <3>2. tmp[c].by \in Sweeps \cup {0} /\ tmp[c].ms[m] \in Latencies
      BY <2>6 DEF Sweep!Files
    <3>3. m \in 0..MethodCount /\ c \in 0..ChunkCount
      BY SweepConstants
    <3> QED
      BY <2>6, <3>1, <3>2, <3>3 DEF Sweep!RowSet
  <2>8. new \in [1..ChunkCount -> [1..MethodCount -> Sweep!RowSet]] /\ new[c] = read
        /\ \A d \in (1..ChunkCount) \ {c} : new[d] = old[d]
    <3>1. read \in [1..MethodCount -> Sweep!RowSet]
      BY <2>1, <2>7
    <3> QED
      BY <2>3, <2>4, <3>1
  <2>9. /\ sweeping'[p] = "unlink" /\ rows'[p] = new
        /\ \A q \in Sweeps \ {p} : sweeping'[q] = sweeping[q] /\ rows'[q] = rows[q]
    BY <2>5 DEF Sweep!TypeOK
  <2>10. Sweep!TypeOK'
    BY <1>1, <2>5, <2>8 DEF Sweep!TypeOK
  <2>11. TmpHolds'
    BY <1>1 DEF TmpHolds
  <2>12. TmpIsOwned'
    <3> SUFFICES ASSUME NEW d \in 1..ChunkCount, tmp[d].state # "absent"
                 PROVE  \E q \in Sweeps : \/ sweeping'[q] \in Broken
                                          \/ chunk'[q] = d /\ sweeping'[q] \in {"close", "parse", "unlink"}
      BY <1>1 DEF TmpIsOwned
    <3>1. PICK q \in Sweeps : \/ sweeping[q] \in Broken
                              \/ chunk[q] = d /\ sweeping[q] \in {"close", "parse", "unlink"}
      BY DEF TmpIsOwned
    <3>2. CASE q = p
      BY <1>1, <2>9, <3>1, <3>2 DEF Broken
    <3>3. CASE q # p
      BY <1>1, <2>9, <3>1, <3>3
    <3> QED
      BY <3>2, <3>3
  <2>13. SweepHolds(p)'
    <3>1. \A d \in 1..ChunkCount : d < c => RowDone(p, d)
      BY <1>1, <1>2 DEF SweepHolds
    <3>2. RowDone(p, c)'
      BY <2>7, <2>8, <2>9 DEF RowDone
    <3>3. \A d \in 1..ChunkCount : d < c => RowDone(p, d)'
      <4> SUFFICES ASSUME NEW d \in 1..ChunkCount, d < c PROVE RowDone(p, d)'
        OBVIOUS
      <4>1. rows'[p][d] = rows[p][d]
        BY <2>2, <2>8, <2>9
      <4> QED
        BY <3>1, <4>1 DEF RowDone
    <3>4. chunk'[p] = c /\ buffers'[p] = buffers[p] /\ medians'[p] = medians[p]
          /\ published'[p] = published[p] /\ published[p] = {}
          /\ \A m \in 1..buffers[p] : medians[p][m] \in Latencies
      BY <1>1, <1>2 DEF SweepHolds
    <3> HIDE DEF SweepInv
    <3> QED
      BY <2>9, <3>2, <3>3, <3>4 DEF SweepHolds
  <2> QED
    BY <1>1, <2>9, <2>10, <2>11, <2>12, <2>13, SweepOthers
<1>4. CASE tmp[c].state # "full"
  BY <1>1, <1>2, <1>4, SweepBreaks DEF Broken, Sweep!ParseCsv
<1> QED
  BY <1>3, <1>4

\* The file is gone and the sweep goes on to the next chunk size.
LEMMA SweepUnlinks ==
  ASSUME SweepInv, NEW p \in Sweeps, Sweep!Unlink(p) PROVE SweepInv'
<1> USE DEF SweepInv
<1>1. UNCHANGED <<buffers, medians, rows, best, published>> /\ sweeping[p] = "unlink"
  BY DEF Sweep!Unlink
<1>2. PICK c \in 1..ChunkCount : c = chunk[p]
  BY DEF Sweep!TypeOK
<1>3. PICK after \in 1..ChunkCount : after = IF c < ChunkCount THEN c + 1 ELSE c
  BY SweepConstants
<1>4. PICK place : place = IF c < ChunkCount THEN "suite" ELSE "best"
  OBVIOUS
<1>5. /\ tmp' = [tmp EXCEPT ![c] = Sweep!NoFile] /\ chunk' = [chunk EXCEPT ![p] = after]
      /\ sweeping' = [sweeping EXCEPT ![p] = place] /\ linked' \in [Sweeps -> BOOLEAN]
  <2>1. chunk' = [chunk EXCEPT ![p] = IF c < ChunkCount THEN c + 1 ELSE c]
    BY <1>2 DEF Sweep!Unlink, Sweep!TypeOK
  <2>2. linked' = [q \in Sweeps |-> linked[q] /\ chunk[q] # chunk[p]]
    BY DEF Sweep!Unlink
  <2>3. linked' \in [Sweeps -> BOOLEAN]
    BY <2>2 DEF Sweep!TypeOK
  <2> QED
    BY <1>2, <1>3, <1>4, <2>1, <2>3 DEF Sweep!Unlink
<1>6. Sweep!NoFile \in Sweep!Files /\ Sweep!NoFile.state = "absent"
  BY SweepConstants DEF Sweep!NoFile, Sweep!Files
<1>7. /\ tmp'[c] = Sweep!NoFile /\ \A d \in (1..ChunkCount) \ {c} : tmp'[d] = tmp[d]
      /\ chunk'[p] = after /\ sweeping'[p] = place
      /\ \A q \in Sweeps \ {p} : sweeping'[q] = sweeping[q] /\ chunk'[q] = chunk[q]
  BY <1>5 DEF Sweep!TypeOK
<1>8. Sweep!TypeOK'
  BY <1>1, <1>4, <1>5, <1>6 DEF Sweep!TypeOK
<1>9. TmpHolds'
  BY <1>6, <1>7 DEF TmpHolds
<1>10. TmpIsOwned'
  <2> SUFFICES ASSUME NEW d \in 1..ChunkCount, tmp'[d].state # "absent"
               PROVE  \E q \in Sweeps : \/ sweeping'[q] \in Broken
                                        \/ chunk'[q] = d /\ sweeping'[q] \in {"close", "parse", "unlink"}
    BY DEF TmpIsOwned
  <2>1. d # c /\ tmp[d].state # "absent"
    BY <1>6, <1>7
  <2>2. PICK q \in Sweeps : \/ sweeping[q] \in Broken
                            \/ chunk[q] = d /\ sweeping[q] \in {"close", "parse", "unlink"}
    BY <2>1 DEF TmpIsOwned
  <2>3. q # p
    BY <1>1, <1>2, <2>1, <2>2 DEF Broken
  <2> QED
    BY <1>7, <2>2, <2>3
<1>11. SweepHolds(p)'
  <2>1. \A d \in 1..ChunkCount : d =< c => RowDone(p, d)
    BY <1>1, <1>2 DEF SweepHolds
  <2>2. \A d \in 1..ChunkCount : d =< c => RowDone(p, d)'
    BY <1>1, <2>1 DEF RowDone
  <2>3. \A d \in 1..ChunkCount : d < after => RowDone(p, d)'
    BY <1>3, <2>2
  <2>4. place = "best" => \A d \in 1..ChunkCount : RowDone(p, d)'
    BY <1>4, <2>2, SweepConstants
  <2>5. buffers'[p] = buffers[p] /\ medians'[p] = medians[p] /\ published'[p] = {}
        /\ \A m \in 1..buffers[p] : medians[p][m] \in Latencies
    BY <1>1 DEF SweepHolds
  <2>6. place \in {"suite", "best"}
    BY <1>4
  <2> HIDE DEF SweepInv
  <2> QED
    BY <1>7, <2>3, <2>4, <2>5, <2>6 DEF SweepHolds
<1> QED
  BY <1>1, <1>7, <1>8, <1>9, <1>10, <1>11, SweepOthers

\* The loop over the chunk sizes finds the first with the lowest median.
LEMMA BestChunkIsFirst ==
  ASSUME NEW p \in Sweeps, NEW m \in 1..MethodCount,
         \A c \in 1..ChunkCount : rows[p][c][m].ms \in Nat
  PROVE  /\ Sweep!BestChunk(p, m) \in 1..ChunkCount
         /\ \A c \in 1..ChunkCount :
              /\ rows[p][Sweep!BestChunk(p, m)][m].ms =< rows[p][c][m].ms
              /\ c < Sweep!BestChunk(p, m) =>
                   rows[p][Sweep!BestChunk(p, m)][m].ms < rows[p][c][m].ms
<1> DEFINE n == ChunkCount
           key == [c \in 1..n |-> rows[p][c][m].ms]
           Eq(f) == f = [c \in 1..ChunkCount |-> IF c = 1 THEN 1
                           ELSE IF Sweep!Smaller(rows[p][c][m].ms, rows[p][f[c - 1]][m].ms)
                                THEN c ELSE f[c - 1]]
           upTo == CHOOSE f : Eq(f)
<1>1. n \in Nat \ {0} /\ key \in [1..n -> Int]
  BY SweepConstants
<1>2. \A c \in 1..n : key[c] = rows[p][c][m].ms
  OBVIOUS
<1>3. \E f : Eq(f)
  <2> HIDE DEF key
  <2>1. PICK f \in [1..n -> 1..n] : IsScan(f, key, n) /\ \A i \in 1..n : f[i] \in 1..i
    BY <1>1, ScanExists
  <2>2. \A c \in 1..n : c # 1 => c \in 2..n /\ c - 1 \in 1..n
    BY <1>1
  <2>3. f = [c \in 1..n |-> IF c = 1 THEN 1
               ELSE IF rows[p][c][m].ms < rows[p][f[c - 1]][m].ms THEN c ELSE f[c - 1]]
    BY <1>1, <1>2, <2>1, <2>2 DEF IsScan
  <2> QED
    BY <1>1, <2>3 DEF Sweep!Smaller
<1>4. Eq(upTo)
  <2> HIDE DEF Eq
  <2> QED
    BY <1>3
<1> HIDE DEF upTo, key
<1>5. \A c \in 1..n : upTo[c] = IF c = 1 THEN 1
        ELSE IF rows[p][c][m].ms < rows[p][upTo[c - 1]][m].ms THEN c ELSE upTo[c - 1]
  BY <1>1, <1>4 DEF Sweep!Smaller
<1>6. IsScan(upTo, key, n)
  <2>1. ASSUME NEW i \in 2..n, upTo[i - 1] \in 1..(i - 1)
        PROVE  upTo[i] = IF key[i] < key[upTo[i - 1]] THEN i ELSE upTo[i - 1]
    <3>1. i \in 1..n /\ i # 1 /\ upTo[i - 1] \in 1..n
      BY <1>1, <2>1
    <3> QED
      BY <1>2, <1>5, <3>1
  <2> QED
    BY <1>1, <1>5, <2>1 DEF IsScan
<1>7. IsFirstLowest(upTo[n], key, n)
  BY <1>1, <1>6, ScanIsFirstLowest
<1>8. Sweep!BestChunk(p, m) = upTo[n]
  BY DEF Sweep!BestChunk, upTo
<1> QED
  BY <1>1, <1>2, <1>7, <1>8 DEF IsFirstLowest

\* The chunk sizes that are marked are the first with the lowest medians.
LEMMA SweepMarksBest ==
  ASSUME SweepInv, NEW p \in Sweeps, Sweep!MarkBest(p) PROVE SweepInv'
<1> USE DEF SweepInv
<1>1. /\ UNCHANGED <<chunk, buffers, medians, linked, rows, published, tmp>>
      /\ sweeping[p] = "best" /\ sweeping' = [sweeping EXCEPT ![p] = "detail"]
  BY DEF Sweep!MarkBest
<1>2. \A c \in 1..ChunkCount : RowDone(p, c)
  BY <1>1 DEF SweepHolds
<1>3. PICK new : new = [m \in 1..MethodCount |-> Sweep!BestChunk(p, m)]
  OBVIOUS
<1>4. best' = [best EXCEPT ![p] = new]
  BY <1>3 DEF Sweep!MarkBest
<1>5. ASSUME NEW m \in 1..MethodCount
      PROVE  /\ new[m] \in 1..ChunkCount
             /\ \A c \in 1..ChunkCount :
                  /\ rows[p][new[m]][m].ms =< rows[p][c][m].ms
                  /\ c < new[m] => rows[p][new[m]][m].ms < rows[p][c][m].ms
  <2>1. \A c \in 1..ChunkCount : rows[p][c][m].ms \in Nat
    BY <1>2, SweepConstants DEF RowDone
  <2>2. new[m] = Sweep!BestChunk(p, m)
    BY <1>3
  <2> QED
    BY <2>1, <2>2, BestChunkIsFirst
<1>6. new \in [1..MethodCount -> 0..ChunkCount]
  BY <1>3, <1>5, SweepConstants
<1>7. /\ best' \in [Sweeps -> [1..MethodCount -> 0..ChunkCount]]
      /\ published' \in [Sweeps -> SUBSET {"detail", "summary"}]
      /\ best'[p] = new /\ sweeping'[p] = "detail"
      /\ \A q \in Sweeps \ {p} : best'[q] = best[q] /\ published'[q] = published[q]
  BY <1>1, <1>4, <1>6 DEF Sweep!TypeOK
<1>8. \A m \in 1..MethodCount : IsBest(p, m)'
  BY <1>1, <1>5, <1>7 DEF IsBest
<1>9. \A c \in 1..ChunkCount : RowDone(p, c)'
  BY <1>1, <1>2 DEF RowDone
<1>10. /\ buffers'[p] = buffers[p] /\ medians'[p] = medians[p]
       /\ \A m \in 1..buffers[p] : medians[p][m] \in Latencies
  BY <1>1 DEF SweepHolds
<1>11. SweepHolds(p)'
  <2> HIDE DEF SweepInv
  <2> QED
    BY <1>7, <1>8, <1>9, <1>10 DEF SweepHolds
<1> QED
  BY <1>1, <1>7, <1>11, SweepMoves DEF Broken

\* The two result files are written one after the other.
LEMMA SweepPublishes ==
  ASSUME SweepInv, NEW p \in Sweeps, Sweep!WriteDetail(p) \/ Sweep!WriteSummary(p) PROVE SweepInv'
<1> USE DEF SweepInv
<1>1. UNCHANGED <<chunk, buffers, medians, linked, rows, best, tmp>>
      /\ sweeping[p] \in {"detail", "summary"}
  BY DEF Sweep!WriteDetail, Sweep!WriteSummary
<1>2. CASE UNCHANGED published
  <2>1. Sweep!Goto(p, "failed") \/ Sweep!Goto(p, "summary") \/ Sweep!Goto(p, "ok")
    BY DEF Sweep!WriteDetail, Sweep!WriteSummary
  <2>2. PICK place \in {"failed", "summary", "ok"} : sweeping' = [sweeping EXCEPT ![p] = place]
    BY <2>1
  <2>3. sweeping'[p] = place
    BY <2>2 DEF Sweep!TypeOK
  <2>4. SweepHolds(p)'
    <3>1. SweepHolds(p)
      OBVIOUS
    <3> QED
      BY <1>1, <1>2, <2>3, <3>1 DEF SweepHolds, RowDone, IsBest
  <2>5. best' \in [Sweeps -> [1..MethodCount -> 0..ChunkCount]]
        /\ published' \in [Sweeps -> SUBSET {"detail", "summary"}]
    BY <1>1, <1>2 DEF Sweep!TypeOK
  <2> QED
    BY <1>1, <1>2, <2>2, <2>4, <2>5, SweepMoves DEF Broken
<1>3. CASE ~ UNCHANGED published
  <2>1. PICK file \in {"detail", "summary"}, place \in {"summary", "ok"} :
          /\ published' = [published EXCEPT ![p] = @ \cup {file}]
          /\ sweeping' = [sweeping EXCEPT ![p] = place]
    BY <1>3 DEF Sweep!WriteDetail, Sweep!WriteSummary
  <2>2. /\ best' \in [Sweeps -> [1..MethodCount -> 0..ChunkCount]]
        /\ published' \in [Sweeps -> SUBSET {"detail", "summary"}]
        /\ sweeping'[p] = place
        /\ \A q \in Sweeps \ {p} : best'[q] = best[q] /\ published'[q] = published[q]
    BY <1>1, <2>1 DEF Sweep!TypeOK
  <2>3. SweepHolds(p)'
    <3>1. SweepHolds(p)
      OBVIOUS
    <3> QED
      BY <1>1, <2>2, <3>1 DEF SweepHolds, RowDone, IsBest
  <2> QED
    BY <1>1, <2>1, <2>2, <2>3, SweepMoves DEF Broken
<1> QED
  BY <1>2, <1>3

\* Every step of a sweep keeps the invariant.
LEMMA SweepStep ==
  ASSUME SweepInv, Sweep!Next PROVE SweepInv'
<1>1. PICK p \in Sweeps :
        \/ Sweep!RunMethod(p) \/ Sweep!OpenCsv(p) \/ Sweep!CloseCsv(p)
        \/ Sweep!ParseCsv(p) \/ Sweep!Unlink(p) \/ Sweep!MarkBest(p) \/ Sweep!WriteDetail(p)
        \/ Sweep!WriteSummary(p) \/ Sweep!Kill(p)
  BY DEF Sweep!Next
<1>2. CASE Sweep!Kill(p)
  BY <1>2, SweepBreaks DEF Sweep!Kill, Sweep!Ended, Broken
<1> QED
  BY <1>1, <1>2, SweepMeasures, SweepOpens, SweepCloses, SweepReadsBack, SweepUnlinks,
     SweepMarksBest, SweepPublishes

\* The invariant is what SweepIsSound needs.
LEMMA SweepInvIsSound == SweepInv => Sweep!SweepIsSound
<1> SUFFICES ASSUME SweepInv, NEW p \in Sweeps, published[p] # {},
                    NEW m \in 1..MethodCount, NEW c \in 1..ChunkCount
             PROVE  /\ rows[p][c][m].chunk = c /\ rows[p][c][m].method = m /\ rows[p][c][m].ms # 0
                    /\ rows[p][best[p][m]][m].ms =< rows[p][c][m].ms
                    /\ c < best[p][m] => rows[p][best[p][m]][m].ms < rows[p][c][m].ms
  BY DEF Sweep!SweepIsSound, SweepInv
<1>1. RowDone(p, c) /\ IsBest(p, m)
  BY DEF SweepInv, SweepHolds
<1> QED
  BY <1>1, SweepConstants DEF RowDone, IsBest

\* And what NoFileLeft needs.
LEMMA SweepInvLeavesNoFile == SweepInv => Sweep!NoFileLeft
BY DEF SweepInv, TmpIsOwned, Broken, Sweep!NoFileLeft

-----------------------------------------------------------------------------
(* The system-call profiler: its invariant.                                *)

\* What the profilers' data are.
Profiles == [by : 1..MaxCommands, rows : SUBSET Names, of : SUBSET Names, mixed : BOOLEAN]
Outputs == [state : {"absent", "empty", "full"}, by : 0..MaxCommands, rows : SUBSET Names, mixed : BOOLEAN]
CsvFiles == [state : {"absent", "empty", "full"}, profiles : Seq(Profiles)]
Straces == [state : {"none", "starting", "running", "exited"}, method : Methods \cup {"none"}, ok : BOOLEAN]
ProfilerRecord ==
  [pc : {"none", "spawn", "waitpid", "parse", "save", "close", "compare", "closeComparison"}
          \cup Syscalls!Ended,
   kind : {"none", "profile", "compare"}, asked : {<<>>} \cup {<<m>> : m \in Methods} \cup Syscalls!Pairs,
   todo : Seq(Methods), got : Seq(Profiles), touched : BOOLEAN]

\* The types, and what is known of every full file.
ProfilerTypes ==
  /\ profilers \in [1..MaxCommands -> ProfilerRecord]
  /\ strace \in [1..MaxCommands -> Straces] /\ raw \in [Methods -> Outputs]
  /\ csv \in [Methods -> CsvFiles] /\ comparison \in [Syscalls!Pairs -> CsvFiles]
  /\ \A n \in 1..MaxCommands : strace[n].state \in {"starting", "running"} => strace[n].method \in Methods
  /\ \A m \in Methods : raw[m].state = "full" => raw[m].by \in 1..MaxCommands
  /\ \A p \in Syscalls!Pairs : comparison[p].state = "full" => Len(comparison[p].profiles) = 2

\* How far a comparison has got.
Counts(n) ==
  /\ profilers[n].pc \in {"spawn", "waitpid", "parse", "save", "close"} => profilers[n].todo # <<>>
  /\ profilers[n].pc \in {"save", "close"} => profilers[n].got # <<>>
  /\ profilers[n].kind = "compare" =>
       /\ profilers[n].asked \in Syscalls!Pairs
       /\ profilers[n].pc \in {"spawn", "waitpid", "parse"} =>
            Len(profilers[n].got) + Len(profilers[n].todo) = 2
       /\ profilers[n].pc \in {"save", "close"} => Len(profilers[n].got) + Len(profilers[n].todo) = 3
  /\ profilers[n].pc \in {"compare", "closeComparison"} =>
       profilers[n].kind = "compare" /\ Len(profilers[n].got) = 2

\* The strace of a command is its own, and so is the file as long as no
\* other strace has touched it.
Traces(n) ==
  /\ profilers[n].pc \in {"waitpid", "parse", "save"} =>
       strace[n].method = Syscalls!Current(n) /\ strace[n].state # "none"
  /\ profilers[n].pc \in {"parse", "save"} => strace[n].state = "exited" /\ strace[n].ok
  /\ profilers[n].pc \in {"waitpid", "parse"} /\ ~ profilers[n].touched =>
       /\ strace[n].state = "running" => raw[Syscalls!Current(n)].state = "empty"
       /\ strace[n].state = "exited" =>
            raw[Syscalls!Current(n)].by = n /\ ~ raw[Syscalls!Current(n)].mixed
  /\ profilers[n].pc = "save" /\ ~ profilers[n].touched =>
       Syscalls!Last(profilers[n].got).by = n /\ ~ Syscalls!Last(profilers[n].got).mixed

\* The invariant of the profilers.
SyscallsInv == ProfilerTypes /\ \A n \in 1..MaxCommands : Counts(n) /\ Traces(n)

USE DEF Syscalls!Command, Syscalls!At, Syscalls!RawPath

\* At the start there is no strace and no file.
LEMMA ProfilerInit == Syscalls!Init => SyscallsInv
<1> SUFFICES ASSUME Syscalls!Init PROVE SyscallsInv
  OBVIOUS
<1> USE DEF Syscalls!Init
<1>1. MaxCommands \in Nat
  BY SyscallsInstance DEF Syscalls!SyscallsAssumption
<1>2. Syscalls!NotStarted \in ProfilerRecord /\ Syscalls!NotStarted.pc = "none"
      /\ Syscalls!NotStarted.kind = "none"
  <2>1. <<>> \in Seq(Methods) /\ <<>> \in Seq(Profiles)
    OBVIOUS
  <2> QED
    BY <2>1 DEF Syscalls!NotStarted, ProfilerRecord
<1>3. Syscalls!NoStrace \in Straces /\ Syscalls!NoStrace.state = "none"
  BY DEF Syscalls!NoStrace, Straces
<1>4. Syscalls!NoOutput \in Outputs /\ Syscalls!NoOutput.state = "absent"
  BY <1>1 DEF Syscalls!NoOutput, Outputs
<1>5. Syscalls!NoFile \in CsvFiles /\ Syscalls!NoFile.state = "absent"
  <2>1. <<>> \in Seq(Profiles)
    OBVIOUS
  <2> QED
    BY <2>1 DEF Syscalls!NoFile, CsvFiles
<1>6. ProfilerTypes
  BY <1>2, <1>3, <1>4, <1>5 DEF ProfilerTypes
<1>7. \A n \in 1..MaxCommands : Counts(n) /\ Traces(n)
  BY <1>2 DEF Counts, Traces
<1> QED
  BY <1>6, <1>7 DEF SyscallsInv

\* A step of command n that leaves the outputs of strace as they are.
LEMMA ProfilerStep ==
  ASSUME SyscallsInv, NEW n \in 1..MaxCommands, NEW c \in ProfilerRecord,
         profilers' = [profilers EXCEPT ![n] = c], raw' = raw,
         NEW s \in Straces, strace' = [strace EXCEPT ![n] = s],
         s.state \in {"starting", "running"} => s.method \in Methods,
         csv' \in [Methods -> CsvFiles], comparison' \in [Syscalls!Pairs -> CsvFiles],
         \A p \in Syscalls!Pairs : comparison'[p].state = "full" => Len(comparison'[p].profiles) = 2,
         Counts(n)', Traces(n)'
  PROVE  SyscallsInv'
<1> USE DEF SyscallsInv
<1>1. /\ profilers'[n] = c /\ strace'[n] = s
      /\ \A m \in (1..MaxCommands) \ {n} : profilers'[m] = profilers[m] /\ strace'[m] = strace[m]
  BY DEF ProfilerTypes
<1>2. ProfilerTypes'
  BY <1>1 DEF ProfilerTypes
<1>3. ASSUME NEW m \in 1..MaxCommands PROVE Counts(m)' /\ Traces(m)'
  <2>1. CASE m = n
    BY <2>1
  <2>2. CASE m # n
    <3>1. profilers'[m] = profilers[m] /\ strace'[m] = strace[m] /\ Counts(m) /\ Traces(m)
      BY <1>1, <2>2
    <3>2. Syscalls!Current(m)' = Syscalls!Current(m)
      BY <3>1 DEF Syscalls!Current
    <3>3. Counts(m)'
      BY <3>1 DEF Counts
    <3>4. Traces(m)'
      BY <3>1, <3>2 DEF Traces
    <3> QED
      BY <3>3, <3>4
  <2> QED
    BY <2>1, <2>2
<1> QED
  BY <1>2, <1>3

\* The same if it only goes to another place.
LEMMA ProfilerGoto ==
  ASSUME SyscallsInv, NEW n \in 1..MaxCommands, NEW place, Syscalls!Goto(n, place),
         place \in {"done", "failed", "killed"} \/
           (place = "parse" /\ profilers[n].pc = "waitpid"
              /\ strace[n].state = "exited" /\ strace[n].ok),
         UNCHANGED <<strace, raw, csv, comparison>>
  PROVE  SyscallsInv'
<1> USE DEF SyscallsInv
<1> DEFINE c == [profilers[n] EXCEPT !.pc = place]
<1>1. profilers[n] \in ProfilerRecord /\ strace[n] \in Straces /\ strace = [strace EXCEPT ![n] = strace[n]]
  BY DEF ProfilerTypes
<1>2. c \in ProfilerRecord /\ c.pc = place /\ c.todo = profilers[n].todo /\ c.got = profilers[n].got
      /\ c.kind = profilers[n].kind /\ c.asked = profilers[n].asked /\ c.touched = profilers[n].touched
  BY <1>1 DEF ProfilerRecord, Syscalls!Ended
<1>3. profilers' = [profilers EXCEPT ![n] = c] /\ profilers'[n] = c
  BY DEF Syscalls!Goto, ProfilerTypes
<1> HIDE DEF c
<1>4. Counts(n)'
  BY <1>2, <1>3 DEF Counts
<1>5. Traces(n)'
  BY <1>2, <1>3 DEF Traces, Syscalls!Current
<1>6. strace[n].state \in {"starting", "running"} => strace[n].method \in Methods
  BY DEF ProfilerTypes
<1>7. csv' \in [Methods -> CsvFiles] /\ comparison' \in [Syscalls!Pairs -> CsvFiles]
      /\ \A p \in Syscalls!Pairs : comparison'[p].state = "full" => Len(comparison'[p].profiles) = 2
  BY DEF ProfilerTypes
<1>8. strace' = [strace EXCEPT ![n] = strace[n]] /\ raw' = raw
  BY <1>1
<1>9. PICK d \in ProfilerRecord : d = c
  BY <1>2
<1>10. PICK t \in Straces : t = strace[n]
  BY <1>1
<1> QED
  BY <1>3, <1>4, <1>5, <1>6, <1>7, <1>8, <1>9, <1>10, ProfilerStep

\* A command is given one method or two.
LEMMA ProfilerStart ==
  ASSUME SyscallsInv, NEW n \in 1..MaxCommands, Syscalls!Start(n) PROVE SyscallsInv'
<1> USE DEF SyscallsInv
<1>1. PICK asked \in {<<m>> : m \in Methods} \cup Syscalls!Pairs :
        profilers' = [profilers EXCEPT ![n] =
           [Syscalls!NotStarted EXCEPT !.pc = "spawn", !.asked = asked, !.todo = asked,
                                       !.kind = IF Len(asked) = 1 THEN "profile" ELSE "compare"]]
  BY DEF Syscalls!Start
<1>2. UNCHANGED <<strace, raw, csv, comparison>>
  BY DEF Syscalls!Start
<1>3. PICK kind : kind = IF Len(asked) = 1 THEN "profile" ELSE "compare"
  OBVIOUS
<1> DEFINE c == [Syscalls!NotStarted EXCEPT !.pc = "spawn", !.asked = asked, !.todo = asked, !.kind = kind]
<1>4. Syscalls!NotStarted \in ProfilerRecord /\ Syscalls!NotStarted.got = <<>>
  <2>1. <<>> \in Seq(Methods) /\ <<>> \in Seq(Profiles)
    OBVIOUS
  <2> QED
    BY <2>1 DEF Syscalls!NotStarted, ProfilerRecord
<1>5. /\ asked \in Seq(Methods) /\ Len(asked) \in {1, 2} /\ asked # <<>>
      /\ kind = "compare" => Len(asked) = 2 /\ asked \in Syscalls!Pairs
      /\ kind \in {"profile", "compare"}
  <2>1. CASE asked \in {<<m>> : m \in Methods}
    <3>1. PICK m \in Methods : asked = <<m>>
      BY <2>1
    <3>2. <<m>> \in Seq(Methods) /\ Len(<<m>>) = 1
      OBVIOUS
    <3> QED
      BY <1>3, <3>1, <3>2
  <2>2. CASE asked \in Syscalls!Pairs
    <3>1. PICK a \in Methods, b \in Methods : asked = <<a, b>>
      BY <2>2 DEF Syscalls!Pairs
    <3>2. <<a, b>> \in Seq(Methods) /\ Len(<<a, b>>) = 2
      OBVIOUS
    <3> QED
      BY <1>3, <2>2, <3>1, <3>2
  <2> QED
    BY <2>1, <2>2
<1>6. c \in ProfilerRecord /\ c.pc = "spawn" /\ c.kind = kind /\ c.asked = asked /\ c.todo = asked
      /\ c.got = <<>>
  BY <1>4, <1>5 DEF ProfilerRecord
<1>7. profilers' = [profilers EXCEPT ![n] = c] /\ profilers'[n] = c
  BY <1>1, <1>3 DEF ProfilerTypes
<1> HIDE DEF c
<1>8. Counts(n)'
  <2>1. Len(profilers'[n].got) = 0
    BY <1>6, <1>7
  <2>2. kind = "compare" => Len(profilers'[n].got) + Len(profilers'[n].todo) = 2
    <3>1. kind = "compare" => Len(profilers'[n].todo) = 2
      BY <1>5, <1>6, <1>7
    <3> QED
      BY <2>1, <3>1
  <2> QED
    BY <1>5, <1>6, <1>7, <2>2 DEF Counts
<1>9. Traces(n)'
  BY <1>6, <1>7 DEF Traces
<1>10. PICK s \in Straces : s = strace[n]
  BY DEF ProfilerTypes
<1>11. strace' = [strace EXCEPT ![n] = s] /\ (s.state \in {"starting", "running"} => s.method \in Methods)
  BY <1>2, <1>10 DEF ProfilerTypes
<1>12. csv' \in [Methods -> CsvFiles] /\ comparison' \in [Syscalls!Pairs -> CsvFiles]
      /\ \A p \in Syscalls!Pairs : comparison'[p].state = "full" => Len(comparison'[p].profiles) = 2
  BY <1>2 DEF ProfilerTypes
<1> QED
  BY <1>2, <1>6, <1>7, <1>8, <1>9, <1>11, <1>12, ProfilerStep

\* What Step and Goto need of what stays.
LEMMA ProfilerFiles ==
  ASSUME SyscallsInv, csv' = csv, comparison' = comparison
  PROVE  /\ csv' \in [Methods -> CsvFiles] /\ comparison' \in [Syscalls!Pairs -> CsvFiles]
         /\ \A p \in Syscalls!Pairs : comparison'[p].state = "full" => Len(comparison'[p].profiles) = 2
BY DEF SyscallsInv, ProfilerTypes

\* strace is started for the method at hand, or it cannot be.
LEMMA ProfilerSpawn ==
  ASSUME SyscallsInv, NEW n \in 1..MaxCommands, Syscalls!Spawn(n) PROVE SyscallsInv'
<1> USE DEF SyscallsInv
<1>1. UNCHANGED <<raw, csv, comparison>>
  BY DEF Syscalls!Spawn
<1>2. CASE Syscalls!Goto(n, "failed") /\ UNCHANGED strace
  BY <1>1, <1>2, ProfilerGoto
<1>3. CASE /\ strace' = [strace EXCEPT ![n] = [state |-> "starting", method |-> Syscalls!Current(n),
                                                 ok |-> FALSE]]
           /\ profilers' = [profilers EXCEPT ![n].pc = "waitpid", ![n].touched = FALSE]
  <2>1. profilers[n] \in ProfilerRecord /\ profilers[n].pc = "spawn" /\ profilers[n].todo # <<>>
    BY DEF Syscalls!Spawn, ProfilerTypes, Counts
  <2>2. Syscalls!Current(n) \in Methods
    BY <2>1 DEF Syscalls!Current, ProfilerRecord
  <2>3. PICK s : s = [state |-> "starting", method |-> Syscalls!Current(n), ok |-> FALSE]
    OBVIOUS
  <2>4. s \in Straces /\ s.state = "starting" /\ s.method = Syscalls!Current(n)
    BY <2>2, <2>3 DEF Straces
  <2> DEFINE c == [profilers[n] EXCEPT !.pc = "waitpid", !.touched = FALSE]
  <2>5. c \in ProfilerRecord /\ c.pc = "waitpid" /\ c.todo = profilers[n].todo /\ c.got = profilers[n].got
        /\ c.kind = profilers[n].kind /\ c.asked = profilers[n].asked
    BY <2>1 DEF ProfilerRecord
  <2>6. profilers' = [profilers EXCEPT ![n] = c] /\ profilers'[n] = c
    BY <1>3 DEF ProfilerTypes
  <2> HIDE DEF c
  <2>7. strace' = [strace EXCEPT ![n] = s] /\ strace'[n] = s
    BY <1>3, <2>3 DEF ProfilerTypes
  <2>8. Counts(n)'
    BY <2>1, <2>5, <2>6 DEF Counts
  <2>9. Traces(n)'
    BY <2>4, <2>5, <2>6, <2>7 DEF Traces, Syscalls!Current
  <2>10. raw' = raw /\ (s.state \in {"starting", "running"} => s.method \in Methods)
    BY <1>1, <2>2, <2>4
  <2> QED
    BY <1>1, <2>4, <2>5, <2>6, <2>7, <2>8, <2>9, <2>10, ProfilerStep, ProfilerFiles
<1> QED
  BY <1>2, <1>3 DEF Syscalls!Spawn

\* The profiler goes on to parse only what an strace that succeeded has left.
LEMMA ProfilerWait ==
  ASSUME SyscallsInv, NEW n \in 1..MaxCommands, Syscalls!WaitStrace(n) PROVE SyscallsInv'
<1>1. CASE strace[n].ok
  BY <1>1, ProfilerGoto DEF Syscalls!WaitStrace
<1>2. CASE ~ strace[n].ok
  BY <1>2, ProfilerGoto DEF Syscalls!WaitStrace
<1> QED
  BY <1>1, <1>2

\* What is parsed is of this strace if no other has touched the file.
LEMMA ProfilerParse ==
  ASSUME SyscallsInv, NEW n \in 1..MaxCommands, Syscalls!Parse(n) PROVE SyscallsInv'
<1> USE DEF SyscallsInv
<1>1. UNCHANGED <<strace, raw, csv, comparison>>
  BY DEF Syscalls!Parse
<1>2. profilers[n] \in ProfilerRecord /\ profilers[n].pc = "parse" /\ profilers[n].todo # <<>>
      /\ Syscalls!Current(n) \in Methods
  <2>1. profilers[n] \in ProfilerRecord /\ profilers[n].pc = "parse" /\ profilers[n].todo # <<>>
    BY DEF Syscalls!Parse, ProfilerTypes, Counts
  <2> QED
    BY <2>1 DEF Syscalls!Current, ProfilerRecord
<1>3. PICK file \in Outputs : file = raw[Syscalls!Current(n)]
  BY <1>2 DEF ProfilerTypes
<1>4. PICK profil : profil = [by |-> file.by, rows |-> Syscalls!Parsed(file.rows), of |-> file.rows,
                              mixed |-> file.mixed]
  OBVIOUS
<1>5. CASE /\ file.state = "full"
           /\ profilers' = [profilers EXCEPT ![n].pc = "save", ![n].got = Append(profilers[n].got, profil)]
  <2>1. profil \in Profiles /\ profil.by = file.by /\ profil.mixed = file.mixed
    <3>1. file.by \in 1..MaxCommands /\ Syscalls!Parsed(file.rows) \subseteq Names
      BY <1>2, <1>3, <1>5 DEF ProfilerTypes, Outputs, Syscalls!Parsed
    <3> QED
      BY <1>4, <3>1 DEF Profiles, Outputs
  <2>2. PICK old \in Seq(Profiles) : old = profilers[n].got
    BY <1>2 DEF ProfilerRecord
  <2>3. PICK got : got = Append(old, profil)
    OBVIOUS
  <2>4. got \in Seq(Profiles) /\ Len(got) = Len(old) + 1 /\ got # <<>> /\ Syscalls!Last(got) = profil
    BY <2>1, <2>2, <2>3, AppendProperties DEF Syscalls!Last
  <2> DEFINE c == [profilers[n] EXCEPT !.pc = "save", !.got = got]
  <2>5. c \in ProfilerRecord /\ c.pc = "save" /\ c.todo = profilers[n].todo /\ c.got = got
        /\ c.kind = profilers[n].kind /\ c.asked = profilers[n].asked /\ c.touched = profilers[n].touched
    BY <1>2, <2>4 DEF ProfilerRecord
  <2>6. profilers' = [profilers EXCEPT ![n] = c] /\ profilers'[n] = c
    BY <1>5, <2>2, <2>3 DEF ProfilerTypes
  <2> HIDE DEF c
  <2>7. Counts(n)'
    <3>1. Counts(n) /\ Len(old) \in Nat /\ profilers[n].todo \in Seq(Methods)
      BY <1>2, <2>2 DEF ProfilerRecord
    <3>2. PICK todo \in Nat : todo = Len(profilers[n].todo)
      BY <3>1
    <3>3. Len(profilers'[n].got) = Len(old) + 1 /\ Len(profilers'[n].todo) = todo
      BY <2>4, <2>5, <2>6, <3>2
    <3>4. profilers[n].kind = "compare" => Len(old) + todo = 2 /\ profilers[n].asked \in Syscalls!Pairs
      BY <1>2, <2>2, <3>1, <3>2 DEF Counts
    <3>5. profilers[n].kind = "compare" => Len(profilers'[n].got) + Len(profilers'[n].todo) = 3
      BY <3>1, <3>3, <3>4
    <3> QED
      BY <1>2, <2>4, <2>5, <2>6, <3>4, <3>5 DEF Counts
  <2>8. Traces(n)'
    <3>1. Syscalls!Current(n)' = Syscalls!Current(n)
      BY <2>5, <2>6 DEF Syscalls!Current
    <3> QED
      BY <1>1, <1>2, <1>3, <2>1, <2>4, <2>5, <2>6, <3>1 DEF Traces
  <2>9. PICK t \in Straces : t = strace[n]
    BY DEF ProfilerTypes
  <2>10. strace' = [strace EXCEPT ![n] = t] /\ (t.state \in {"starting", "running"} => t.method \in Methods)
    BY <1>1, <2>9 DEF ProfilerTypes
  <2> QED
    BY <1>1, <2>5, <2>6, <2>7, <2>8, <2>10, ProfilerStep, ProfilerFiles
<1>6. CASE Syscalls!Goto(n, "failed")
  BY <1>1, <1>6, ProfilerGoto
<1> QED
  <2>1. \/ file.state = "full" /\
            profilers' = [profilers EXCEPT ![n].pc = "save", ![n].got = Append(@, profil)]
        \/ Syscalls!Goto(n, "failed")
    BY <1>3, <1>4 DEF Syscalls!Parse
  <2> QED
    BY <1>5, <1>6, <2>1

\* Opening the CSV file empties it.
LEMMA ProfilerOpenCsv ==
  ASSUME SyscallsInv, NEW n \in 1..MaxCommands, Syscalls!OpenCsv(n) PROVE SyscallsInv'
<1> USE DEF SyscallsInv
<1>1. UNCHANGED <<strace, raw, comparison>>
  BY DEF Syscalls!OpenCsv
<1>2. CASE csv' = [csv EXCEPT ![Syscalls!Current(n)] = Syscalls!OpenedFile] /\ Syscalls!Goto(n, "close")
  <2>1. profilers[n] \in ProfilerRecord /\ profilers[n].pc = "save"
    BY DEF Syscalls!OpenCsv, ProfilerTypes
  <2> DEFINE c == [profilers[n] EXCEPT !.pc = "close"]
  <2>2. c \in ProfilerRecord /\ c.pc = "close" /\ c.todo = profilers[n].todo /\ c.got = profilers[n].got
        /\ c.kind = profilers[n].kind /\ c.asked = profilers[n].asked
    BY <2>1 DEF ProfilerRecord
  <2>3. profilers' = [profilers EXCEPT ![n] = c] /\ profilers'[n] = c
    BY <1>2 DEF ProfilerTypes, Syscalls!Goto
  <2> HIDE DEF c
  <2>4. Counts(n)'
    <3>1. Counts(n)
      OBVIOUS
    <3> QED
      BY <2>1, <2>2, <2>3, <3>1 DEF Counts
  <2>5. Traces(n)'
    BY <2>2, <2>3 DEF Traces
  <2>6. csv' \in [Methods -> CsvFiles]
    <3>1. Syscalls!OpenedFile \in CsvFiles
      <4>1. Syscalls!NoFile \in CsvFiles
        <5>1. <<>> \in Seq(Profiles)
          OBVIOUS
        <5> QED
          BY <5>1 DEF Syscalls!NoFile, CsvFiles
      <4> QED
        BY <4>1 DEF Syscalls!OpenedFile, CsvFiles
    <3> QED
      BY <1>2, <3>1 DEF ProfilerTypes
  <2>7. comparison' \in [Syscalls!Pairs -> CsvFiles]
        /\ \A p \in Syscalls!Pairs : comparison'[p].state = "full" => Len(comparison'[p].profiles) = 2
    BY <1>1 DEF ProfilerTypes
  <2>8. PICK t \in Straces : t = strace[n]
    BY DEF ProfilerTypes
  <2>9. strace' = [strace EXCEPT ![n] = t] /\ (t.state \in {"starting", "running"} => t.method \in Methods)
    BY <1>1, <2>8 DEF ProfilerTypes
  <2> QED
    BY <1>1, <2>2, <2>3, <2>4, <2>5, <2>6, <2>7, <2>9, ProfilerStep
<1>3. CASE Syscalls!Goto(n, "failed") /\ UNCHANGED csv
  BY <1>1, <1>3, ProfilerGoto
<1> QED
  BY <1>2, <1>3 DEF Syscalls!OpenCsv

\* The profile is written and the next method is up.
LEMMA ProfilerCloseCsv ==
  ASSUME SyscallsInv, NEW n \in 1..MaxCommands, Syscalls!CloseCsv(n) PROVE SyscallsInv'
<1> USE DEF SyscallsInv
<1>1. UNCHANGED <<strace, raw, comparison>>
  BY DEF Syscalls!CloseCsv
<1>2. profilers[n] \in ProfilerRecord /\ profilers[n].pc = "close" /\ Counts(n)
  BY DEF Syscalls!CloseCsv, ProfilerTypes
<1>3. PICK todo \in Seq(Methods) : todo = profilers[n].todo
  BY <1>2 DEF ProfilerRecord
<1>4. PICK got \in Seq(Profiles) : got = profilers[n].got
  BY <1>2 DEF ProfilerRecord
<1>5. /\ todo # <<>> /\ got # <<>> /\ Len(todo) \in Nat \ {0} /\ Len(got) \in Nat \ {0}
      /\ profilers[n].kind = "compare" => Len(got) + Len(todo) = 3 /\ profilers[n].asked \in Syscalls!Pairs
  <2>1. todo # <<>> /\ got # <<>>
    BY <1>2, <1>3, <1>4 DEF Counts
  <2>2. profilers[n].kind = "compare" => Len(got) + Len(todo) = 3 /\ profilers[n].asked \in Syscalls!Pairs
    BY <1>2, <1>3, <1>4 DEF Counts
  <2>3. Len(todo) \in Nat /\ Len(todo) # 0
    BY <2>1, EmptySeq
  <2>4. Len(got) \in Nat /\ Len(got) # 0
    BY <2>1, EmptySeq
  <2> QED
    BY <2>1, <2>2, <2>3, <2>4
<1>6. PICK rest \in Seq(Methods) : rest = Tail(todo) /\ Len(rest) = Len(todo) - 1
  BY <1>5, HeadTailProperties
<1>7. PICK place : place = IF Len(todo) > 1 THEN "spawn"
                           ELSE IF profilers[n].kind = "compare" THEN "compare" ELSE "done"
  OBVIOUS
<1> DEFINE c == [profilers[n] EXCEPT !.todo = rest, !.pc = place]
<1>8. c \in ProfilerRecord /\ c.pc = place /\ c.todo = rest /\ c.got = got
      /\ c.kind = profilers[n].kind /\ c.asked = profilers[n].asked
  <2>1. place \in {"spawn", "compare", "done"}
    BY <1>7
  <2> QED
    BY <1>2, <1>4, <2>1 DEF ProfilerRecord, Syscalls!Ended
<1>9. profilers' = [profilers EXCEPT ![n] = c] /\ profilers'[n] = c
  BY <1>3, <1>6, <1>7 DEF ProfilerTypes, Syscalls!CloseCsv
<1> HIDE DEF c
<1>10. Counts(n)'
  <2>1. CASE Len(todo) > 1
    <3>0. PICK a \in Nat, b \in Nat : a = Len(todo) /\ b = Len(got)
      BY <1>5
    <3>1. /\ Len(rest) # 0
          /\ c.kind = "compare" => Len(got) + Len(rest) = 2
      <4>1. Len(rest) = a - 1 /\ a > 1
        BY <1>6, <2>1, <3>0
      <4>2. c.kind = "compare" => b + a = 3
        BY <1>5, <1>8, <3>0
      <4>3. c.kind = "compare" => b + (a - 1) = 2
        BY <4>2
      <4> QED
        BY <3>0, <4>1, <4>3
    <3>2. rest # <<>>
      BY <3>1
    <3> QED
      BY <1>5, <1>7, <1>8, <1>9, <2>1, <3>1, <3>2 DEF Counts
  <2>2. CASE ~ (Len(todo) > 1)
    <3>1. c.kind = "compare" => Len(got) = 2
      <4>1. PICK a \in Nat, b \in Nat : a = Len(todo) /\ b = Len(got)
        BY <1>5
      <4> QED
        BY <1>5, <1>8, <2>2, <4>1
    <3>2. c.pc \in {"compare", "done"} /\ (c.pc = "compare" => c.kind = "compare")
      BY <1>7, <1>8, <2>2
    <3> QED
      BY <1>5, <1>8, <1>9, <3>1, <3>2 DEF Counts
  <2> QED
    BY <2>1, <2>2
<1>11. Traces(n)'
  BY <1>7, <1>8, <1>9 DEF Traces
<1>12. csv' \in [Methods -> CsvFiles]
  <2>1. PICK p \in Profiles : p = Syscalls!Last(profilers[n].got)
    BY <1>4, <1>5 DEF Syscalls!Last
  <2>2. PICK one : one = <<p>>
    OBVIOUS
  <2>3. one \in Seq(Profiles)
    BY <2>2
  <2>4. Syscalls!File(one) \in CsvFiles
    BY <2>3 DEF Syscalls!File, CsvFiles
  <2>5. csv' = [csv EXCEPT ![Syscalls!Current(n)] = Syscalls!File(one)]
    BY <2>1, <2>2 DEF Syscalls!CloseCsv
  <2> QED
    BY <2>4, <2>5 DEF ProfilerTypes
<1>13. comparison' \in [Syscalls!Pairs -> CsvFiles]
       /\ \A p \in Syscalls!Pairs : comparison'[p].state = "full" => Len(comparison'[p].profiles) = 2
  BY <1>1 DEF ProfilerTypes
<1>14. PICK t \in Straces : t = strace[n]
  BY DEF ProfilerTypes
<1>15. strace' = [strace EXCEPT ![n] = t] /\ (t.state \in {"starting", "running"} => t.method \in Methods)
  BY <1>1, <1>14 DEF ProfilerTypes
<1> QED
  BY <1>1, <1>8, <1>9, <1>10, <1>11, <1>12, <1>13, <1>15, ProfilerStep

\* What a file is that was just opened.
LEMMA OpenedFileIs == Syscalls!OpenedFile \in CsvFiles /\ Syscalls!OpenedFile.state = "empty"
<1>1. Syscalls!NoFile \in CsvFiles
  <2>1. <<>> \in Seq(Profiles)
    OBVIOUS
  <2> QED
    BY <2>1 DEF Syscalls!NoFile, CsvFiles
<1> QED
  BY <1>1 DEF Syscalls!OpenedFile, CsvFiles

\* Opening the comparison empties it.
LEMMA ProfilerOpenComparison ==
  ASSUME SyscallsInv, NEW n \in 1..MaxCommands, Syscalls!OpenComparison(n) PROVE SyscallsInv'
<1> USE DEF SyscallsInv
<1>1. UNCHANGED <<strace, raw, csv>>
  BY DEF Syscalls!OpenComparison
<1>2. CASE /\ comparison' = [comparison EXCEPT ![profilers[n].asked] = Syscalls!OpenedFile]
           /\ Syscalls!Goto(n, "closeComparison")
  <2>1. profilers[n] \in ProfilerRecord /\ profilers[n].pc = "compare" /\ Counts(n)
    BY DEF Syscalls!OpenComparison, ProfilerTypes
  <2> DEFINE c == [profilers[n] EXCEPT !.pc = "closeComparison"]
  <2>2. c \in ProfilerRecord /\ c.pc = "closeComparison" /\ c.todo = profilers[n].todo
        /\ c.got = profilers[n].got /\ c.kind = profilers[n].kind /\ c.asked = profilers[n].asked
    BY <2>1 DEF ProfilerRecord
  <2>3. profilers' = [profilers EXCEPT ![n] = c] /\ profilers'[n] = c
    BY <1>2 DEF ProfilerTypes, Syscalls!Goto
  <2> HIDE DEF c
  <2>4. Counts(n)'
    BY <2>1, <2>2, <2>3 DEF Counts
  <2>5. Traces(n)'
    BY <2>2, <2>3 DEF Traces
  <2>6. comparison' \in [Syscalls!Pairs -> CsvFiles]
        /\ \A p \in Syscalls!Pairs : comparison'[p].state = "full" => Len(comparison'[p].profiles) = 2
    BY <1>2, OpenedFileIs DEF ProfilerTypes
  <2>7. csv' \in [Methods -> CsvFiles]
    BY <1>1 DEF ProfilerTypes
  <2>8. PICK t \in Straces : t = strace[n]
    BY DEF ProfilerTypes
  <2>9. strace' = [strace EXCEPT ![n] = t] /\ (t.state \in {"starting", "running"} => t.method \in Methods)
    BY <1>1, <2>8 DEF ProfilerTypes
  <2> QED
    BY <1>1, <2>2, <2>3, <2>4, <2>5, <2>6, <2>7, <2>9, ProfilerStep
<1>3. CASE Syscalls!Goto(n, "done") /\ UNCHANGED comparison
  BY <1>1, <1>3, ProfilerGoto
<1> QED
  BY <1>2, <1>3 DEF Syscalls!OpenComparison

\* A comparison is written with both profiles.
LEMMA ProfilerCloseComparison ==
  ASSUME SyscallsInv, NEW n \in 1..MaxCommands, Syscalls!CloseComparison(n) PROVE SyscallsInv'
<1> USE DEF SyscallsInv
<1>1. UNCHANGED <<strace, raw, csv>>
  BY DEF Syscalls!CloseComparison
<1>2. profilers[n] \in ProfilerRecord /\ profilers[n].pc = "closeComparison" /\ Counts(n)
  BY DEF Syscalls!CloseComparison, ProfilerTypes
<1>3. PICK got \in Seq(Profiles) : got = profilers[n].got
  BY <1>2 DEF ProfilerRecord
<1> DEFINE c == [profilers[n] EXCEPT !.pc = "done"]
<1>4. c \in ProfilerRecord /\ c.pc = "done" /\ c.kind = profilers[n].kind /\ c.asked = profilers[n].asked
  BY <1>2 DEF ProfilerRecord, Syscalls!Ended
<1>5. profilers' = [profilers EXCEPT ![n] = c] /\ profilers'[n] = c
  BY DEF ProfilerTypes, Syscalls!Goto, Syscalls!CloseComparison
<1> HIDE DEF c
<1>6. Counts(n)' /\ Traces(n)'
  <2>1. Counts(n)'
    BY <1>2, <1>4, <1>5 DEF Counts
  <2>2. Traces(n)'
    BY <1>4, <1>5 DEF Traces
  <2> QED
    BY <2>1, <2>2
<1>7. Syscalls!File(got) \in CsvFiles /\ Syscalls!File(got).profiles = got /\ Len(got) = 2
  BY <1>2, <1>3 DEF Syscalls!File, CsvFiles, Counts
<1>8. comparison' = [comparison EXCEPT ![profilers[n].asked] = Syscalls!File(got)]
  BY <1>3 DEF Syscalls!CloseComparison
<1>9. comparison' \in [Syscalls!Pairs -> CsvFiles]
      /\ \A p \in Syscalls!Pairs : comparison'[p].state = "full" => Len(comparison'[p].profiles) = 2
  BY <1>7, <1>8 DEF ProfilerTypes
<1>10. csv' \in [Methods -> CsvFiles]
  BY <1>1 DEF ProfilerTypes
<1>11. PICK t \in Straces : t = strace[n]
  BY DEF ProfilerTypes
<1>12. strace' = [strace EXCEPT ![n] = t] /\ (t.state \in {"starting", "running"} => t.method \in Methods)
  BY <1>1, <1>11 DEF ProfilerTypes
<1> QED
  BY <1>1, <1>4, <1>5, <1>6, <1>9, <1>10, <1>12, ProfilerStep

\* When a strace gets hold of the file, all who are waiting for it know.
LEMMA Touched ==
  ASSUME SyscallsInv, NEW n \in 1..MaxCommands, profilers' = Syscalls!Touch(n),
         csv' = csv, comparison' = comparison,
         NEW s \in Straces, strace' = [strace EXCEPT ![n] = s],
         s.method = strace[n].method, s.method \in Methods, s.state \in {"running", "exited"},
         strace[n].state \in {"starting", "running"},
         NEW file \in Outputs, raw' = [raw EXCEPT ![s.method] = file],
         file.state = "full" => file.by \in 1..MaxCommands,
         s.state = "running" => file.state = "empty",
         s.state = "exited" => /\ file.by = n
                               /\ strace[n].state = "running"
                               /\ raw[s.method].state = "empty" => ~ file.mixed
  PROVE  SyscallsInv'
<1> USE DEF SyscallsInv
<1>1. ASSUME NEW k \in 1..MaxCommands
      PROVE  /\ profilers'[k] \in ProfilerRecord
             /\ profilers'[k].pc = profilers[k].pc /\ profilers'[k].kind = profilers[k].kind
             /\ profilers'[k].asked = profilers[k].asked /\ profilers'[k].todo = profilers[k].todo
             /\ profilers'[k].got = profilers[k].got
             /\ profilers[k].touched => profilers'[k].touched
             /\ k = n => profilers'[k] = profilers[k]
             /\ k # n /\ profilers[k].pc \in {"waitpid", "parse"} /\ Syscalls!Current(k) = s.method
                  => profilers'[k].touched
             /\ profilers[k].pc \notin {"waitpid", "parse"} => profilers'[k] = profilers[k]
  <2>1. profilers[k] \in ProfilerRecord
    BY DEF ProfilerTypes
  <2>2. CASE k # n /\ profilers[k].pc \in {"waitpid", "parse"} /\ Syscalls!Current(k) = s.method
    <3>1. profilers'[k] = [profilers[k] EXCEPT !.touched = profilers[k].touched \/ Syscalls!Current(k) = strace[n].method]
      BY <2>2 DEF Syscalls!Touch
    <3>2. profilers'[k] = [profilers[k] EXCEPT !.touched = TRUE]
      BY <2>2, <3>1
    <3> QED
      BY <2>1, <2>2, <3>2 DEF ProfilerRecord
  <2>3. CASE ~ (k # n /\ profilers[k].pc \in {"waitpid", "parse"} /\ Syscalls!Current(k) = s.method)
    <3>1. profilers'[k] = profilers[k]
      BY <2>3 DEF Syscalls!Touch
    <3> QED
      BY <2>1, <2>3, <3>1
  <2> QED
    BY <2>2, <2>3
<1>2. /\ strace'[n] = s /\ \A k \in (1..MaxCommands) \ {n} : strace'[k] = strace[k]
      /\ raw'[s.method] = file /\ \A m \in Methods \ {s.method} : raw'[m] = raw[m]
  BY DEF ProfilerTypes
<1>3. ProfilerTypes'
  <2>1. profilers' \in [1..MaxCommands -> ProfilerRecord]
    <3>1. profilers' = [k \in 1..MaxCommands |-> profilers'[k]]
      BY DEF Syscalls!Touch
    <3> QED
      BY <1>1, <3>1
  <2> QED
    BY <1>2, <2>1 DEF ProfilerTypes
<1>4. ASSUME NEW k \in 1..MaxCommands PROVE Counts(k)'
  <2>1. /\ profilers'[k].pc = profilers[k].pc /\ profilers'[k].kind = profilers[k].kind
        /\ profilers'[k].asked = profilers[k].asked /\ profilers'[k].todo = profilers[k].todo
        /\ profilers'[k].got = profilers[k].got
    BY <1>1
  <2>2. Counts(k)
    OBVIOUS
  <2> HIDE DEF SyscallsInv
  <2> QED
    BY <2>1, <2>2 DEF Counts
<1>5. ASSUME NEW k \in 1..MaxCommands PROVE Traces(k)'
  <2>1. Syscalls!Current(k)' = Syscalls!Current(k)
    BY <1>1 DEF Syscalls!Current
  <2>2. Traces(k)
    OBVIOUS
  <2>3. profilers[k].pc \in {"waitpid", "parse", "save"} => Syscalls!Current(k) \in Methods
    <3>1. profilers[k] \in ProfilerRecord /\ Counts(k)
      BY DEF ProfilerTypes
    <3>2. PICK todo \in Seq(Methods) : todo = profilers[k].todo
      BY <3>1 DEF ProfilerRecord
    <3>3. CASE profilers[k].pc \in {"waitpid", "parse", "save"}
      <4>1. todo # <<>>
        BY <3>1, <3>2, <3>3 DEF Counts
      <4> QED
        BY <3>2, <4>1, HeadTailProperties DEF Syscalls!Current
    <3> QED
      BY <3>3
  <2>4. CASE k = n
    <3>1. profilers'[n] = profilers[n] /\ profilers[n].pc \notin {"parse", "save"}
      BY <1>1, <2>2, <2>4 DEF Traces
    <3>2. profilers[n].pc = "waitpid" => Syscalls!Current(n) = s.method
      BY <2>2, <2>4 DEF Traces
    <3>3. s.state = "exited" /\ profilers[n].pc = "waitpid" /\ ~ profilers[n].touched => ~ file.mixed
      BY <2>2, <2>4, <3>2 DEF Traces
    <3> QED
      BY <1>2, <2>1, <2>4, <3>1, <3>2, <3>3 DEF Traces
  <2>5. CASE k # n
    <3>1. profilers'[k].touched \/ profilers[k].pc \notin {"waitpid", "parse"}
            \/ (profilers[k].pc \in {"waitpid", "parse"} /\ ~ profilers[k].touched
                  /\ raw'[Syscalls!Current(k)] = raw[Syscalls!Current(k)])
      BY <1>1, <1>2, <2>3, <2>5
    <3>2. profilers[k].pc = "save" => profilers'[k] = profilers[k]
      BY <1>1
    <3> QED
      BY <1>1, <1>2, <2>1, <2>2, <2>5, <3>1, <3>2 DEF Traces
  <2> QED
    BY <2>4, <2>5
<1> QED
  BY <1>3, <1>4, <1>5

\* What strace leaves when it opens its file and when it exits.
LEMMA OutputsAre ==
  /\ Syscalls!EmptyOutput \in Outputs /\ Syscalls!EmptyOutput.state = "empty"
  /\ \A n \in 1..MaxCommands, names \in SUBSET Names, longer \in BOOLEAN :
       LET file == [Syscalls!Output(n, names) EXCEPT !.mixed = longer]
       IN file \in Outputs /\ file.state = "full" /\ file.by = n /\ file.mixed = longer
<1>1. MaxCommands \in Nat
  BY SyscallsInstance DEF Syscalls!SyscallsAssumption
<1>2. Syscalls!NoOutput \in Outputs
  BY <1>1 DEF Syscalls!NoOutput, Outputs
<1>3. Syscalls!EmptyOutput \in Outputs /\ Syscalls!EmptyOutput.state = "empty"
  BY <1>2 DEF Syscalls!EmptyOutput, Outputs
<1>4. ASSUME NEW n \in 1..MaxCommands, NEW names \in SUBSET Names, NEW longer \in BOOLEAN
      PROVE  LET file == [Syscalls!Output(n, names) EXCEPT !.mixed = longer]
             IN file \in Outputs /\ file.state = "full" /\ file.by = n /\ file.mixed = longer
  <2>1. PICK f : f = Syscalls!Output(n, names)
    OBVIOUS
  <2>2. n \in 0..MaxCommands
    BY <1>1
  <2>3. f = [state |-> "full", by |-> n, rows |-> names, mixed |-> FALSE]
    BY <2>1 DEF Syscalls!Output
  <2>4. f \in Outputs /\ f.state = "full" /\ f.by = n
    BY <2>2, <2>3 DEF Outputs
  <2> QED
    BY <2>1, <2>4 DEF Outputs
<1> QED
  BY <1>3, <1>4

\* strace empties its file; who waits for another strace of the method is touched.
LEMMA ProfilerOpenRaw ==
  ASSUME SyscallsInv, NEW n \in 1..MaxCommands, Syscalls!OpenRaw(n) PROVE SyscallsInv'
<1>1. PICK old \in Straces : old = strace[n]
  BY DEF SyscallsInv, ProfilerTypes
<1>2. PICK s : s = [old EXCEPT !.state = "running"]
  OBVIOUS
<1>3. s \in Straces /\ s.state = "running" /\ s.method = old.method
  BY <1>1, <1>2 DEF Straces
<1>4. strace' = [strace EXCEPT ![n] = s]
  BY <1>1, <1>2 DEF Syscalls!OpenRaw
<1>5. s.method \in Methods /\ strace[n].state = "starting"
  BY <1>1, <1>3 DEF Syscalls!OpenRaw, SyscallsInv, ProfilerTypes
<1>6. PICK file : file = Syscalls!EmptyOutput
  OBVIOUS
<1>7. file \in Outputs /\ file.state = "empty"
  BY <1>6, OutputsAre
<1>8. raw' = [raw EXCEPT ![s.method] = file]
  BY <1>1, <1>3, <1>6 DEF Syscalls!OpenRaw
<1>9. profilers' = Syscalls!Touch(n) /\ csv' = csv /\ comparison' = comparison
  BY DEF Syscalls!OpenRaw
<1> QED
  BY <1>1, <1>3, <1>4, <1>5, <1>7, <1>8, <1>9, Touched

\* strace writes its file and exits; who waits for another is touched again.
LEMMA ProfilerWriteRaw ==
  ASSUME SyscallsInv, NEW n \in 1..MaxCommands, Syscalls!WriteRaw(n) PROVE SyscallsInv'
<1>1. PICK old \in Straces : old = strace[n]
  BY DEF SyscallsInv, ProfilerTypes
<1>2. PICK ok \in BOOLEAN, names \in SUBSET Names, longer \in BOOLEAN :
        /\ longer => raw[strace[n].method].state = "full"
        /\ strace' = [strace EXCEPT ![n].state = "exited", ![n].ok = ok]
        /\ raw' = [raw EXCEPT ![strace[n].method] = [Syscalls!Output(n, names) EXCEPT !.mixed = longer]]
  BY DEF Syscalls!WriteRaw
<1>3. PICK s : s = [old EXCEPT !.state = "exited", !.ok = ok]
  OBVIOUS
<1>4. s \in Straces /\ s.state = "exited" /\ s.method = old.method
  BY <1>1, <1>2, <1>3 DEF Straces
<1>5. strace' = [strace EXCEPT ![n] = s]
  BY <1>1, <1>2, <1>3
<1>6. s.method \in Methods /\ strace[n].state = "running"
  BY <1>1, <1>4 DEF Syscalls!WriteRaw, SyscallsInv, ProfilerTypes
<1>7. PICK file : file = [Syscalls!Output(n, names) EXCEPT !.mixed = longer]
  OBVIOUS
<1>8. file \in Outputs /\ file.state = "full" /\ file.by = n /\ file.mixed = longer
  BY <1>7, OutputsAre
<1>9. raw' = [raw EXCEPT ![s.method] = file] /\ (longer => raw[s.method].state = "full")
  BY <1>1, <1>2, <1>4, <1>7
<1>10. profilers' = Syscalls!Touch(n) /\ csv' = csv /\ comparison' = comparison
  BY DEF Syscalls!WriteRaw
<1>11. raw[s.method].state = "empty" => ~ file.mixed
  BY <1>8, <1>9
<1> QED
  BY <1>1, <1>4, <1>5, <1>6, <1>8, <1>9, <1>10, <1>11, Touched

\* Every step of a profiler and its strace keeps the invariant.
LEMMA SyscallsStep ==
  ASSUME SyscallsInv, Syscalls!Next PROVE SyscallsInv'
<1>1. PICK n \in 1..MaxCommands :
        \/ Syscalls!Start(n) \/ Syscalls!Spawn(n) \/ Syscalls!OpenRaw(n) \/ Syscalls!WriteRaw(n)
        \/ Syscalls!WaitStrace(n) \/ Syscalls!Parse(n) \/ Syscalls!OpenCsv(n) \/ Syscalls!CloseCsv(n)
        \/ Syscalls!OpenComparison(n) \/ Syscalls!CloseComparison(n) \/ Syscalls!Kill(n)
  BY DEF Syscalls!Next
<1>2. CASE Syscalls!Start(n)
  BY <1>2, ProfilerStart
<1>3. CASE Syscalls!Spawn(n)
  BY <1>3, ProfilerSpawn
<1>4. CASE Syscalls!OpenRaw(n)
  BY <1>4, ProfilerOpenRaw
<1>5. CASE Syscalls!WriteRaw(n)
  BY <1>5, ProfilerWriteRaw
<1>6. CASE Syscalls!WaitStrace(n)
  BY <1>6, ProfilerWait
<1>7. CASE Syscalls!Parse(n)
  BY <1>7, ProfilerParse
<1>8. CASE Syscalls!OpenCsv(n)
  BY <1>8, ProfilerOpenCsv
<1>9. CASE Syscalls!CloseCsv(n)
  BY <1>9, ProfilerCloseCsv
<1>10. CASE Syscalls!OpenComparison(n)
  BY <1>10, ProfilerOpenComparison
<1>11. CASE Syscalls!CloseComparison(n)
  BY <1>11, ProfilerCloseComparison
<1>12. CASE Syscalls!Kill(n)
  BY <1>12, ProfilerGoto DEF Syscalls!Kill
<1> QED
  BY <1>1, <1>2, <1>3, <1>4, <1>5, <1>6, <1>7, <1>8, <1>9, <1>10, <1>11, <1>12

\* The invariant is what ProfileIsOwn needs.
LEMMA SyscallsInvIsOwn == SyscallsInv => Syscalls!ProfileIsOwn
<1> SUFFICES ASSUME SyscallsInv PROVE Syscalls!ProfileIsOwn
  OBVIOUS
<1> USE DEF SyscallsInv
<1>1. ASSUME NEW s \in Seq(Profiles), NEW i \in DOMAIN s PROVE Syscalls!IsProfile(s[i])
  <2>1. s[i] \in Profiles
    OBVIOUS
  <2> QED
    BY <2>1 DEF Profiles, Syscalls!IsProfile
<1>2. ASSUME NEW n \in 1..MaxCommands
      PROVE  /\ profilers[n].pc \in {"none", "spawn", "waitpid", "parse", "save", "close", "compare",
                                      "closeComparison"} \cup Syscalls!Ended
             /\ profilers[n].got \in Seq(Profiles)
             /\ strace[n].state \in {"none", "starting", "running", "exited"}
  <2>1. profilers[n] \in ProfilerRecord /\ strace[n] \in Straces
    BY DEF ProfilerTypes
  <2> QED
    BY <2>1 DEF ProfilerRecord, Straces
<1>3. \A m \in Methods : raw[m].state \in {"absent", "empty", "full"} /\ csv[m].profiles \in Seq(Profiles)
  BY DEF ProfilerTypes, Outputs, CsvFiles
<1>4. \A p \in Syscalls!Pairs : comparison[p].profiles \in Seq(Profiles)
  BY DEF ProfilerTypes, CsvFiles
<1>5. Syscalls!TypeOK
  BY <1>1, <1>2, <1>3, <1>4 DEF Syscalls!TypeOK
<1>6. \A n \in 1..MaxCommands : profilers[n].pc = "save" =>
        /\ ~ profilers[n].touched =>
             Syscalls!Last(profilers[n].got).by = n /\ ~ Syscalls!Last(profilers[n].got).mixed
        /\ strace[n].state = "exited" /\ strace[n].ok /\ strace[n].method = Syscalls!Current(n)
  BY DEF Traces
<1>7. \A p \in Syscalls!Pairs : Len(p) = 2
  BY DEF Syscalls!Pairs
<1>8. \A p \in Syscalls!Pairs : comparison[p].state = "full" => Len(comparison[p].profiles) = Len(p)
  BY <1>7 DEF ProfilerTypes
<1> QED
  BY <1>5, <1>6, <1>8 DEF Syscalls!ProfileIsOwn

-----------------------------------------------------------------------------
(* The selector: its invariant.                                            *)

\* What the selector's data are.
Rows == [method : ToSet(Streams) \cup {"SHM", "SHM-RING", "none"}, ms : Latencies \cup {0},
         from : Selector!Sources \cup {"none"}, stamp : Nat]
Files == [state : {"absent", "empty", "full"}, rows : Seq(Rows), best : Nat, tail : BOOLEAN]
Reports == [source : {"none", "existing", "both"}, cand : Seq(Rows), best : Nat]

\* The number of methods, and their order.
Count == Len(Streams) + 1
MethodsWith(last) == Append(Streams, last)

\* The rows of a chunk optimization: one per method, all of one stamp.
IsSweep(s) ==
  /\ Len(s) = Count
  /\ \A i \in 1..Count : /\ s[i] \in measured /\ s[i].from = "chunk" /\ s[i].stamp = s[1].stamp
                         /\ s[i].method = MethodsWith("SHM")[i]

\* The row of a comparison.
IsOfRing(r) == r \in measured /\ r.method = "SHM-RING" /\ r.from \in RingChunks

\* A measurement, or that of SHM under the name of the ring.
IsMeasured(r) == r \in measured \/ [r EXCEPT !.method = "SHM"] \in measured

\* What may be chosen from, and the choice.
AreCandidates(s) ==
  /\ Len(s) = Count
  /\ \A i \in 1..Count : /\ s[i].method = MethodsWith("SHM-RING")[i]
                         /\ s[i].from \in Selector!Sources
                         /\ s[i].ms \in Latencies
                         /\ IsMeasured(s[i])

\* b is the first of the fastest candidates.
IsChoice(s, b) ==
  /\ AreCandidates(s)
  /\ b \in 1..Count
  /\ \A i \in 1..Count : s[b].ms =< s[i].ms /\ (i < b => s[b].ms < s[i].ms)

\* Not older than what was on disk when command n started.
IsNew(n, s) == \A i \in DOMAIN s : s[i].stamp >= commands[n].since[s[i].from]

\* The places before a report, and all places.
Before == {"none", "check", "readSummary", "readRing", "closeProfile", "autoCheck",
           "workloadCheck", "sweep", "sweepClose", "compare", "compareClose"}
Places == Before \cup {"autoReload", "workloadReload", "execute", "save"} \cup Selector!Ended

\* What is known of a command.
CommandRecord ==
  [kind : Selector!Kinds \cup {"none"}, pc : Places, cand : Seq(Rows), ring : Rows,
   todo : SUBSET RingChunks, since : [Selector!Sources -> Nat], report : Reports,
   result : Rows, origin : {"none", "REUSED", "GENERATED"}]

\* Stamps grow, and nothing is measured with one that is to come.
DataTypes ==
  /\ clock \in 0..MaxMeasured
  /\ measured \subseteq {r \in Rows : r.ms # 0 /\ r.stamp =< clock}
SelectorData ==
  /\ commands \in [1..MaxCommands -> CommandRecord]
  /\ \A n \in 1..MaxCommands : \A f \in Selector!Sources : commands[n].since[f] =< clock

\* A full file holds what its writer writes, any other nothing.
FilesHold ==
  /\ summary \in Files /\ profile \in Files /\ ring \in [RingChunks -> Files]
  /\ IF summary.state = "full" THEN IsSweep(summary.rows) ELSE summary.rows = <<>>
  /\ \A c \in RingChunks :
       IF ring[c].state = "full"
       THEN Len(ring[c].rows) = 1 /\ IsOfRing(ring[c].rows[1]) /\ ring[c].rows[1].from = c
       ELSE ring[c].rows = <<>>
  /\ IF profile.state = "full" THEN IsChoice(profile.rows, profile.best) ELSE profile.rows = <<>>

\* What is on disk is not older than what was there when a command started.
FilesAreNew ==
  \A n \in 1..MaxCommands :
    /\ summary.state = "full" => summary.rows[1].stamp >= commands[n].since["chunk"]
    /\ \A c \in RingChunks : ring[c].state = "full" =>
         ring[c].rows[1].stamp >= commands[n].since[c]

\* What command n has at each place.
CommandHolds(n) ==
  /\ commands[n].pc \in {"check", "readSummary", "readRing", "closeProfile"} =>
       commands[n].kind \in {"recommend", "auto", "workloads"}
  /\ commands[n].pc = "autoCheck" => commands[n].kind = "auto"
  /\ commands[n].pc \in Before =>
       commands[n].report.source = "none" /\ commands[n].result = Selector!NoRow
  /\ commands[n].pc \in {"autoReload", "workloadReload"} => commands[n].report.source # "none"
  /\ commands[n].pc # "readRing" => commands[n].ring = Selector!NoRow
  /\ commands[n].pc \notin {"readRing", "closeProfile"} => commands[n].cand = <<>>
  /\ commands[n].result # Selector!NoRow => IsMeasured(commands[n].result)
  /\ commands[n].pc = "readRing" =>
       /\ IsSweep(commands[n].cand) /\ IsNew(n, commands[n].cand)
       /\ commands[n].ring # Selector!NoRow =>
            /\ IsOfRing(commands[n].ring)
            /\ commands[n].ring.stamp >= commands[n].since[commands[n].ring.from]
  /\ commands[n].pc = "closeProfile" =>
       AreCandidates(commands[n].cand) /\ IsNew(n, commands[n].cand)
  /\ IF commands[n].report.source = "none" THEN commands[n].report.cand = <<>>
     ELSE IsChoice(commands[n].report.cand, commands[n].report.best)
  /\ commands[n].report.source = "both" => IsNew(n, commands[n].report.cand)

\* What only command n has built is as it built it.
Alone(n) == \A m \in (1..MaxCommands) \ {n} : ~ Selector!Builder(m)

\* The profile is whole and the one n reported.
OwnHolds(n) ==
  /\ profile.tail = FALSE
  /\ commands[n].pc = "closeProfile" => profile.state = "empty"
  /\ commands[n].report.source # "none" =>
       /\ profile.state = "full" /\ profile.rows = commands[n].report.cand
       /\ profile.best = commands[n].report.best
  /\ commands[n].pc # "invalid"
  /\ commands[n].result # Selector!NoRow /\ commands[n].report.source # "none" =>
       commands[n].result = commands[n].report.cand[commands[n].report.best]

\* The invariant of the selector.
SelectorInv ==
  /\ DataTypes /\ SelectorData /\ FilesHold /\ FilesAreNew
  /\ \A n \in 1..MaxCommands : CommandHolds(n) /\ (Alone(n) => OwnHolds(n))

\* The loop over the candidates finds the first with the lowest median.
LEMMA BestOfIsFirst ==
  ASSUME NEW s \in Seq(Rows), Len(s) # 0, \A i \in 1..Len(s) : s[i].ms \in Nat
  PROVE  /\ Selector!BestOf(s) \in 1..Len(s)
         /\ \A i \in 1..Len(s) : /\ s[Selector!BestOf(s)].ms =< s[i].ms
                                 /\ i < Selector!BestOf(s) => s[Selector!BestOf(s)].ms < s[i].ms
<1> DEFINE n == Len(s)
           key == [i \in 1..n |-> s[i].ms]
           Eq(f) == f = [i \in DOMAIN s |-> IF i = 1 THEN 1
                           ELSE IF Selector!Lower(s[i], s[f[i - 1]]) THEN i ELSE f[i - 1]]
           upTo == CHOOSE f : Eq(f)
<1>1. n \in Nat \ {0} /\ DOMAIN s = 1..n /\ key \in [1..n -> Int]
  OBVIOUS
<1>2. \A i \in 1..n : key[i] = s[i].ms
  OBVIOUS
<1>3. \E f : Eq(f)
  <2> HIDE DEF key, n
  <2>1. PICK f \in [1..n -> 1..n] : IsScan(f, key, n) /\ \A i \in 1..n : f[i] \in 1..i
    BY <1>1, ScanExists
  <2>2. \A i \in 1..n : i # 1 => i \in 2..n /\ i - 1 \in 1..n
    BY <1>1
  <2>3. f = [i \in 1..n |-> IF i = 1 THEN 1 ELSE IF s[i].ms < s[f[i - 1]].ms THEN i ELSE f[i - 1]]
    BY <1>1, <1>2, <2>1, <2>2 DEF IsScan
  <2> QED
    BY <1>1, <2>3 DEF Selector!Lower
<1>4. Eq(upTo)
  <2> HIDE DEF Eq
  <2> QED
    BY <1>3
<1> HIDE DEF upTo, key, n
<1>5. \A i \in 1..n : upTo[i] = IF i = 1 THEN 1 ELSE IF s[i].ms < s[upTo[i - 1]].ms THEN i ELSE upTo[i - 1]
  BY <1>1, <1>4 DEF Selector!Lower
<1>6. IsScan(upTo, key, n)
  <2>1. ASSUME NEW i \in 2..n, upTo[i - 1] \in 1..(i - 1)
        PROVE  upTo[i] = IF key[i] < key[upTo[i - 1]] THEN i ELSE upTo[i - 1]
    <3>1. i \in 1..n /\ i # 1 /\ upTo[i - 1] \in 1..n
      BY <1>1, <2>1
    <3> QED
      BY <1>2, <1>5, <3>1
  <2> QED
    BY <1>1, <1>5, <2>1 DEF IsScan
<1>7. IsFirstLowest(upTo[n], key, n)
  BY <1>1, <1>6, ScanIsFirstLowest
<1>8. Selector!BestOf(s) = upTo[n]
  BY DEF Selector!BestOf, upTo, n
<1> QED
  BY <1>1, <1>2, <1>7, <1>8 DEF IsFirstLowest, n

-----------------------------------------------------------------------------
(* What a step of one command leaves alone.                                *)

\* What the constants of the selector are.
LEMMA Constants ==
  /\ Count \in Nat \ {0} /\ Streams \in Seq(STRING)
  /\ DefaultChunk \in RingChunks /\ "chunk" \notin RingChunks
  /\ Latencies \subseteq Nat \ {0}
  /\ MaxCommands \in Nat /\ MaxMeasured \in Nat
BY SelectorInstance DEF Selector!SelectorAssumption, Count

\* Measurements are only added, so that what rests on them stays.
LEMMA Published ==
  ASSUME measured \subseteq measured'
  PROVE  /\ \A s : IsSweep(s) => IsSweep(s)'
         /\ \A r : IsOfRing(r) => IsOfRing(r)'
         /\ \A r : IsMeasured(r) => IsMeasured(r)'
         /\ \A s : AreCandidates(s) => AreCandidates(s)'
         /\ \A s, b : IsChoice(s, b) => IsChoice(s, b)'
<1>1. ASSUME NEW s, IsSweep(s) PROVE IsSweep(s)'
  BY <1>1 DEF IsSweep
<1>2. ASSUME NEW s, AreCandidates(s) PROVE AreCandidates(s)'
  BY <1>2 DEF AreCandidates, IsMeasured
<1>3. ASSUME NEW s, NEW b, IsChoice(s, b) PROVE IsChoice(s, b)'
  BY <1>2, <1>3 DEF IsChoice
<1>4. ASSUME NEW r, IsOfRing(r) PROVE IsOfRing(r)'
  BY <1>4 DEF IsOfRing
<1>5. ASSUME NEW r, IsMeasured(r) PROVE IsMeasured(r)'
  BY <1>5 DEF IsMeasured
<1> QED
  BY <1>1, <1>2, <1>3, <1>4, <1>5

\* A step of command n keeps the invariant if it keeps what is about the
\* files and about n, and if a command that writes the profile is known for it.
LEMMA StepInv ==
  ASSUME SelectorInv, NEW n \in 1..MaxCommands,
         DataTypes', FilesHold', FilesAreNew', measured \subseteq measured', clock =< clock',
         profile' = profile \/ Selector!Builder(n)',
         NEW c \in CommandRecord, commands' = [commands EXCEPT ![n] = c],
         \A f \in Selector!Sources : c.since[f] =< clock',
         CommandHolds(n)',
         Selector!Builder(n) => Selector!Builder(n)',
         Alone(n) /\ OwnHolds(n) => OwnHolds(n)'
  PROVE  SelectorInv'
<1> USE DEF SelectorInv
<1>0. /\ commands'[n] = c
      /\ \A m \in (1..MaxCommands) \ {n} : commands'[m] = commands[m]
  BY DEF SelectorData
<1>1. SelectorData'
  <2>1. clock \in Nat /\ clock' \in Nat
    BY Constants DEF DataTypes
  <2>2. ASSUME NEW m \in 1..MaxCommands, NEW f \in Selector!Sources PROVE commands'[m].since[f] =< clock'
    <3>1. CASE m # n
      <4>1. commands[m].since[f] \in Nat
        BY DEF SelectorData, CommandRecord
      <4> QED
        BY <1>0, <2>1, <3>1, <4>1 DEF SelectorData
    <3> QED
      BY <1>0, <3>1
  <2> QED
    BY <2>2 DEF SelectorData
<1>2. ASSUME NEW m \in 1..MaxCommands PROVE CommandHolds(m)'
  <2>1. CASE m # n
    BY <1>0, <2>1, Published DEF CommandHolds, IsNew
  <2> QED
    BY <2>1
<1>3. ASSUME NEW m \in 1..MaxCommands, Alone(m)' PROVE OwnHolds(m)'
  <2>1. CASE m = n
    <3>1. Alone(n)
      BY <1>0, <1>3, <2>1 DEF Alone, Selector!Builder, Selector!At
    <3> QED
      BY <2>1, <3>1
  <2>2. CASE m # n
    <3>1. ASSUME NEW k \in (1..MaxCommands) \ {m}, Selector!Builder(k) PROVE FALSE
      <4>1. ~ Selector!Builder(k)'
        BY <1>3 DEF Alone
      <4>2. k # n
        BY <3>1, <4>1
      <4> QED
        BY <1>0, <3>1, <4>1, <4>2 DEF Selector!Builder, Selector!At
    <3>2. OwnHolds(m)
      BY <3>1 DEF Alone
    <3>3. profile' = profile
      BY <1>3, <2>2 DEF Alone
    <3> QED
      BY <1>0, <2>2, <3>2, <3>3 DEF OwnHolds
  <2> QED
    BY <2>1, <2>2
<1> QED
  BY <1>1, <1>2, <1>3

\* The same for a step that only reads.
LEMMA StepKeepsFiles ==
  ASSUME SelectorInv, NEW n \in 1..MaxCommands,
         UNCHANGED <<summary, ring, profile, clock, measured>>,
         NEW c \in CommandRecord, commands' = [commands EXCEPT ![n] = c],
         c.since = commands[n].since,
         CommandHolds(n)',
         Selector!Builder(n) => Selector!Builder(n)',
         Alone(n) /\ OwnHolds(n) => OwnHolds(n)'
  PROVE  SelectorInv'
<1> USE DEF SelectorInv
<1>0. /\ commands'[n] = c
      /\ \A m \in (1..MaxCommands) \ {n} : commands'[m] = commands[m]
      /\ \A m \in 1..MaxCommands : commands'[m].since = commands[m].since
  BY DEF SelectorData
<1>1. DataTypes' /\ clock =< clock'
  BY Constants DEF DataTypes
<1>2. FilesHold'
  BY Published DEF FilesHold
<1>3. FilesAreNew'
  BY <1>0 DEF FilesAreNew
<1>4. \A f \in Selector!Sources : c.since[f] =< clock'
  BY DEF SelectorData
<1> QED
  BY <1>1, <1>2, <1>3, <1>4, StepInv

USE DEF Selector!Command, Selector!At

\* The record of a command.
LEMMA ReadOnly ==
  ASSUME SelectorInv, NEW n \in 1..MaxCommands
  PROVE  commands[n] \in CommandRecord
BY DEF SelectorInv, SelectorData

\* The command ends, or fails.
LEMMA EndInv ==
  ASSUME SelectorInv, NEW n \in 1..MaxCommands, NEW how \in {"failed", "killed"},
         commands[n].pc # "closeProfile" \/ how = "killed", commands[n].pc # "killed",
         Selector!End(n, how), UNCHANGED <<summary, ring, profile, clock, measured>>
  PROVE  SelectorInv'
<1> DEFINE c == [commands[n] EXCEPT !.pc = how, !.cand = <<>>, !.ring = Selector!NoRow, !.todo = {}]
<1>1. commands[n] \in CommandRecord
  BY ReadOnly
<1>2. Selector!NoRow \in Rows
  BY DEF Selector!NoRow, Selector!Row, Rows
<1>3. c \in CommandRecord
  <2>1. <<>> \in Seq(Rows) /\ {} \in SUBSET RingChunks /\ how \in Places
    BY DEF Places, Selector!Ended
  <2> QED
    BY <1>1, <1>2, <2>1 DEF CommandRecord
<1>4. commands' = [commands EXCEPT ![n] = c] /\ commands'[n] = c
  BY DEF Selector!End, SelectorInv, SelectorData
<1>5. /\ c.pc = how /\ c.since = commands[n].since /\ c.report = commands[n].report
      /\ c.result = commands[n].result
  BY <1>1 DEF CommandRecord
<1>55. c.ring = Selector!NoRow /\ c.cand = <<>>
  BY <1>1 DEF CommandRecord
<1> HIDE DEF c
<1>6. CommandHolds(n)'
  BY <1>4, <1>5, <1>55, Published DEF SelectorInv, CommandHolds, Before, IsNew
<1>7. Selector!Builder(n) => Selector!Builder(n)'
  BY <1>4, <1>5 DEF Selector!Builder
<1>8. Alone(n) /\ OwnHolds(n) => OwnHolds(n)'
  BY <1>4, <1>5 DEF OwnHolds
<1> QED
  BY <1>3, <1>4, <1>5, <1>6, <1>7, <1>8, StepKeepsFiles

\* The command goes on to another place and keeps everything else.
LEMMA GotoInv ==
  ASSUME SelectorInv, NEW n \in 1..MaxCommands, NEW place \in Places,
         commands' = [commands EXCEPT ![n].pc = place],
         UNCHANGED <<summary, ring, profile, clock, measured>>,
         commands[n].pc \notin {"closeProfile", "killed"}, place \notin {"closeProfile", "invalid"},
         CommandHolds(n)'
  PROVE  SelectorInv'
<1> DEFINE c == [commands[n] EXCEPT !.pc = place]
<1>1. commands[n] \in CommandRecord
  BY ReadOnly
<1>2. c \in CommandRecord
  BY <1>1 DEF CommandRecord
<1>3. commands' = [commands EXCEPT ![n] = c] /\ commands'[n] = c
  BY DEF SelectorInv, SelectorData
<1>4. /\ c.pc = place /\ c.since = commands[n].since
      /\ c.report = commands[n].report /\ c.result = commands[n].result
  BY <1>1 DEF CommandRecord
<1> HIDE DEF c
<1>5. Selector!Builder(n) => Selector!Builder(n)'
  BY <1>3, <1>4 DEF Selector!Builder
<1>6. Alone(n) /\ OwnHolds(n) => OwnHolds(n)'
  BY <1>3, <1>4 DEF OwnHolds
<1> QED
  BY <1>2, <1>3, <1>4, <1>5, <1>6, StepKeepsFiles

\* A profile that loads is reported; otherwise it is built.
LEMMA CheckInv ==
  ASSUME SelectorInv, NEW n \in 1..MaxCommands, Selector!Check(n) PROVE SelectorInv'
<1> USE DEF SelectorInv
<1>1. commands[n] \in CommandRecord /\ profile \in Files
  BY ReadOnly DEF FilesHold
<1>2. CASE Selector!Loads(profile)
  <2> DEFINE c == [commands[n] EXCEPT !.pc = Selector!AfterRecommend(n),
                                      !.report = Selector!Existing(profile)]
  <2>1. Selector!AfterRecommend(n) \in {"done", "autoReload", "workloadReload"}
    BY DEF Selector!Check, CommandHolds, Selector!AfterRecommend
  <2>2. Selector!Existing(profile) \in Reports
    BY <1>1 DEF Selector!Existing, Reports, Files
  <2>3. c \in CommandRecord
    BY <1>1, <2>1, <2>2 DEF CommandRecord, Places, Before, Selector!Ended
  <2>4. commands' = [commands EXCEPT ![n] = c] /\ commands'[n] = c
    BY <1>2 DEF Selector!Check, SelectorData
  <2>5. /\ c.pc = Selector!AfterRecommend(n) /\ c.since = commands[n].since
        /\ c.report = Selector!Existing(profile) /\ c.result = commands[n].result
    BY <1>1 DEF CommandRecord
  <2>55. c.ring = Selector!NoRow /\ c.cand = <<>>
    BY <1>1 DEF CommandRecord, CommandHolds, Selector!Check
  <2>6. /\ c.report.source = "existing" /\ c.report.cand = profile.rows
        /\ c.report.best = profile.best
    BY <2>5 DEF Selector!Existing
  <2>7. IsChoice(profile.rows, profile.best) /\ profile.state = "full"
    BY <1>2 DEF FilesHold, Selector!Loads
  <2>8. commands[n].result = Selector!NoRow /\ commands[n].report.source = "none" /\ commands[n].pc = "check"
    BY DEF Selector!Check, CommandHolds, Before
  <2> HIDE DEF c
  <2>9. UNCHANGED <<summary, ring, profile, clock, measured>>
    BY DEF Selector!Check
  <2>10. CommandHolds(n)'
    <3>1. IsChoice(profile.rows, profile.best)'
      BY <2>7, <2>9, Published
    <3> QED
      BY <2>1, <2>4, <2>5, <2>55, <2>6, <2>8, <2>9, <3>1 DEF CommandHolds, Before
  <2>11. Selector!Builder(n) => Selector!Builder(n)'
    BY <2>8 DEF Selector!Builder
  <2>12. Alone(n) /\ OwnHolds(n) => OwnHolds(n)'
    BY <2>1, <2>4, <2>5, <2>6, <2>7, <2>8, <2>9 DEF OwnHolds
  <2> QED
    BY <2>3, <2>4, <2>5, <2>9, <2>10, <2>11, <2>12, StepKeepsFiles
<1>3. CASE ~ Selector!Loads(profile)
  <2>1. commands' = [commands EXCEPT ![n].pc = "readSummary"]
    BY <1>3 DEF Selector!Check
  <2>2. UNCHANGED <<summary, ring, profile, clock, measured>> /\ commands[n].pc = "check"
    BY DEF Selector!Check
  <2>3. CommandHolds(n)'
    BY <1>1, <2>1, <2>2, Published DEF CommandHolds, Before, IsNew, SelectorData, CommandRecord
  <2>4. "readSummary" \in Places
    BY DEF Places, Before
  <2> QED
    BY <2>1, <2>2, <2>3, <2>4, GotoInv
<1> QED
  BY <1>2, <1>3

\* What was chosen is executed or saved.
LEMMA ExecuteInv ==
  ASSUME SelectorInv, NEW n \in 1..MaxCommands,
         Selector!Execute(n) \/ Selector!SaveWorkloads(n)
  PROVE SelectorInv'
<1> USE DEF SelectorInv
<1>1. commands[n] \in CommandRecord /\ commands[n].pc \in {"execute", "save"}
  BY ReadOnly DEF Selector!Execute, Selector!SaveWorkloads
<1>2. UNCHANGED <<summary, ring, profile, clock, measured>>
  BY DEF Selector!Execute, Selector!SaveWorkloads
<1>3. CASE Selector!Goto(n, "done")
  <2>1. CommandHolds(n)'
    BY <1>1, <1>2, <1>3, Published DEF Selector!Goto, CommandHolds, Before, IsNew, SelectorData, CommandRecord
  <2>2. "done" \in Places
    BY DEF Places, Selector!Ended
  <2> QED
    BY <1>1, <1>2, <1>3, <2>1, <2>2, GotoInv DEF Selector!Goto
<1>4. CASE Selector!Fail(n)
  BY <1>1, <1>2, <1>4, EndInv DEF Selector!Fail
<1> QED
  BY <1>3, <1>4 DEF Selector!Execute, Selector!SaveWorkloads

\* A command may be killed anywhere.
LEMMA KillInv ==
  ASSUME SelectorInv, NEW n \in 1..MaxCommands, Selector!Kill(n) PROVE SelectorInv'
BY EndInv DEF Selector!Kill, Selector!Ended

\* A summary that is full is read; otherwise the command fails.
LEMMA ReadSummaryInv ==
  ASSUME SelectorInv, NEW n \in 1..MaxCommands, Selector!ReadSummary(n) PROVE SelectorInv'
<1> USE DEF SelectorInv
<1>1. commands[n] \in CommandRecord /\ summary \in Files /\ commands[n].pc = "readSummary"
  BY ReadOnly DEF FilesHold, Selector!ReadSummary
<1>2. UNCHANGED <<summary, ring, profile, clock, measured>>
  BY DEF Selector!ReadSummary
<1>3. CASE summary.state = "full"
  <2> DEFINE c == [commands[n] EXCEPT !.pc = "readRing", !.cand = summary.rows, !.todo = RingChunks]
  <2>1. c \in CommandRecord
    BY <1>1 DEF CommandRecord, Files, Places, Before
  <2>2. commands' = [commands EXCEPT ![n] = c] /\ commands'[n] = c
    BY <1>3 DEF Selector!ReadSummary, SelectorData
  <2>3. /\ c.pc = "readRing" /\ c.since = commands[n].since /\ c.kind = commands[n].kind
        /\ c.report = commands[n].report /\ c.result = commands[n].result
        /\ c.cand = summary.rows /\ c.ring = Selector!NoRow
    BY <1>1 DEF CommandRecord, CommandHolds
  <2> HIDE DEF c
  <2>4. IsSweep(summary.rows) /\ IsSweep(summary.rows)'
    BY <1>2, <1>3, Published DEF FilesHold
  <2>5. IsNew(n, summary.rows)'
    <3>1. summary.rows[1].stamp >= commands[n].since["chunk"]
      BY <1>3 DEF FilesAreNew
    <3> QED
      BY <1>1, <1>2, <2>2, <2>3, <2>4, <3>1 DEF IsNew, IsSweep, Files
  <2>6. CommandHolds(n)'
    BY <1>1, <1>2, <2>2, <2>3, <2>4, <2>5, Published DEF CommandHolds, Before, IsNew
  <2>7. Selector!Builder(n) => Selector!Builder(n)'
    BY <1>1, <2>2, <2>3 DEF Selector!Builder
  <2>8. Alone(n) /\ OwnHolds(n) => OwnHolds(n)'
    BY <1>2, <2>2, <2>3 DEF OwnHolds
  <2> QED
    BY <1>2, <2>1, <2>2, <2>3, <2>6, <2>7, <2>8, StepKeepsFiles
<1>4. CASE summary.state # "full"
  BY <1>1, <1>2, <1>4, EndInv DEF Selector!ReadSummary, Selector!Fail
<1> QED
  BY <1>3, <1>4

\* A comparison that is full is taken if it is lower than the one before.
LEMMA ReadRingInv ==
  ASSUME SelectorInv, NEW n \in 1..MaxCommands, Selector!ReadRing(n) PROVE SelectorInv'
<1> USE DEF SelectorInv
<1>1. commands[n] \in CommandRecord /\ commands[n].pc = "readRing"
  BY ReadOnly DEF Selector!ReadRing
<1>2. UNCHANGED <<summary, ring, profile, clock, measured>>
  BY DEF Selector!ReadRing
<1>3. PICK k \in commands[n].todo :
        LET better == ring[k].state = "full" /\ Selector!BetterRing(ring[k].rows[1], commands[n].ring)
        IN commands' = [commands EXCEPT ![n].todo = @ \ {k},
                                        ![n].ring = IF better THEN ring[k].rows[1] ELSE @]
  BY DEF Selector!ReadRing
<1> DEFINE new == IF ring[k].state = "full" /\ Selector!BetterRing(ring[k].rows[1], commands[n].ring)
                  THEN ring[k].rows[1] ELSE commands[n].ring
           c == [commands[n] EXCEPT !.todo = commands[n].todo \ {k}, !.ring = new]
<1>4. k \in RingChunks /\ ring[k] \in Files
  BY <1>1 DEF CommandRecord, FilesHold
<1>5. /\ new \in Rows
      /\ new # Selector!NoRow => IsOfRing(new) /\ new.stamp >= commands[n].since[new.from]
  <2>1. CASE ring[k].state = "full"
    <3>1. ring[k].rows[1] \in Rows
      BY <1>4, <2>1 DEF FilesHold, Files
    <3>2. IsOfRing(ring[k].rows[1]) /\ ring[k].rows[1].from = k
      BY <1>4, <2>1 DEF FilesHold
    <3>3. ring[k].rows[1].stamp >= commands[n].since[k]
      BY <1>4, <2>1 DEF FilesAreNew
    <3> QED
      BY <1>1, <3>1, <3>2, <3>3 DEF CommandRecord, CommandHolds
  <2>2. CASE ring[k].state # "full"
    BY <1>1, <2>2 DEF CommandRecord, CommandHolds
  <2> QED
    BY <2>1, <2>2
<1>6. commands' = [commands EXCEPT ![n] = c] /\ commands'[n] = c
  BY <1>3 DEF SelectorData
<1> HIDE DEF new
<1>7. c \in CommandRecord
  BY <1>1, <1>5 DEF CommandRecord
<1>8. /\ c.pc = commands[n].pc /\ c.since = commands[n].since /\ c.kind = commands[n].kind
      /\ c.report = commands[n].report /\ c.result = commands[n].result
      /\ c.ring = new /\ c.cand = commands[n].cand
  BY <1>1 DEF CommandRecord
<1> HIDE DEF c
<1>9. CommandHolds(n)'
  BY <1>1, <1>2, <1>5, <1>6, <1>8, Published DEF CommandHolds, Before, IsNew
<1>10. Selector!Builder(n) => Selector!Builder(n)'
  BY <1>6, <1>8 DEF Selector!Builder
<1>11. Alone(n) /\ OwnHolds(n) => OwnHolds(n)'
  BY <1>2, <1>6, <1>8 DEF OwnHolds
<1> QED
  BY <1>2, <1>6, <1>7, <1>8, <1>9, <1>10, <1>11, StepKeepsFiles

\* A profile that loads is taken over by auto-run.
LEMMA AutoCheckInv ==
  ASSUME SelectorInv, NEW n \in 1..MaxCommands, Selector!AutoCheck(n) PROVE SelectorInv'
<1> USE DEF SelectorInv
<1>1. commands[n] \in CommandRecord /\ profile \in Files /\ commands[n].pc = "autoCheck"
  BY ReadOnly DEF FilesHold, Selector!AutoCheck
<1>2. UNCHANGED <<summary, ring, profile, clock, measured>>
  BY DEF Selector!AutoCheck
<1>3. CASE Selector!Loads(profile)
  <2> DEFINE c == [commands[n] EXCEPT !.pc = "execute", !.report = Selector!Existing(profile),
                                      !.result = Selector!Selected(profile)]
  <2>1. IsChoice(profile.rows, profile.best) /\ IsChoice(profile.rows, profile.best)' /\ profile.state = "full"
    BY <1>2, <1>3, Published DEF FilesHold, Selector!Loads
  <2>2. Selector!Existing(profile) \in Reports
    BY <1>1 DEF Selector!Existing, Reports, Files
  <2>3. Selector!Selected(profile) \in Rows
    BY <1>1, <2>1, Constants DEF Selector!Selected, IsChoice, AreCandidates, Files
  <2>4. c \in CommandRecord
    BY <1>1, <2>2, <2>3 DEF CommandRecord, Places
  <2>5. commands' = [commands EXCEPT ![n] = c] /\ commands'[n] = c
    BY <1>3 DEF Selector!AutoCheck, SelectorData
  <2>6. /\ c.pc = "execute" /\ c.since = commands[n].since /\ c.ring = commands[n].ring /\ c.cand = commands[n].cand
        /\ c.report.source = "existing" /\ c.report.cand = profile.rows
        /\ c.report.best = profile.best /\ c.result = profile.rows[profile.best]
    BY <1>1 DEF CommandRecord, Selector!Existing, Selector!Selected
  <2> HIDE DEF c
  <2>65. IsMeasured(commands[n].result)'
    <3>1. IsMeasured(profile.rows[profile.best])
      BY <2>1 DEF IsChoice, AreCandidates
    <3> QED
      BY <1>2, <2>5, <2>6, <3>1 DEF IsMeasured
  <2>7. CommandHolds(n)'
    BY <1>1, <2>65, <1>2, <2>1, <2>5, <2>6 DEF CommandHolds, Before
  <2>8. Selector!Builder(n) => Selector!Builder(n)'
    BY <1>1 DEF Selector!Builder, CommandHolds, Before
  <2>9. Alone(n) /\ OwnHolds(n) => OwnHolds(n)'
    BY <1>2, <2>1, <2>5, <2>6 DEF OwnHolds
  <2> QED
    BY <1>2, <2>4, <2>5, <2>6, <2>7, <2>8, <2>9, StepKeepsFiles
<1>4. CASE ~ Selector!Loads(profile)
  <2>1. commands' = [commands EXCEPT ![n].pc = "check"]
    BY <1>4 DEF Selector!AutoCheck
  <2>2. CommandHolds(n)'
    BY <1>1, <1>2, <2>1, Published DEF CommandHolds, Before, IsNew, SelectorData, CommandRecord
  <2>3. "check" \in Places
    BY DEF Places, Before
  <2> QED
    BY <1>1, <1>2, <2>1, <2>2, <2>3, GotoInv
<1> QED
  BY <1>3, <1>4

\* What is read back of one's own profile is what was reported.
LEMMA AutoReloadInv ==
  ASSUME SelectorInv, NEW n \in 1..MaxCommands, Selector!AutoReload(n) PROVE SelectorInv'
<1> USE DEF SelectorInv
<1>1. commands[n] \in CommandRecord /\ profile \in Files /\ commands[n].pc = "autoReload"
  BY ReadOnly DEF FilesHold, Selector!AutoReload
<1>2. UNCHANGED <<summary, ring, profile, clock, measured>>
  BY DEF Selector!AutoReload
<1>3. CASE Selector!Loads(profile)
  <2> DEFINE c == [commands[n] EXCEPT !.pc = "execute", !.result = Selector!Selected(profile)]
  <2>1. IsChoice(profile.rows, profile.best) /\ profile.state = "full"
    BY <1>3 DEF FilesHold, Selector!Loads
  <2>3. Selector!Selected(profile) \in Rows
    BY <1>1, <2>1, Constants DEF Selector!Selected, IsChoice, AreCandidates, Files
  <2>4. c \in CommandRecord
    BY <1>1, <2>3 DEF CommandRecord, Places
  <2>5. commands' = [commands EXCEPT ![n] = c] /\ commands'[n] = c
    BY <1>3 DEF Selector!AutoReload, SelectorData
  <2>6. /\ c.pc = "execute" /\ c.since = commands[n].since /\ c.ring = commands[n].ring /\ c.cand = commands[n].cand
        /\ c.report = commands[n].report /\ c.result = profile.rows[profile.best]
    BY <1>1 DEF CommandRecord, Selector!Selected
  <2> HIDE DEF c
  <2>65. IsMeasured(commands[n].result)'
    <3>1. IsMeasured(profile.rows[profile.best])
      BY <2>1 DEF IsChoice, AreCandidates
    <3> QED
      BY <1>2, <2>5, <2>6, <3>1 DEF IsMeasured
  <2>7. CommandHolds(n)'
    BY <1>1, <2>65, <1>2, <2>5, <2>6, Published DEF CommandHolds, Before, IsNew
  <2>8. Selector!Builder(n) => Selector!Builder(n)'
    BY <1>1, <2>5, <2>6 DEF Selector!Builder
  <2>9. Alone(n) /\ OwnHolds(n) => OwnHolds(n)'
    BY <1>1, <1>2, <2>5, <2>6 DEF OwnHolds, CommandHolds
  <2> QED
    BY <1>2, <2>4, <2>5, <2>6, <2>7, <2>8, <2>9, StepKeepsFiles
<1>4. CASE ~ Selector!Loads(profile)
  BY <1>1, <1>2, <1>4, EndInv DEF Selector!AutoReload, Selector!Fail
<1> QED
  BY <1>3, <1>4

\* A profile that can be read is reused; otherwise everything is measured anew.
LEMMA WorkloadCheckInv ==
  ASSUME SelectorInv, NEW n \in 1..MaxCommands, Selector!WorkloadCheck(n) PROVE SelectorInv'
<1> USE DEF SelectorInv
<1>1. commands[n] \in CommandRecord /\ profile \in Files /\ commands[n].pc = "workloadCheck"
  BY ReadOnly DEF FilesHold, Selector!WorkloadCheck
<1>2. UNCHANGED <<summary, ring, profile, clock, measured>>
  BY DEF Selector!WorkloadCheck
<1>3. CASE Selector!ReadsSelected(profile)
  <2> DEFINE c == [commands[n] EXCEPT !.pc = "save", !.result = Selector!Selected(profile),
                                      !.origin = "REUSED"]
  <2>1. IsChoice(profile.rows, profile.best)
    BY <1>3 DEF FilesHold, Selector!ReadsSelected
  <2>2. Selector!Selected(profile) \in Rows
    BY <1>1, <2>1, Constants DEF Selector!Selected, IsChoice, AreCandidates, Files
  <2>3. c \in CommandRecord
    BY <1>1, <2>2 DEF CommandRecord, Places
  <2>4. commands' = [commands EXCEPT ![n] = c] /\ commands'[n] = c
    BY <1>3 DEF Selector!WorkloadCheck, SelectorData
  <2>5. /\ c.pc = "save" /\ c.since = commands[n].since /\ c.ring = commands[n].ring /\ c.cand = commands[n].cand
        /\ c.report = commands[n].report /\ c.result = profile.rows[profile.best]
    BY <1>1 DEF CommandRecord, Selector!Selected
  <2> HIDE DEF c
  <2>6. commands[n].report.source = "none"
    BY <1>1 DEF CommandHolds, Before
  <2>65. IsMeasured(commands[n].result)'
    <3>1. IsMeasured(profile.rows[profile.best])
      BY <2>1 DEF IsChoice, AreCandidates
    <3> QED
      BY <1>2, <2>4, <2>5, <3>1 DEF IsMeasured
  <2>7. CommandHolds(n)'
    BY <1>1, <2>65, <1>2, <2>4, <2>5, <2>6 DEF CommandHolds, Before
  <2>8. Selector!Builder(n) => Selector!Builder(n)'
    BY <1>1, <2>6 DEF Selector!Builder
  <2>9. Alone(n) /\ OwnHolds(n) => OwnHolds(n)'
    BY <1>1, <1>2, <2>4, <2>5, <2>6 DEF OwnHolds
  <2> QED
    BY <1>2, <2>3, <2>4, <2>5, <2>7, <2>8, <2>9, StepKeepsFiles
<1>4. CASE ~ Selector!ReadsSelected(profile)
  <2>1. commands' = [commands EXCEPT ![n].pc = "sweep"]
    BY <1>4 DEF Selector!WorkloadCheck
  <2>2. CommandHolds(n)'
    BY <1>1, <1>2, <2>1, Published DEF CommandHolds, Before, IsNew, SelectorData, CommandRecord
  <2>3. "sweep" \in Places
    BY DEF Places, Before
  <2> QED
    BY <1>1, <1>2, <2>1, <2>2, <2>3, GotoInv
<1> QED
  BY <1>3, <1>4

\* A profile that only this command has built is a valid one.
LEMMA WorkloadReloadInv ==
  ASSUME SelectorInv, NEW n \in 1..MaxCommands, Selector!WorkloadReload(n) PROVE SelectorInv'
<1> USE DEF SelectorInv
<1>1. commands[n] \in CommandRecord /\ profile \in Files /\ commands[n].pc = "workloadReload"
  BY ReadOnly DEF FilesHold, Selector!WorkloadReload
<1>2. UNCHANGED <<summary, ring, profile, clock, measured>>
  BY DEF Selector!WorkloadReload
<1>3. CASE Selector!ReadsSelected(profile)
  <2> DEFINE c == [commands[n] EXCEPT !.pc = "save", !.result = Selector!Selected(profile),
                                      !.origin = "GENERATED"]
  <2>1. IsChoice(profile.rows, profile.best) /\ profile.state = "full"
    BY <1>3 DEF FilesHold, Selector!ReadsSelected
  <2>2. Selector!Selected(profile) \in Rows
    BY <1>1, <2>1, Constants DEF Selector!Selected, IsChoice, AreCandidates, Files
  <2>3. c \in CommandRecord
    BY <1>1, <2>2 DEF CommandRecord, Places
  <2>4. commands' = [commands EXCEPT ![n] = c] /\ commands'[n] = c
    BY <1>3 DEF Selector!WorkloadReload, SelectorData
  <2>5. /\ c.pc = "save" /\ c.since = commands[n].since /\ c.ring = commands[n].ring /\ c.cand = commands[n].cand
        /\ c.report = commands[n].report /\ c.result = profile.rows[profile.best]
    BY <1>1 DEF CommandRecord, Selector!Selected
  <2> HIDE DEF c
  <2>65. IsMeasured(commands[n].result)'
    <3>1. IsMeasured(profile.rows[profile.best])
      BY <2>1 DEF IsChoice, AreCandidates
    <3> QED
      BY <1>2, <2>4, <2>5, <3>1 DEF IsMeasured
  <2>6. CommandHolds(n)'
    BY <1>1, <2>65, <1>2, <2>4, <2>5, Published DEF CommandHolds, Before, IsNew
  <2>7. Selector!Builder(n) => Selector!Builder(n)'
    BY <1>1, <2>4, <2>5 DEF Selector!Builder
  <2>8. Alone(n) /\ OwnHolds(n) => OwnHolds(n)'
    BY <1>1, <1>2, <2>4, <2>5 DEF OwnHolds, CommandHolds
  <2> QED
    BY <1>2, <2>3, <2>4, <2>5, <2>6, <2>7, <2>8, StepKeepsFiles
<1>4. CASE ~ Selector!ReadsSelected(profile)
  <2> DEFINE c == [commands[n] EXCEPT !.pc = "invalid"]
  <2>1. c \in CommandRecord
    BY <1>1 DEF CommandRecord, Places, Selector!Ended
  <2>2. commands' = [commands EXCEPT ![n] = c] /\ commands'[n] = c
    BY <1>4 DEF Selector!WorkloadReload, Selector!Goto, SelectorData
  <2>3. /\ c.pc = "invalid" /\ c.since = commands[n].since /\ c.ring = commands[n].ring /\ c.cand = commands[n].cand
        /\ c.report = commands[n].report /\ c.result = commands[n].result
    BY <1>1 DEF CommandRecord
  <2> HIDE DEF c
  <2>4. CommandHolds(n)'
    BY <1>1, <1>2, <2>2, <2>3, Published DEF CommandHolds, Before, IsNew
  <2>5. Selector!Builder(n) => Selector!Builder(n)'
    BY <1>1, <2>2, <2>3 DEF Selector!Builder
  <2>6. OwnHolds(n) => FALSE
    BY <1>1, <1>4 DEF OwnHolds, CommandHolds, Selector!ReadsSelected
  <2> QED
    BY <1>2, <2>1, <2>2, <2>3, <2>4, <2>5, <2>6, StepKeepsFiles
<1> QED
  BY <1>3, <1>4

\* A command remembers the stamps of what it finds on disk.
LEMMA StartInv ==
  ASSUME SelectorInv, NEW n \in 1..MaxCommands, Selector!Start(n) PROVE SelectorInv'
<1> USE DEF SelectorInv
<1>1. commands[n] \in CommandRecord /\ commands[n].pc = "none"
  BY ReadOnly DEF Selector!Start
<1>2. UNCHANGED <<summary, ring, profile, clock, measured>>
  BY DEF Selector!Start
<1> DEFINE stamps == [f \in Selector!Sources |->
                        Selector!Stamp(IF f = "chunk" THEN summary ELSE ring[f])]
<1>3. PICK kind \in Selector!Kinds :
        commands' = [commands EXCEPT ![n].kind = kind, ![n].pc = Selector!FirstPlace(kind),
                                     ![n].since = stamps]
  BY DEF Selector!Start
<1> DEFINE c == [commands[n] EXCEPT !.kind = kind, !.pc = Selector!FirstPlace(kind), !.since = stamps]
<1>4. \A f \in Selector!Sources : stamps[f] \in Nat /\ stamps[f] =< clock
  <2> SUFFICES ASSUME NEW f \in Selector!Sources PROVE stamps[f] \in Nat /\ stamps[f] =< clock
    OBVIOUS
  <2> DEFINE file == IF f = "chunk" THEN summary ELSE ring[f]
  <2>0. stamps[f] = Selector!Stamp(file)
    OBVIOUS
  <2>1. clock \in Nat
    BY Constants DEF DataTypes
  <2>2. file.state = "full" => file.rows[1] \in measured
    BY Constants DEF FilesHold, IsSweep, IsOfRing, Selector!Sources
  <2> HIDE DEF file, stamps
  <2>3. file.state = "full" => file.rows[1].stamp \in Nat /\ file.rows[1].stamp =< clock
    BY <2>2 DEF DataTypes, Rows
  <2> QED
    BY <2>0, <2>1, <2>3 DEF Selector!Stamp
<1>5. /\ Selector!FirstPlace(kind) \in {"check", "autoCheck", "workloadCheck", "sweep", "compare"}
      /\ Selector!FirstPlace(kind) = "check" => kind = "recommend"
      /\ Selector!FirstPlace(kind) = "autoCheck" => kind = "auto"
  BY DEF Selector!FirstPlace, Selector!Kinds
<1>6. summary.state = "full" => summary.rows[1].stamp >= stamps["chunk"]
  <2>1. stamps["chunk"] = Selector!Stamp(summary)
    BY DEF Selector!Sources
  <2> HIDE DEF stamps
  <2>2. "chunk" \in Selector!Sources
    BY DEF Selector!Sources
  <2> QED
    BY <1>4, <2>1, <2>2 DEF Selector!Stamp
<1>7. ASSUME NEW k \in RingChunks, ring[k].state = "full" PROVE ring[k].rows[1].stamp >= stamps[k]
  <2>1. k \in Selector!Sources /\ stamps[k] = Selector!Stamp(ring[k])
    BY Constants DEF Selector!Sources
  <2> HIDE DEF stamps
  <2> QED
    BY <1>4, <1>7, <2>1 DEF Selector!Stamp
<1>8. stamps \in [Selector!Sources -> Nat]
  BY <1>4
<1>9. commands' = [commands EXCEPT ![n] = c] /\ commands'[n] = c
  BY <1>3 DEF SelectorData
<1> HIDE DEF stamps
<1>10. c \in CommandRecord
  BY <1>1, <1>5, <1>8 DEF CommandRecord, Places, Before
<1>11. /\ c.pc = Selector!FirstPlace(kind) /\ c.since = stamps /\ c.ring = commands[n].ring /\ c.cand = commands[n].cand
       /\ c.report = commands[n].report /\ c.result = commands[n].result /\ c.kind = kind
  BY <1>1 DEF CommandRecord
<1> HIDE DEF c
<1>12. DataTypes' /\ clock =< clock'
  BY <1>2, Constants DEF DataTypes
<1>13. FilesHold'
  BY <1>2, Published DEF FilesHold
<1>14. FilesAreNew'
  <2>1. \A m \in (1..MaxCommands) \ {n} : commands'[m] = commands[m]
    BY <1>9 DEF SelectorData
  <2> QED
    BY <1>2, <1>6, <1>7, <1>9, <1>11, <2>1 DEF FilesAreNew
<1>15. CommandHolds(n)'
  BY <1>1, <1>2, <1>5, <1>9, <1>11, Published DEF CommandHolds, Before
<1>16. Selector!Builder(n) => Selector!Builder(n)'
  BY <1>1, <1>9, <1>11 DEF Selector!Builder
<1>17. Alone(n) /\ OwnHolds(n) => OwnHolds(n)'
  BY <1>1, <1>2, <1>5, <1>9, <1>11 DEF OwnHolds
<1>18. \A f \in Selector!Sources : c.since[f] =< clock'
  BY <1>2, <1>4, <1>11
<1> QED
  BY <1>2, <1>9, <1>10, <1>12, <1>13, <1>14, <1>15, <1>16, <1>17, <1>18, StepInv

\* A step of n changes the files it measures for, goes on to another place
\* and does not touch the profile or what n has reported.
LEMMA MeasureInv ==
  ASSUME SelectorInv, NEW n \in 1..MaxCommands, NEW place \in Places, NEW todo \in SUBSET RingChunks,
         commands' = [commands EXCEPT ![n].pc = place, ![n].todo = todo],
         commands[n].pc \in {"sweep", "sweepClose", "compare", "compareClose"},
         place \in {"sweepClose", "compare", "compareClose", "check", "done"},
         place = "check" => commands[n].kind = "workloads",
         profile' = profile, DataTypes', FilesHold', measured \subseteq measured', clock =< clock',
         \A m \in 1..MaxCommands :
           /\ summary'.state = "full" => summary'.rows[1].stamp >= commands[m].since["chunk"]
           /\ \A k \in RingChunks : ring'[k].state = "full" =>
                ring'[k].rows[1].stamp >= commands[m].since[k]
  PROVE  SelectorInv'
<1> USE DEF SelectorInv
<1>1. commands[n] \in CommandRecord
  BY ReadOnly
<1> DEFINE c == [commands[n] EXCEPT !.pc = place, !.todo = todo]
<1>2. c \in CommandRecord
  BY <1>1 DEF CommandRecord
<1>3. commands' = [commands EXCEPT ![n] = c] /\ commands'[n] = c
  BY DEF SelectorData
<1>4. /\ c.pc = place /\ c.since = commands[n].since /\ c.ring = commands[n].ring /\ c.cand = commands[n].cand
      /\ c.report = commands[n].report /\ c.result = commands[n].result /\ c.kind = commands[n].kind
  BY <1>1 DEF CommandRecord
<1> HIDE DEF c
<1>5. \A m \in 1..MaxCommands : commands'[m].since = commands[m].since
  BY <1>3, <1>4 DEF SelectorData
<1>6. FilesAreNew'
  BY <1>5 DEF FilesAreNew
<1>7. \A f \in Selector!Sources : c.since[f] =< clock'
  <2>1. clock \in Nat /\ clock' \in Nat
    BY Constants DEF DataTypes
  <2>2. \A f \in Selector!Sources : commands[n].since[f] \in Nat /\ commands[n].since[f] =< clock
    BY <1>1 DEF SelectorData, CommandRecord
  <2> QED
    BY <1>4, <2>1, <2>2
<1>8. commands[n].report.source = "none" /\ commands[n].result = Selector!NoRow
      /\ commands[n].ring = Selector!NoRow
  BY DEF CommandHolds, Before
<1>9. CommandHolds(n)'
  BY <1>3, <1>4, <1>8 DEF CommandHolds, Before
<1>10. Selector!Builder(n) => Selector!Builder(n)'
  BY <1>8 DEF Selector!Builder
<1>11. Alone(n) /\ OwnHolds(n) => OwnHolds(n)'
  BY <1>3, <1>4, <1>8 DEF OwnHolds
<1> QED
  BY <1>2, <1>3, <1>6, <1>7, <1>9, <1>10, <1>11, StepInv

\* What a file is that is opened or missing.
LEMMA EmptyFile == Selector!Empty \in Files /\ Selector!Empty.state = "empty" /\ Selector!Empty.rows = <<>>
  /\ Selector!Absent \in Files /\ Selector!Absent.state = "absent" /\ Selector!Absent.rows = <<>>
<1>1. <<>> \in Seq(Rows) /\ 0 \in Nat
  OBVIOUS
<1>2. Selector!Absent \in Files
  BY <1>1 DEF Selector!Absent, Files
<1>3. Selector!Absent.state = "absent" /\ Selector!Absent.rows = <<>>
  BY DEF Selector!Absent
<1>4. Selector!Empty = [Selector!Absent EXCEPT !.state = "empty"]
  BY DEF Selector!Empty
<1> QED
  BY <1>2, <1>3, <1>4 DEF Files

\* And one that was closed.
LEMMA FullFile ==
  ASSUME NEW s \in Seq(Rows), NEW b \in Nat
  PROVE  /\ Selector!Full(s, b) \in Files
         /\ Selector!Full(s, b).state = "full" /\ Selector!Full(s, b).rows = s
         /\ Selector!Full(s, b).best = b /\ Selector!Full(s, b).tail = FALSE
BY DEF Selector!Full, Files

\* Opening the summary empties it.
LEMMA RingSweepInv ==
  ASSUME SelectorInv, NEW n \in 1..MaxCommands, Selector!Sweep(n) PROVE SelectorInv'
<1> USE DEF SelectorInv
<1>1. commands[n] \in CommandRecord /\ commands[n].pc = "sweep"
  BY ReadOnly DEF Selector!Sweep
<1>2. CASE Selector!Goto(n, "sweepClose") /\ summary' = Selector!Empty
  <2>1. UNCHANGED <<ring, profile, clock, measured>>
    BY DEF Selector!Sweep
  <2>2. commands' = [commands EXCEPT ![n].pc = "sweepClose", ![n].todo = commands[n].todo]
    <3>1. commands[n] = [commands[n] EXCEPT !.todo = commands[n].todo]
      BY <1>1 DEF CommandRecord
    <3> QED
      BY <1>1, <1>2, <3>1 DEF Selector!Goto, SelectorData, CommandRecord
  <2>3. DataTypes' /\ clock =< clock' /\ measured \subseteq measured'
    BY <2>1, Constants DEF DataTypes
  <2>4. FilesHold'
    BY <1>2, <2>1, <2>3, EmptyFile, Published DEF FilesHold
  <2>5. "sweepClose" \in Places /\ commands[n].todo \in SUBSET RingChunks
    BY <1>1 DEF Places, Before, CommandRecord
  <2>6. \A m \in 1..MaxCommands :
           /\ summary'.state = "full" => summary'.rows[1].stamp >= commands[m].since["chunk"]
           /\ \A k \in RingChunks : ring'[k].state = "full" =>
                ring'[k].rows[1].stamp >= commands[m].since[k]
    BY <1>2, <2>1, EmptyFile DEF FilesAreNew
  <2> QED
    BY <1>1, <2>1, <2>2, <2>3, <2>4, <2>5, <2>6, MeasureInv
<1>3. CASE Selector!Fail(n) /\ UNCHANGED summary
  BY <1>1, <1>3, EndInv DEF Selector!Sweep, Selector!Fail
<1> QED
  BY <1>2, <1>3 DEF Selector!Sweep

\* Opening the file of a comparison empties it.
LEMMA CompareInv ==
  ASSUME SelectorInv, NEW n \in 1..MaxCommands, Selector!Compare(n) PROVE SelectorInv'
<1> USE DEF SelectorInv
<1>1. commands[n] \in CommandRecord /\ commands[n].pc = "compare"
  BY ReadOnly DEF Selector!Compare
<1>2. UNCHANGED <<summary, profile, clock, measured>>
  BY DEF Selector!Compare
<1>3. DataTypes' /\ clock =< clock' /\ measured \subseteq measured'
  BY <1>2, Constants DEF DataTypes
<1>4. CASE \E k \in RingChunks :
             /\ commands' = [commands EXCEPT ![n].pc = "compareClose", ![n].todo = {k}]
             /\ ring' = [ring EXCEPT ![k] = Selector!Empty]
  <2>1. PICK k \in RingChunks :
             /\ commands' = [commands EXCEPT ![n].pc = "compareClose", ![n].todo = {k}]
             /\ ring' = [ring EXCEPT ![k] = Selector!Empty]
    BY <1>4
  <2>2. \A j \in RingChunks : ring'[j] = IF j = k THEN Selector!Empty ELSE ring[j]
    BY <2>1 DEF FilesHold
  <2>3. FilesHold'
    BY <1>2, <1>3, <2>1, <2>2, EmptyFile, Published DEF FilesHold
  <2>4. "compareClose" \in Places /\ {k} \in SUBSET RingChunks
    BY DEF Places, Before
  <2>5. \A m \in 1..MaxCommands :
           /\ summary'.state = "full" => summary'.rows[1].stamp >= commands[m].since["chunk"]
           /\ \A j \in RingChunks : ring'[j].state = "full" =>
                ring'[j].rows[1].stamp >= commands[m].since[j]
    BY <1>2, <2>2, EmptyFile DEF FilesAreNew
  <2> QED
    BY <1>1, <1>2, <1>3, <2>1, <2>3, <2>4, <2>5, MeasureInv
<1>5. CASE Selector!Fail(n) /\ UNCHANGED ring
  BY <1>1, <1>2, <1>5, EndInv DEF Selector!Fail
<1>6. CASE Selector!Goto(n, Selector!AfterCompare(n)) /\ UNCHANGED ring
  <2>1. commands' = [commands EXCEPT ![n].pc = Selector!AfterCompare(n)]
    BY <1>6 DEF Selector!Goto
  <2>2. /\ Selector!AfterCompare(n) \in {"check", "done"}
        /\ Selector!AfterCompare(n) = "check" => commands[n].kind = "workloads"
    BY DEF Selector!AfterCompare
  <2>3. Selector!AfterCompare(n) \in Places
    BY <2>2 DEF Places, Before, Selector!Ended
  <2>4. CommandHolds(n)'
    BY <1>1, <1>2, <1>6, <2>1, <2>2, Published DEF CommandHolds, Before, SelectorData, CommandRecord
  <2> QED
    BY <1>1, <1>2, <1>6, <2>1, <2>2, <2>3, <2>4, GotoInv
<1> QED
  <2>1. (IF commands[n].kind = "workloads" THEN {DefaultChunk} ELSE RingChunks) \subseteq RingChunks
    BY Constants
  <2> QED
    BY <1>4, <1>5, <1>6, <2>1 DEF Selector!Compare

\* The fields of a row.
LEMMA RowFields ==
  ASSUME NEW method, NEW ms, NEW from, NEW stamp
  PROVE  /\ Selector!Row(method, ms, from, stamp).method = method
         /\ Selector!Row(method, ms, from, stamp).ms = ms
         /\ Selector!Row(method, ms, from, stamp).from = from
         /\ Selector!Row(method, ms, from, stamp).stamp = stamp
BY DEF Selector!Row

\* A row of this module is one of the selector's.
LEMMA RowIsRow ==
  ASSUME NEW method \in ToSet(Streams) \cup {"SHM", "SHM-RING", "none"}, NEW ms \in Latencies,
         NEW from \in Selector!Sources, NEW stamp \in Nat
  PROVE  Selector!Row(method, ms, from, stamp) \in Rows
BY DEF Selector!Row, Rows

\* A measurement carries the next stamp.
LEMMA Ticks ==
  ASSUME SelectorInv, clock < MaxMeasured, clock' = clock + 1,
         NEW new, new \subseteq {r \in Rows : r.ms # 0 /\ r.stamp = clock + 1},
         measured' = measured \cup new
  PROVE  DataTypes' /\ clock =< clock' /\ measured \subseteq measured'
<1>1. clock \in Nat /\ clock + 1 \in 0..MaxMeasured
  BY Constants DEF SelectorInv, DataTypes
<1>2. measured \subseteq {r \in Rows : r.ms # 0 /\ r.stamp =< clock}
  BY DEF SelectorInv, DataTypes
<1>3. ASSUME NEW r \in measured' PROVE r \in {s \in Rows : s.ms # 0 /\ s.stamp =< clock'}
  <2>1. r \in Rows => r.stamp \in Nat
    BY DEF Rows
  <2> QED
    BY <1>1, <1>2, <1>3, <2>1
<1> QED
  BY <1>1, <1>3 DEF DataTypes

\* A sweep of all methods makes one row for each, of one stamp.
LEMMA ChunkRowsAre ==
  ASSUME NEW new, NEW ms \in Selector!Measurements, NEW stamp \in Nat, new = Selector!ChunkRows(ms, stamp)
  PROVE  /\ new \in Seq(Rows) /\ Len(new) = Count /\ Selector!ToSet(new) = {new[i] : i \in 1..Count}
         /\ \A i \in 1..Count : /\ new[i] \in Rows /\ new[i].ms # 0 /\ new[i].ms \in Latencies
                                /\ new[i].from = "chunk" /\ new[i].stamp = stamp
                                /\ new[i].method = MethodsWith("SHM")[i]
<1>1. DOMAIN new = 1..Count
  BY DEF Selector!ChunkRows, Count
<1>2. ASSUME NEW i \in 1..Count
      PROVE  /\ new[i] = Selector!Row(MethodsWith("SHM")[i], ms[i], "chunk", stamp)
             /\ MethodsWith("SHM")[i] \in ToSet(Streams) \cup {"SHM"}
             /\ ms[i] \in Latencies
  BY Constants DEF Selector!ChunkRows, Count, ToSet, Selector!Measurements, MethodsWith
<1>3. ASSUME NEW i \in 1..Count
      PROVE  /\ new[i] \in Rows /\ new[i].ms # 0 /\ new[i].ms \in Latencies
             /\ new[i].from = "chunk" /\ new[i].stamp = stamp
             /\ new[i].method = MethodsWith("SHM")[i]
  <2>1. "chunk" \in Selector!Sources
    BY DEF Selector!Sources
  <2>2. new[i] \in Rows
    BY <1>2, <2>1, RowIsRow
  <2>3. /\ new[i].ms = ms[i] /\ new[i].from = "chunk" /\ new[i].stamp = stamp
        /\ new[i].method = MethodsWith("SHM")[i]
    BY <1>2, RowFields
  <2>4. ms[i] \in Latencies /\ ms[i] # 0
    BY <1>2, Constants
  <2> QED
    BY <2>2, <2>3, <2>4
<1>4. new \in Seq(Rows) /\ Len(new) = Count
  <2>1. new = [i \in 1..Count |-> new[i]]
    BY <1>1 DEF Selector!ChunkRows
  <2>2. new \in [1..Count -> Rows] /\ Count \in Nat
    BY <1>3, <2>1, Constants
  <2> HIDE DEF Count
  <2> QED
    BY <2>2
<1>5. Selector!ToSet(new) = {new[i] : i \in 1..Count}
  BY <1>1 DEF Selector!ToSet
<1> QED
  BY <1>3, <1>4, <1>5

\* The summary is published with what was measured.
LEMMA SweepCloseInv ==
  ASSUME SelectorInv, NEW n \in 1..MaxCommands, Selector!SweepClose(n) PROVE SelectorInv'
<1> USE DEF SelectorInv
<1>1. commands[n] \in CommandRecord /\ commands[n].pc = "sweepClose" /\ clock < MaxMeasured
      /\ clock' = clock + 1 /\ clock \in Nat
  BY ReadOnly, Constants DEF Selector!SweepClose, DataTypes
<1>2. UNCHANGED <<ring, profile>>
  BY DEF Selector!SweepClose
<1>3. PICK ms \in Selector!Measurements :
        LET new == Selector!ChunkRows(ms, clock + 1)
        IN summary' = Selector!Full(new, 0) /\ measured' = measured \cup Selector!ToSet(new)
  BY DEF Selector!SweepClose
<1> DEFINE place == IF commands[n].kind = "workloads" THEN "compare" ELSE "done"
<1>35. PICK new : new = Selector!ChunkRows(ms, clock + 1)
  OBVIOUS
<1>4. summary' = Selector!Full(new, 0) /\ measured' = measured \cup Selector!ToSet(new)
  BY <1>3, <1>35
<1>5. /\ new \in Seq(Rows) /\ Len(new) = Count /\ Selector!ToSet(new) = {new[i] : i \in 1..Count}
      /\ \A i \in 1..Count : /\ new[i] \in Rows /\ new[i].ms # 0 /\ new[i].from = "chunk"
                             /\ new[i].stamp = clock + 1 /\ new[i].method = MethodsWith("SHM")[i]
  <2>1. PICK stamp \in Nat : stamp = clock + 1
    BY <1>1
  <2>2. new = Selector!ChunkRows(ms, stamp)
    BY <1>35, <2>1
  <2>3. /\ new \in Seq(Rows) /\ Len(new) = Count /\ Selector!ToSet(new) = {new[i] : i \in 1..Count}
        /\ \A i \in 1..Count : /\ new[i] \in Rows /\ new[i].ms # 0 /\ new[i].from = "chunk"
                               /\ new[i].stamp = stamp /\ new[i].method = MethodsWith("SHM")[i]
    BY <2>2, ChunkRowsAre
  <2> QED
    BY <2>1, <2>3
<1>6. DataTypes' /\ clock =< clock' /\ measured \subseteq measured'
  BY <1>1, <1>4, <1>5, Ticks
<1>7. \A i \in 1..Count : new[i] \in measured'
  BY <1>4, <1>5
<1>8. /\ summary' \in Files /\ summary'.state = "full" /\ summary'.rows = new
  <2>1. new \in Seq(Rows) /\ 0 \in Nat
    BY <1>5
  <2> QED
    BY <1>4, <2>1, FullFile
<1>9. IsSweep(new)'
  BY <1>5, <1>7, Constants DEF IsSweep, Count
<1>10. FilesHold'
  BY <1>2, <1>6, <1>8, <1>9, Published DEF FilesHold
<1>11. ASSUME NEW m \in 1..MaxCommands
       PROVE  /\ summary'.state = "full" => summary'.rows[1].stamp >= commands[m].since["chunk"]
              /\ \A k \in RingChunks : ring'[k].state = "full" =>
                   ring'[k].rows[1].stamp >= commands[m].since[k]
  <2>1. "chunk" \in Selector!Sources
    BY DEF Selector!Sources
  <2>2. commands[m].since["chunk"] \in Nat /\ commands[m].since["chunk"] =< clock
    BY <2>1 DEF SelectorData, CommandRecord
  <2> QED
    BY <1>1, <1>2, <1>5, <1>8, <2>2, Constants DEF FilesAreNew
<1>12. commands' = [commands EXCEPT ![n].pc = place, ![n].todo = commands[n].todo]
  <2>1. commands[n] = [commands[n] EXCEPT !.todo = commands[n].todo]
    BY <1>1 DEF CommandRecord
  <2>2. commands' = [commands EXCEPT ![n].pc = place]
    BY DEF Selector!SweepClose, Selector!Goto
  <2> QED
    BY <1>1, <2>1, <2>2 DEF SelectorData, CommandRecord
<1>13. place \in {"compare", "done"}
  OBVIOUS
<1> HIDE DEF place
<1>14. place \in Places /\ commands[n].todo \in SUBSET RingChunks
  BY <1>1, <1>13 DEF Places, Before, CommandRecord, Selector!Ended
<1> QED
  BY <1>1, <1>2, <1>6, <1>10, <1>11, <1>12, <1>13, <1>14, MeasureInv

\* The comparison is published with what was measured.
LEMMA CompareCloseInv ==
  ASSUME SelectorInv, NEW n \in 1..MaxCommands, Selector!CompareClose(n) PROVE SelectorInv'
<1> USE DEF SelectorInv
<1>1. commands[n] \in CommandRecord /\ commands[n].pc = "compareClose" /\ clock < MaxMeasured
      /\ clock' = clock + 1 /\ clock \in Nat
  BY ReadOnly, Constants DEF Selector!CompareClose, DataTypes
<1>2. UNCHANGED <<summary, profile>>
  BY DEF Selector!CompareClose
<1>3. PICK k \in commands[n].todo, ms \in Latencies :
        LET new == Selector!Row("SHM-RING", ms, k, clock + 1)
        IN /\ ring' = [ring EXCEPT ![k] = Selector!Full(<<new>>, 0)]
           /\ measured' = measured \cup {new}
  BY DEF Selector!CompareClose
<1> DEFINE place == Selector!AfterCompare(n)
<1>35. PICK new : new = Selector!Row("SHM-RING", ms, k, clock + 1)
  OBVIOUS
<1>4. /\ ring' = [ring EXCEPT ![k] = Selector!Full(<<new>>, 0)]
      /\ measured' = measured \cup {new}
  BY <1>3, <1>35
<1>5. k \in RingChunks /\ k \in Selector!Sources
  BY <1>1 DEF CommandRecord, Selector!Sources
<1>6. /\ new \in Rows /\ new.ms # 0 /\ new.from = k
      /\ new.stamp = clock + 1 /\ new.method = "SHM-RING"
  <2>1. clock + 1 \in Nat /\ ms # 0
    BY <1>1, Constants
  <2> QED
    BY <1>5, <1>35, <2>1, RowIsRow DEF Selector!Row
<1>7. DataTypes' /\ clock =< clock' /\ measured \subseteq measured'
  BY <1>1, <1>4, <1>6, Ticks
<1>8. /\ ring'[k] \in Files /\ ring'[k].state = "full" /\ ring'[k].rows = <<new>>
      /\ \A j \in RingChunks \ {k} : ring'[j] = ring[j]
  <2>1. <<new>> \in Seq(Rows) /\ 0 \in Nat
    BY <1>6
  <2> QED
    BY <1>4, <1>5, <2>1, FullFile DEF FilesHold
<1>9. IsOfRing(new)'
  BY <1>4, <1>5, <1>6 DEF IsOfRing
<1>10. FilesHold'
  <2>1. ring' \in [RingChunks -> Files]
    BY <1>4, <1>8 DEF FilesHold
  <2>2. \A j \in RingChunks :
          (IF ring[j].state = "full"
           THEN Len(ring[j].rows) = 1 /\ IsOfRing(ring[j].rows[1]) /\ ring[j].rows[1].from = j
           ELSE ring[j].rows = <<>>)'
    <3> SUFFICES ASSUME NEW j \in RingChunks
                 PROVE  (IF ring[j].state = "full"
                         THEN Len(ring[j].rows) = 1 /\ IsOfRing(ring[j].rows[1]) /\ ring[j].rows[1].from = j
                         ELSE ring[j].rows = <<>>)'
      OBVIOUS
    <3>1. CASE j = k
      <4>1. ring'[j].state = "full" /\ Len(ring'[j].rows) = 1 /\ ring'[j].rows[1] = new
        BY <1>8, <3>1
      <4>2. IsOfRing(ring[j].rows[1])'
        BY <1>4, <1>5, <1>6, <4>1 DEF IsOfRing
      <4> QED
        BY <1>6, <3>1, <4>1, <4>2
    <3>2. CASE j # k
      <4>1. ring'[j] = ring[j]
        BY <1>8, <3>2
      <4>2. \A r : IsOfRing(r) => IsOfRing(r)'
        BY <1>7, Published
      <4> QED
        BY <4>1, <4>2 DEF FilesHold
    <3> QED
      BY <3>1, <3>2
  <2> QED
    BY <1>2, <1>7, <2>1, <2>2, Published DEF FilesHold
<1>11. ASSUME NEW m \in 1..MaxCommands
       PROVE  /\ summary'.state = "full" => summary'.rows[1].stamp >= commands[m].since["chunk"]
              /\ \A j \in RingChunks : ring'[j].state = "full" =>
                   ring'[j].rows[1].stamp >= commands[m].since[j]
  <2>1. commands[m].since[k] \in Nat /\ commands[m].since[k] =< clock
    BY <1>5 DEF SelectorData, CommandRecord
  <2> QED
    BY <1>1, <1>2, <1>6, <1>8, <2>1, Constants DEF FilesAreNew
<1>12. commands' = [commands EXCEPT ![n].pc = place, ![n].todo = {}]
  BY DEF Selector!CompareClose
<1>13. place \in {"check", "done"} /\ (place = "check" => commands[n].kind = "workloads")
  BY DEF Selector!AfterCompare
<1> HIDE DEF place
<1>14. place \in Places /\ {} \in SUBSET RingChunks
  BY <1>13 DEF Places, Before, Selector!Ended
<1> QED
  BY <1>1, <1>2, <1>7, <1>10, <1>11, <1>12, <1>13, <1>14, MeasureInv

\* The rows of the optimizer with the ring, or SHM in its place, as the last.
LEMMA CandidatesAre ==
  ASSUME SelectorInv, NEW n \in 1..MaxCommands, commands[n].pc = "readRing",
         NEW new, new = Selector!Candidates(n)
  PROVE  new \in Seq(Rows) /\ AreCandidates(new) /\ IsNew(n, new)
<1> USE DEF SelectorInv
<1>1. /\ commands[n] \in CommandRecord /\ IsSweep(commands[n].cand) /\ IsNew(n, commands[n].cand)
      /\ commands[n].ring # Selector!NoRow =>
            /\ IsOfRing(commands[n].ring)
            /\ commands[n].ring.stamp >= commands[n].since[commands[n].ring.from]
  BY ReadOnly DEF CommandHolds
<1>2. PICK s \in Seq(Rows) : s = commands[n].cand
  BY <1>1 DEF CommandRecord
<1>3. Len(s) = Count /\ Count \in Nat \ {0} /\ DOMAIN s = 1..Count
  BY <1>1, <1>2, Constants DEF IsSweep
<1>4. ASSUME NEW r \in measured PROVE r \in Rows /\ r.ms \in Latencies
  BY DEF DataTypes, Rows
<1>5. ASSUME NEW i \in 1..Count
      PROVE  /\ s[i] \in measured /\ s[i].from = "chunk" /\ s[i].method = MethodsWith("SHM")[i]
             /\ s[i].ms \in Latencies /\ s[i].stamp >= commands[n].since["chunk"] /\ s[i] \in Rows
  BY <1>1, <1>2, <1>3, <1>4 DEF IsSweep, IsNew
<1>6. PICK last : last = Selector!RingOrFallback(n)
  OBVIOUS
<1>7. /\ last \in Rows /\ last.method = "SHM-RING" /\ last.from \in Selector!Sources
      /\ last.ms \in Latencies /\ last.stamp >= commands[n].since[last.from]
      /\ IsMeasured(last)
  <2>1. CASE commands[n].ring # Selector!NoRow
    BY <1>1, <1>4, <1>6, <2>1 DEF Selector!RingOrFallback, IsOfRing, Selector!Sources, IsMeasured
  <2>2. CASE commands[n].ring = Selector!NoRow
    <3>1. PICK old \in Rows : old = s[Count]
      BY <1>3, <1>5
    <3>2. last = [old EXCEPT !.method = "SHM-RING"]
      BY <1>2, <1>3, <1>6, <2>2, <3>1 DEF Selector!RingOrFallback, Selector!Last
    <3>3. old \in measured /\ old.from = "chunk" /\ old.method = "SHM" /\ old.ms \in Latencies
          /\ old.stamp >= commands[n].since["chunk"]
      BY <1>3, <1>5, <3>1, Constants DEF MethodsWith, Count
    <3>4. [last EXCEPT !.method = "SHM"] = old
      BY <3>1, <3>2, <3>3 DEF Rows
    <3>5. "chunk" \in Selector!Sources
      BY DEF Selector!Sources
    <3> QED
      BY <3>2, <3>3, <3>4, <3>5 DEF Rows, IsMeasured
  <2> QED
    BY <2>1, <2>2
<1>8. /\ new \in Seq(Rows) /\ Len(new) = Count
      /\ \A i \in 1..Count : new[i] = IF i < Count THEN s[i] ELSE last
  <2>1. PICK front : front = Selector!Front(s)
    OBVIOUS
  <2>2. front \in Seq(Rows) /\ Len(front) = Count - 1 /\ \A i \in 1..(Count - 1) : front[i] = s[i]
    BY <1>3, <2>1 DEF Selector!Front
  <2>3. new = Append(front, last)
    BY <1>2, <1>6, <2>1 DEF Selector!Candidates
  <2> QED
    BY <1>3, <1>7, <2>2, <2>3
<1>9. \A i \in 1..Count : i < Count => MethodsWith("SHM")[i] = MethodsWith("SHM-RING")[i]
  BY Constants DEF MethodsWith, Count
<1>10. MethodsWith("SHM-RING")[Count] = "SHM-RING"
  BY Constants DEF MethodsWith, Count
<1>11. "chunk" \in Selector!Sources
  BY DEF Selector!Sources
<1>12. AreCandidates(new)
  <2>1. ASSUME NEW i \in 1..Count
        PROVE  /\ new[i].method = MethodsWith("SHM-RING")[i]
               /\ new[i].from \in Selector!Sources
               /\ new[i].ms \in Latencies
               /\ IsMeasured(new[i])
    <3>1. CASE i < Count
      BY <1>5, <1>8, <1>9, <1>11, <3>1 DEF IsMeasured
    <3>2. CASE ~ (i < Count)
      <4>1. i = Count /\ new[i] = last
        BY <1>3, <1>8, <3>2
      <4> QED
        BY <1>7, <1>10, <4>1
    <3> QED
      BY <3>1, <3>2
  <2> QED
    BY <1>8, <2>1 DEF AreCandidates
<1>13. IsNew(n, new)
  <2>1. DOMAIN new = 1..Count
    BY <1>8
  <2> QED
    BY <1>5, <1>7, <1>8, <2>1 DEF IsNew
<1> QED
  BY <1>8, <1>12, <1>13

\* Opening the profile empties it.
LEMMA OpenProfileInv ==
  ASSUME SelectorInv, NEW n \in 1..MaxCommands, Selector!OpenProfile(n) PROVE SelectorInv'
<1> USE DEF SelectorInv
<1>1. commands[n] \in CommandRecord /\ commands[n].pc = "readRing"
  BY ReadOnly DEF Selector!OpenProfile
<1>2. UNCHANGED <<summary, ring, clock, measured>>
  BY DEF Selector!OpenProfile
<1>3. CASE /\ commands' = [commands EXCEPT ![n].pc = "closeProfile", ![n].cand = Selector!Candidates(n),
                                           ![n].ring = Selector!NoRow]
           /\ profile' = Selector!Empty
  <2>1. PICK new : new = Selector!Candidates(n)
    OBVIOUS
  <2>2. new \in Seq(Rows) /\ AreCandidates(new) /\ IsNew(n, new)
    BY <1>1, <2>1, CandidatesAre
  <2> DEFINE c == [commands[n] EXCEPT !.pc = "closeProfile", !.cand = new, !.ring = Selector!NoRow]
  <2>3. commands' = [commands EXCEPT ![n] = c] /\ commands'[n] = c
    BY <1>3, <2>1 DEF SelectorData
  <2>4. c \in CommandRecord
    <3>1. "closeProfile" \in Places /\ Selector!NoRow \in Rows
      BY DEF Places, Before, Selector!NoRow, Selector!Row, Rows
    <3> QED
      BY <1>1, <2>2, <3>1 DEF CommandRecord
  <2>5. /\ c.pc = "closeProfile" /\ c.since = commands[n].since /\ c.ring = Selector!NoRow
        /\ c.report = commands[n].report /\ c.result = commands[n].result
        /\ c.cand = new /\ c.kind = commands[n].kind
    BY <1>1 DEF CommandRecord
  <2> HIDE DEF c
  <2>6. DataTypes' /\ clock =< clock' /\ measured \subseteq measured'
    BY <1>2, Constants DEF DataTypes
  <2>7. FilesHold'
    BY <1>2, <1>3, <2>6, EmptyFile, Published DEF FilesHold
  <2>8. FilesAreNew'
    <3>1. \A m \in 1..MaxCommands : commands'[m].since = commands[m].since
      BY <2>3, <2>5 DEF SelectorData
    <3> QED
      BY <1>2, <3>1 DEF FilesAreNew
  <2>9. \A f \in Selector!Sources : c.since[f] =< clock'
    BY <1>2, <2>5 DEF SelectorData
  <2>10. commands[n].report.source = "none" /\ commands[n].result = Selector!NoRow
         /\ commands[n].report.cand = <<>> /\ commands[n].kind \in {"recommend", "auto", "workloads"}
    BY <1>1 DEF CommandHolds, Before
  <2>11. AreCandidates(new)' /\ IsNew(n, new)'
    <3>1. AreCandidates(new)'
      BY <2>2, <2>6, Published
    <3> QED
      BY <2>2, <2>3, <2>5, <3>1 DEF IsNew
  <2>12. CommandHolds(n)'
    BY <2>3, <2>5, <2>10, <2>11 DEF CommandHolds, Before, IsNew
  <2>13. Selector!Builder(n)'
    BY <2>3, <2>5 DEF Selector!Builder
  <2>14. Alone(n) /\ OwnHolds(n) => OwnHolds(n)'
    <3>1. profile'.state = "empty" /\ profile'.tail = FALSE
      BY <1>3 DEF Selector!Empty, Selector!Absent
    <3> QED
      BY <2>3, <2>5, <2>10, <3>1 DEF OwnHolds
  <2> QED
    BY <2>3, <2>4, <2>6, <2>7, <2>8, <2>9, <2>12, <2>13, <2>14, StepInv
<1>4. CASE Selector!Fail(n) /\ UNCHANGED profile
  BY <1>1, <1>2, <1>4, EndInv DEF Selector!Fail
<1> QED
  BY <1>3, <1>4 DEF Selector!OpenProfile

\* What is published is the best of what was read, and nobody else's text
\* follows it unless somebody else has written one.
LEMMA CloseProfileInv ==
  ASSUME SelectorInv, NEW n \in 1..MaxCommands, Selector!CloseProfile(n) PROVE SelectorInv'
<1> USE DEF SelectorInv
<1>1. commands[n] \in CommandRecord /\ commands[n].pc = "closeProfile"
  BY ReadOnly DEF Selector!CloseProfile
<1>2. UNCHANGED <<summary, ring, clock, measured>>
  BY DEF Selector!CloseProfile
<1>3. PICK s \in Seq(Rows) : s = commands[n].cand
  BY <1>1 DEF CommandRecord
<1>4. PICK b : b = Selector!BestOf(s)
  OBVIOUS
<1>5. AreCandidates(s) /\ IsNew(n, s)
  BY <1>1, <1>3 DEF CommandHolds
<1>6. b \in Nat /\ IsChoice(s, b)
  <2>1. Len(s) # 0 /\ \A i \in 1..Len(s) : s[i].ms \in Nat
    BY <1>5, Constants DEF AreCandidates
  <2>2. /\ b \in 1..Len(s)
        /\ \A i \in 1..Len(s) : s[b].ms =< s[i].ms /\ (i < b => s[b].ms < s[i].ms)
    BY <1>4, <2>1, BestOfIsFirst
  <2> QED
    BY <1>5, <2>2 DEF IsChoice, AreCandidates
<1>7. PICK longer \in BOOLEAN :
        /\ longer => profile.state = "full"
        /\ profile' = [Selector!Full(s, b) EXCEPT !.tail = longer]
  BY <1>3, <1>4 DEF Selector!CloseProfile
<1>8. /\ profile' \in Files /\ profile'.state = "full" /\ profile'.rows = s
      /\ profile'.best = b /\ profile'.tail = longer
  <2>1. PICK file \in Files : file = Selector!Full(s, b) /\ file.state = "full" /\ file.rows = s /\ file.best = b
    BY <1>6, FullFile
  <2> QED
    BY <1>7, <2>1 DEF Files
<1> DEFINE report == [source |-> "both", cand |-> s, best |-> b]
           c == [commands[n] EXCEPT !.pc = Selector!AfterRecommend(n), !.cand = <<>>, !.report = report]
<1>9. commands' = [commands EXCEPT ![n] = c] /\ commands'[n] = c
  BY <1>3, <1>4 DEF SelectorData, Selector!CloseProfile
<1>10. Selector!AfterRecommend(n) \in {"done", "autoReload", "workloadReload"}
  BY <1>1 DEF CommandHolds, Selector!AfterRecommend
<1>11. report \in Reports /\ report.source = "both" /\ report.cand = s /\ report.best = b
  BY <1>6 DEF Reports
<1> HIDE DEF report
<1>12. c \in CommandRecord
  <2>1. <<>> \in Seq(Rows) /\ Selector!AfterRecommend(n) \in Places
    BY <1>10 DEF Places, Selector!Ended
  <2> QED
    BY <1>1, <1>11, <2>1 DEF CommandRecord
<1>13. /\ c.pc = Selector!AfterRecommend(n) /\ c.since = commands[n].since /\ c.ring = commands[n].ring /\ c.cand = <<>>
       /\ c.report = report /\ c.result = commands[n].result /\ c.kind = commands[n].kind
  BY <1>1 DEF CommandRecord
<1> HIDE DEF c
<1>14. DataTypes' /\ clock =< clock' /\ measured \subseteq measured'
  BY <1>2, Constants DEF DataTypes
<1>15. IsChoice(s, b)'
  BY <1>6, <1>14, Published
<1>16. FilesHold'
  BY <1>2, <1>8, <1>14, <1>15, Published DEF FilesHold
<1>17. FilesAreNew'
  <2>1. \A m \in 1..MaxCommands : commands'[m].since = commands[m].since
    BY <1>9, <1>13 DEF SelectorData
  <2> QED
    BY <1>2, <2>1 DEF FilesAreNew
<1>18. \A f \in Selector!Sources : c.since[f] =< clock'
  BY <1>2, <1>13 DEF SelectorData
<1>19. commands[n].result = Selector!NoRow /\ commands[n].ring = Selector!NoRow
  BY <1>1 DEF CommandHolds, Before
<1>20. IsNew(n, s)'
  BY <1>5, <1>9, <1>13 DEF IsNew
<1>21. CommandHolds(n)'
  BY <1>9, <1>10, <1>11, <1>13, <1>15, <1>19, <1>20 DEF CommandHolds, Before
<1>22. Selector!Builder(n)'
  BY <1>9, <1>11, <1>13 DEF Selector!Builder
<1>23. OwnHolds(n) => OwnHolds(n)'
  BY <1>1, <1>7, <1>8, <1>9, <1>10, <1>11, <1>13, <1>19 DEF OwnHolds
<1> QED
  BY <1>9, <1>12, <1>14, <1>16, <1>17, <1>18, <1>21, <1>22, <1>23, StepInv

\* What earlier commands have left holds the invariant.
LEMMA SelectorInit == Selector!Init => SelectorInv
<1> SUFFICES ASSUME Selector!Init PROVE SelectorInv
  OBVIOUS
<1> USE DEF Selector!Init
<1>1. clock = 0 /\ 0 \in 0..MaxMeasured /\ commands = [n \in 1..MaxCommands |-> Selector!NotStarted]
  BY Constants
<1>2. ASSUME NEW k \in RingChunks PROVE Selector!ToSet(ring[k].rows) \subseteq measured
  OBVIOUS
<1>3. Selector!ToSet(summary.rows) \subseteq measured
  OBVIOUS
<1>4. /\ summary \in Files
      /\ IF summary.state = "full" THEN IsSweep(summary.rows) ELSE summary.rows = <<>>
      /\ summary.state = "full" => summary.rows[1].stamp = 0
      /\ Selector!ToSet(summary.rows) \subseteq {r \in Rows : r.ms # 0 /\ r.stamp =< 0}
      /\ \A i \in DOMAIN summary.rows : summary.rows[i].from = "chunk"
  <2>1. CASE summary = Selector!Absent
    BY <2>1, EmptyFile DEF Selector!ToSet
  <2>2. CASE \E ms \in Selector!Measurements : summary = Selector!Full(Selector!ChunkRows(ms, 0), 0)
    <3>1. PICK ms \in Selector!Measurements : summary = Selector!Full(Selector!ChunkRows(ms, 0), 0)
      BY <2>2
    <3>2. PICK new : new = Selector!ChunkRows(ms, 0)
      OBVIOUS
    <3>3. /\ new \in Seq(Rows) /\ Len(new) = Count /\ Selector!ToSet(new) = {new[i] : i \in 1..Count}
          /\ \A i \in 1..Count : /\ new[i] \in Rows /\ new[i].ms # 0 /\ new[i].from = "chunk"
                                 /\ new[i].stamp = 0 /\ new[i].method = MethodsWith("SHM")[i]
      <4>1. 0 \in Nat
        OBVIOUS
      <4> QED
        BY <3>2, <4>1, ChunkRowsAre
    <3>4. summary \in Files /\ summary.state = "full" /\ summary.rows = new
      <4>1. new \in Seq(Rows) /\ 0 \in Nat
        BY <3>3
      <4> QED
        BY <3>1, <3>2, <4>1, FullFile
    <3>5. IsSweep(new)
      BY <1>3, <3>3, <3>4, Constants DEF IsSweep
    <3>6. DOMAIN new = 1..Count
      BY <3>3, Constants
    <3> QED
      BY <3>3, <3>4, <3>5, <3>6, Constants
  <2> QED
    BY <2>1, <2>2
<1>5. ASSUME NEW k \in RingChunks
      PROVE  /\ ring[k] \in Files
             /\ IF ring[k].state = "full"
                THEN Len(ring[k].rows) = 1 /\ IsOfRing(ring[k].rows[1]) /\ ring[k].rows[1].from = k
                ELSE ring[k].rows = <<>>
             /\ ring[k].state = "full" => ring[k].rows[1].stamp = 0
             /\ Selector!ToSet(ring[k].rows) \subseteq {r \in Rows : r.ms # 0 /\ r.stamp =< 0}
  <2>1. CASE ring[k] = Selector!Absent
    BY <2>1, EmptyFile DEF Selector!ToSet
  <2>2. CASE \E ms \in Latencies : ring[k] = Selector!Full(<<Selector!Row("SHM-RING", ms, k, 0)>>, 0)
    <3>1. PICK ms \in Latencies : ring[k] = Selector!Full(<<Selector!Row("SHM-RING", ms, k, 0)>>, 0)
      BY <2>2
    <3>2. PICK new : new = Selector!Row("SHM-RING", ms, k, 0)
      OBVIOUS
    <3>3. new \in Rows /\ new.ms # 0 /\ new.stamp = 0 /\ new.from = k /\ new.method = "SHM-RING"
      <4>1. k \in Selector!Sources /\ 0 \in Nat /\ ms # 0
        BY Constants DEF Selector!Sources
      <4>2. new \in Rows
        BY <3>2, <4>1, RowIsRow
      <4> QED
        BY <3>2, <4>1, <4>2, RowFields
    <3>4. ring[k] \in Files /\ ring[k].state = "full" /\ ring[k].rows = <<new>>
      <4>1. PICK one : one = <<new>>
        OBVIOUS
      <4>2. one \in Seq(Rows) /\ 0 \in Nat
        BY <3>3, <4>1
      <4>3. ring[k] = Selector!Full(one, 0)
        BY <3>1, <3>2, <4>1
      <4>4. Selector!Full(one, 0) \in Files /\ Selector!Full(one, 0).state = "full"
            /\ Selector!Full(one, 0).rows = one
        BY <4>2, FullFile
      <4> QED
        BY <4>1, <4>3, <4>4
    <3>5. Selector!ToSet(ring[k].rows) = {new}
      BY <3>4 DEF Selector!ToSet
    <3>6. IsOfRing(new)
      BY <1>2, <3>3, <3>5 DEF IsOfRing
    <3> QED
      BY <3>3, <3>4, <3>5, <3>6
  <2> QED
    BY <2>1, <2>2
<1>6. ring = [k \in RingChunks |-> ring[k]]
  OBVIOUS
<1>7. DataTypes
  <2>1. ASSUME NEW r \in measured PROVE r \in {s \in Rows : s.ms # 0 /\ s.stamp =< clock}
    BY <1>1, <1>4, <1>5
  <2> QED
    BY <1>1, <2>1 DEF DataTypes
<1>8. /\ profile \in Files /\ profile.tail = FALSE
      /\ IF profile.state = "full" THEN IsChoice(profile.rows, profile.best) ELSE profile.rows = <<>>
  <2>1. CASE profile = Selector!Absent
    BY <2>1, EmptyFile DEF Selector!Absent
  <2>2. CASE /\ summary.state = "full" /\ ring[DefaultChunk].state = "full"
             /\ LET cand == Append(Selector!Front(summary.rows), ring[DefaultChunk].rows[1])
                IN profile = Selector!Full(cand, Selector!BestOf(cand))
    <3>1. PICK front : front = Selector!Front(summary.rows)
      OBVIOUS
    <3>2. PICK last : last = ring[DefaultChunk].rows[1]
      OBVIOUS
    <3>3. PICK new : new = Append(front, last)
      OBVIOUS
    <3>4. PICK b : b = Selector!BestOf(new)
      OBVIOUS
    <3>5. profile = Selector!Full(new, b)
      BY <2>2, <3>1, <3>2, <3>3, <3>4
    <3>6. /\ last \in Rows /\ last \in measured /\ last.method = "SHM-RING" /\ last.ms \in Latencies
          /\ last.from \in Selector!Sources
      <4>1. IsOfRing(last)
        BY <1>5, <2>2, <3>2, Constants
      <4> QED
        BY <1>7, <4>1 DEF IsOfRing, DataTypes, Rows, Selector!Sources
    <3>7. PICK s \in Seq(Rows) : s = summary.rows
      BY <1>4 DEF Files
    <3>8. Len(s) = Count /\ Count \in Nat \ {0} /\ IsSweep(s)
      BY <1>4, <2>2, <3>7, Constants DEF IsSweep
    <3>9. front \in Seq(Rows) /\ Len(front) = Count - 1 /\ \A i \in 1..(Count - 1) : front[i] = s[i]
      BY <3>1, <3>7, <3>8 DEF Selector!Front
    <3>10. /\ new \in Seq(Rows) /\ Len(new) = Count
           /\ \A i \in 1..Count : new[i] = IF i < Count THEN s[i] ELSE last
      BY <3>3, <3>6, <3>8, <3>9
    <3>11. ASSUME NEW i \in 1..Count
           PROVE  /\ new[i].method = MethodsWith("SHM-RING")[i]
                  /\ new[i].from \in Selector!Sources /\ new[i].ms \in Latencies
                  /\ new[i] \in measured
      <4>1. CASE i < Count
        <5>1. s[i] \in measured /\ s[i].from = "chunk" /\ s[i].method = MethodsWith("SHM")[i]
          BY <3>8 DEF IsSweep
        <5>2. s[i].ms \in Latencies
          BY <1>7, <5>1 DEF DataTypes, Rows
        <5>3. MethodsWith("SHM")[i] = MethodsWith("SHM-RING")[i] /\ "chunk" \in Selector!Sources
          BY <4>1, Constants DEF MethodsWith, Count, Selector!Sources
        <5> QED
          BY <3>10, <4>1, <5>1, <5>2, <5>3
      <4>2. CASE ~ (i < Count)
        <5>1. i = Count /\ new[i] = last
          BY <3>8, <3>10, <4>2
        <5>2. MethodsWith("SHM-RING")[Count] = "SHM-RING"
          BY Constants DEF MethodsWith, Count
        <5> QED
          BY <3>6, <5>1, <5>2
      <4> QED
        BY <4>1, <4>2
    <3>12. AreCandidates(new)
      BY <3>10, <3>11 DEF AreCandidates, IsMeasured
    <3>13. b \in Nat /\ IsChoice(new, b)
      <4>1. Len(new) # 0 /\ \A i \in 1..Len(new) : new[i].ms \in Nat
        BY <3>8, <3>10, <3>11, Constants
      <4>2. /\ b \in 1..Len(new)
            /\ \A i \in 1..Len(new) : new[b].ms =< new[i].ms /\ (i < b => new[b].ms < new[i].ms)
        BY <3>4, <3>10, <4>1, BestOfIsFirst
      <4> QED
        BY <3>10, <3>12, <4>2 DEF IsChoice
    <3> QED
      BY <3>5, <3>10, <3>13, FullFile
  <2> QED
    BY <2>1, <2>2
<1>9. FilesHold
  BY <1>4, <1>5, <1>6, <1>8 DEF FilesHold
<1>10. /\ Selector!NotStarted \in CommandRecord /\ Selector!NotStarted.pc = "none"
       /\ Selector!NotStarted.report = Selector!NoReport /\ Selector!NotStarted.result = Selector!NoRow
       /\ Selector!NotStarted.ring = Selector!NoRow /\ Selector!NotStarted.cand = <<>>
       /\ \A f \in Selector!Sources : Selector!NotStarted.since[f] = 0
       /\ Selector!NoReport.source = "none" /\ Selector!NoReport.cand = <<>>
  <2>1. Selector!NoReport \in Reports /\ <<>> \in Seq(Rows)
    BY DEF Selector!NoReport, Reports
  <2>2. Selector!NoRow \in Rows /\ "none" \in Places
    BY DEF Selector!NoRow, Selector!Row, Rows, Places, Before
  <2>3. [f \in Selector!Sources |-> 0] \in [Selector!Sources -> Nat]
    OBVIOUS
  <2>4. Selector!NotStarted \in CommandRecord
    BY <2>1, <2>2, <2>3 DEF Selector!NotStarted, CommandRecord
  <2> QED
    BY <2>4 DEF Selector!NotStarted, Selector!NoReport
<1>11. SelectorData
  BY <1>1, <1>10 DEF SelectorData
<1>12. FilesAreNew
  <2>1. "chunk" \in Selector!Sources /\ RingChunks \subseteq Selector!Sources
    BY DEF Selector!Sources
  <2> QED
    BY <1>1, <1>4, <1>5, <1>10, <2>1 DEF FilesAreNew
<1>13. ASSUME NEW n \in 1..MaxCommands PROVE CommandHolds(n) /\ OwnHolds(n)
  BY <1>1, <1>8, <1>10 DEF CommandHolds, OwnHolds
<1> QED
  BY <1>7, <1>9, <1>11, <1>12, <1>13 DEF SelectorInv

\* Every step of a command keeps the invariant.
LEMMA SelectorStep ==
  ASSUME SelectorInv, Selector!Next PROVE SelectorInv'
<1>1. PICK n \in 1..MaxCommands :
        \/ Selector!Start(n)
        \/ Selector!Sweep(n) \/ Selector!SweepClose(n) \/ Selector!Compare(n) \/ Selector!CompareClose(n)
        \/ Selector!Check(n) \/ Selector!ReadSummary(n) \/ Selector!ReadRing(n)
        \/ Selector!OpenProfile(n) \/ Selector!CloseProfile(n)
        \/ Selector!AutoCheck(n) \/ Selector!AutoReload(n) \/ Selector!Execute(n)
        \/ Selector!WorkloadCheck(n) \/ Selector!WorkloadReload(n) \/ Selector!SaveWorkloads(n)
        \/ Selector!Kill(n)
  BY DEF Selector!Next
<1>2. CASE Selector!Start(n)
  BY <1>2, StartInv
<1>3. CASE Selector!Sweep(n)
  BY <1>3, RingSweepInv
<1>4. CASE Selector!SweepClose(n)
  BY <1>4, SweepCloseInv
<1>5. CASE Selector!Compare(n)
  BY <1>5, CompareInv
<1>6. CASE Selector!CompareClose(n)
  BY <1>6, CompareCloseInv
<1>7. CASE Selector!Check(n)
  BY <1>7, CheckInv
<1>8. CASE Selector!ReadSummary(n)
  BY <1>8, ReadSummaryInv
<1>9. CASE Selector!ReadRing(n)
  BY <1>9, ReadRingInv
<1>10. CASE Selector!OpenProfile(n)
  BY <1>10, OpenProfileInv
<1>11. CASE Selector!CloseProfile(n)
  BY <1>11, CloseProfileInv
<1>12. CASE Selector!AutoCheck(n)
  BY <1>12, AutoCheckInv
<1>13. CASE Selector!AutoReload(n)
  BY <1>13, AutoReloadInv
<1>14. CASE Selector!Execute(n) \/ Selector!SaveWorkloads(n)
  BY <1>14, ExecuteInv
<1>15. CASE Selector!WorkloadCheck(n)
  BY <1>15, WorkloadCheckInv
<1>16. CASE Selector!WorkloadReload(n)
  BY <1>16, WorkloadReloadInv
<1>17. CASE Selector!Kill(n)
  BY <1>17, KillInv
<1> QED
  BY <1>1, <1>2, <1>3, <1>4, <1>5, <1>6, <1>7, <1>8, <1>9, <1>10, <1>11, <1>12, <1>13, <1>14, <1>15,
     <1>16, <1>17

\* A choice is what SoundChoice asks for.
LEMMA ChoiceIsSound ==
  ASSUME NEW s \in Seq(Rows), NEW b \in Nat, IsChoice(s, b) PROVE Selector!SoundChoice(s, b)
<1>1. DOMAIN s = 1..Count /\ b \in 1..Count /\ Count \in Nat
  BY Constants DEF IsChoice, AreCandidates
<1>2. [i \in 1..Count |-> s[i].method] = MethodsWith("SHM-RING")
  <2>1. \A i \in 1..Count : s[i].method = MethodsWith("SHM-RING")[i]
    BY DEF IsChoice, AreCandidates
  <2>2. DOMAIN MethodsWith("SHM-RING") = 1..Count
        /\ MethodsWith("SHM-RING") = [i \in DOMAIN MethodsWith("SHM-RING") |-> MethodsWith("SHM-RING")[i]]
    <3>1. PICK m : m = MethodsWith("SHM-RING")
      OBVIOUS
    <3>2. PICK t \in Seq(STRING) : t = Streams
      BY Constants
    <3> DEFINE Set == {t[i] : i \in 1..Len(t)} \cup {"SHM-RING"}
    <3>3. t \in Seq(Set) /\ Len(t) \in Nat /\ "SHM-RING" \in Set
      <4>1. \A i \in 1..Len(t) : t[i] \in Set
        OBVIOUS
      <4>2. t = [i \in 1..Len(t) |-> t[i]] /\ Len(t) \in Nat
        OBVIOUS
      <4>3. "SHM-RING" \in Set
        OBVIOUS
      <4> HIDE DEF Set
      <4>4. t \in [1..Len(t) -> Set]
        BY <4>1, <4>2
      <4> QED
        BY <4>2, <4>3, <4>4
    <3> HIDE DEF Set
    <3>4. m = Append(t, "SHM-RING")
      BY <3>1, <3>2 DEF MethodsWith
    <3>5. m \in Seq(Set) /\ Len(m) = Count
      BY <3>2, <3>3, <3>4, AppendProperties DEF Count
    <3>6. m \in [1..Count -> Set]
      BY <3>5
    <3> QED
      BY <3>1, <3>6
  <2> QED
    BY <2>1, <2>2
<1>3. \A i \in DOMAIN s : s[i] \in measured \/ [s[i] EXCEPT !.method = "SHM"] \in measured
  BY <1>1 DEF IsChoice, AreCandidates, IsMeasured
<1>4. \A i \in DOMAIN s : s[b].ms =< s[i].ms /\ (i < b => s[b].ms < s[i].ms)
  BY <1>1 DEF IsChoice
<1> QED
  BY <1>1, <1>2, <1>3, <1>4 DEF Selector!SoundChoice, MethodsWith

\* What was measured is a row of the selector.
LEMMA MeasuredRow ==
  ASSUME SelectorInv, NEW r \in Rows, IsMeasured(r) PROVE r \in Selector!RowSet
<1>1. clock \in Nat
  BY Constants DEF SelectorInv, DataTypes
<1>2. CASE r \in measured
  BY <1>1, <1>2 DEF SelectorInv, DataTypes, Rows, Selector!RowSet, ToSet, Selector!ToSet
<1>3. CASE [r EXCEPT !.method = "SHM"] \in measured
  <2>1. PICK t \in measured : t = [r EXCEPT !.method = "SHM"]
    BY <1>3
  <2>2. t.stamp = r.stamp /\ t.stamp =< clock
    BY <2>1 DEF SelectorInv, DataTypes, Rows
  <2> QED
    BY <1>1, <2>2 DEF Rows, Selector!RowSet, ToSet, Selector!ToSet
<1> QED
  BY <1>2, <1>3 DEF IsMeasured

\* So is the row of no result.
LEMMA NoRowIsRow == SelectorInv => Selector!NoRow \in Selector!RowSet
<1> SUFFICES ASSUME SelectorInv PROVE Selector!NoRow \in Selector!RowSet
  OBVIOUS
<1>1. 0 \in 0..clock
  BY Constants DEF SelectorInv, DataTypes
<1> QED
  BY <1>1 DEF Selector!NoRow, Selector!Row, Selector!RowSet

\* The invariant has the selector's types.
LEMMA SelectorTypes == SelectorInv => Selector!TypeOK
<1> SUFFICES ASSUME SelectorInv PROVE Selector!TypeOK
  OBVIOUS
<1> USE DEF SelectorInv
<1>0. Count \in Nat /\ clock \in Nat
  BY Constants DEF DataTypes
<1>1. \A r \in measured : r \in Selector!RowSet /\ IsMeasured(r)
  BY MeasuredRow DEF DataTypes, IsMeasured
<1>2. ASSUME NEW n \in 1..MaxCommands
      PROVE  /\ commands[n].kind \in Selector!Kinds \cup {"none"} /\ commands[n].todo \subseteq RingChunks
             /\ Selector!ToSet(commands[n].cand) \subseteq Selector!RowSet
             /\ commands[n].ring \in Selector!RowSet
             /\ commands[n].result \in Selector!RowSet
             /\ commands[n].origin \in {"none", "REUSED", "GENERATED"}
             /\ commands[n].since \in [Selector!Sources -> 0..clock]
  <2>1. commands[n] \in CommandRecord /\ CommandHolds(n)
    BY ReadOnly
  <2>2. PICK s \in Seq(Rows) : s = commands[n].cand
    BY <2>1 DEF CommandRecord
  <2>3. Selector!ToSet(s) \subseteq Selector!RowSet
    <3>1. CASE commands[n].pc \notin {"readRing", "closeProfile"}
      BY <2>1, <2>2, <3>1 DEF CommandHolds, Selector!ToSet
    <3>2. CASE commands[n].pc \in {"readRing", "closeProfile"}
      <4>1. Len(s) = Count /\ \A i \in 1..Count : IsMeasured(s[i])
        BY <2>1, <2>2, <3>2 DEF CommandHolds, IsSweep, AreCandidates, IsMeasured
      <4>2. DOMAIN s = 1..Count /\ \A i \in DOMAIN s : s[i] \in Rows
        BY <4>1
      <4> QED
        BY <4>1, <4>2, MeasuredRow DEF Selector!ToSet
    <3> QED
      BY <3>1, <3>2
  <2>4. commands[n].ring \in Selector!RowSet
    BY <1>1, <2>1, NoRowIsRow DEF CommandHolds, IsOfRing
  <2>5. commands[n].result \in Selector!RowSet
    BY <2>1, NoRowIsRow, MeasuredRow DEF CommandHolds, CommandRecord
  <2>6. commands[n].since \in [Selector!Sources -> 0..clock]
    <3>1. \A f \in Selector!Sources : commands[n].since[f] \in 0..clock
      BY <1>0, <2>1 DEF SelectorData, CommandRecord
    <3> QED
      BY <2>1, <3>1 DEF CommandRecord
  <2> QED
    BY <2>1, <2>2, <2>3, <2>4, <2>5, <2>6 DEF CommandRecord
<1>3. ASSUME NEW file \in Files, NEW k \in Nat,
             IF file.state = "full" THEN Len(file.rows) = k /\ \A i \in 1..k : IsMeasured(file.rows[i])
             ELSE file.rows = <<>>
      PROVE  Selector!IsFile(file, {k})
  <2>1. PICK s \in Seq(Rows) : s = file.rows
    BY DEF Files
  <2>2. Selector!ToSet(s) \subseteq Selector!RowSet
    <3>1. CASE file.state = "full"
      <4>1. DOMAIN s = 1..k /\ \A i \in DOMAIN s : s[i] \in Rows /\ IsMeasured(s[i])
        BY <1>3, <2>1, <3>1
      <4> QED
        BY <4>1, MeasuredRow DEF Selector!ToSet
    <3>2. CASE file.state # "full"
      BY <1>3, <2>1, <3>2 DEF Selector!ToSet
    <3> QED
      BY <3>1, <3>2
  <2>3. Len(s) \in IF file.state = "full" THEN {k} ELSE {0}
    BY <1>3, <2>1
  <2> QED
    BY <2>1, <2>2, <2>3 DEF Selector!IsFile, Files
<1>4. Selector!IsFile(summary, {Count})
  <2>1. summary.state = "full" =>
          Len(summary.rows) = Count /\ \A i \in 1..Count : IsMeasured(summary.rows[i])
    BY DEF FilesHold, IsSweep, IsMeasured
  <2> QED
    BY <1>0, <1>3, <2>1 DEF FilesHold
<1>5. Selector!IsFile(profile, {Count})
  <2>1. profile.state = "full" =>
          Len(profile.rows) = Count /\ \A i \in 1..Count : IsMeasured(profile.rows[i])
    BY DEF FilesHold, IsChoice, AreCandidates
  <2> QED
    BY <1>0, <1>3, <2>1 DEF FilesHold
<1>6. ASSUME NEW k \in RingChunks PROVE Selector!IsFile(ring[k], {1})
  <2>1. ring[k].state = "full" =>
          Len(ring[k].rows) = 1 /\ \A i \in 1..1 : IsMeasured(ring[k].rows[i])
    BY DEF FilesHold, IsOfRing, IsMeasured
  <2>2. 1 \in Nat /\ ring[k] \in Files /\ (ring[k].state # "full" => ring[k].rows = <<>>)
    BY DEF FilesHold
  <2> QED
    BY <1>3, <2>1, <2>2
<1> QED
  BY <1>1, <1>2, <1>4, <1>5, <1>6 DEF Selector!TypeOK, DataTypes, Count

\* The invariant is what RecommendationIsBest needs.
LEMMA SelectorInvIsBest == SelectorInv => Selector!RecommendationIsBest
<1> SUFFICES ASSUME SelectorInv PROVE Selector!RecommendationIsBest
  OBVIOUS
<1> USE DEF SelectorInv
<1>1. profile.state = "full" => Selector!SoundChoice(profile.rows, profile.best)
  BY ChoiceIsSound DEF FilesHold, Files
<1>2. ASSUME NEW n \in 1..MaxCommands, commands[n].report.source # "none"
      PROVE  Selector!SoundChoice(commands[n].report.cand, commands[n].report.best)
  <2>1. commands[n].report.cand \in Seq(Rows) /\ commands[n].report.best \in Nat
    BY ReadOnly DEF CommandRecord, Reports
  <2> QED
    BY <1>2, <2>1, ChoiceIsSound DEF CommandHolds
<1>3. ASSUME NEW n \in 1..MaxCommands, commands[n].report.source # "existing",
             NEW i \in DOMAIN commands[n].report.cand
      PROVE  commands[n].report.cand[i].stamp >= commands[n].since[commands[n].report.cand[i].from]
  <2>1. commands[n].report.source \in {"none", "existing", "both"}
    BY ReadOnly DEF CommandRecord, Reports
  <2>2. CommandHolds(n)
    OBVIOUS
  <2>3. commands[n].report.source = "none" => commands[n].report.cand = <<>>
    BY <2>2 DEF CommandHolds
  <2>4. commands[n].report.source # "none"
    <3>1. DOMAIN (<<>>) = {}
      OBVIOUS
    <3> QED
      BY <1>3, <2>3, <3>1
  <2> QED
    BY <1>3, <2>1, <2>2, <2>4 DEF CommandHolds, IsNew
<1> QED
  BY <1>1, <1>2, <1>3, SelectorTypes
     DEF Selector!RecommendationIsBest, Selector!BestOfPublished, Selector!StaleOnlyIfReused

\* And what UndisturbedIsConsistent needs.
LEMMA SelectorInvIsConsistent == SelectorInv => Selector!UndisturbedIsConsistent
BY DEF SelectorInv, Alone, OwnHolds, Selector!UndisturbedIsConsistent

-----------------------------------------------------------------------------
(* The parts side by side.                                                 *)

\* The invariant of the part that was chosen, and that of main.
CommandsInv ==
  /\ CInv
  /\ part = "selector" => SelectorInv
  /\ part = "syscalls" => SyscallsInv
  /\ part = "environment" => EnvironmentInv
  /\ part = "sweep" => SweepInv

\* Whichever part is chosen starts in its invariant.
LEMMA CommandsInvInit == CommandsInit => CommandsInv
<1> SUFFICES ASSUME CommandsInit PROVE CommandsInv
  OBVIOUS
<1>1. CInv
  BY CInvInit DEF CommandsInit, NoMain
<1>2. /\ part = "selector" => Selector!Init
      /\ part = "syscalls" => Syscalls!Init
      /\ part = "environment" => EnvironmentRow!Init
      /\ part = "sweep" => Sweep!Init
  BY DEF CommandsInit
<1> QED
  BY <1>1, <1>2, SelectorInit, ProfilerInit, ProfileStarts, SweepStarts DEF CommandsInv

\* The selector's invariant is about its own variables.
LEMMA SelectorStays == SelectorInv /\ UNCHANGED selectorVars => SelectorInv'
<1> SUFFICES ASSUME SelectorInv, UNCHANGED selectorVars PROVE SelectorInv'
  OBVIOUS
<1>1. UNCHANGED commands /\ UNCHANGED <<summary, ring, profile, clock, measured>>
  BY DEF selectorVars
<1>2. DataTypes' /\ SelectorData'
  BY <1>1 DEF SelectorInv, DataTypes, SelectorData
<1>3. FilesHold'
  BY <1>1, Published DEF SelectorInv, FilesHold
<1>4. FilesAreNew'
  BY <1>1 DEF SelectorInv, FilesAreNew
<1>5. ASSUME NEW n \in 1..MaxCommands PROVE CommandHolds(n)'
  <2>1. CommandHolds(n)
    BY DEF SelectorInv
  <2> QED
    BY <1>1, <2>1, Published DEF CommandHolds, IsNew
<1>6. ASSUME NEW n \in 1..MaxCommands, Alone(n)' PROVE OwnHolds(n)'
  <2>1. \A m \in 1..MaxCommands : Selector!Builder(m)' = Selector!Builder(m)
    BY <1>1 DEF Selector!Builder
  <2>2. Alone(n)
    BY <1>6, <2>1 DEF Alone
  <2>3. OwnHolds(n)
    BY <2>2 DEF SelectorInv
  <2> QED
    BY <1>1, <2>3 DEF OwnHolds
<1> QED
  BY <1>2, <1>3, <1>4, <1>5, <1>6 DEF SelectorInv

\* The profiler's.
LEMMA SyscallsStays == SyscallsInv /\ UNCHANGED syscallsVars => SyscallsInv'
<1> SUFFICES ASSUME SyscallsInv, UNCHANGED syscallsVars PROVE SyscallsInv'
  OBVIOUS
<1>1. UNCHANGED profilers /\ UNCHANGED <<strace, raw, csv, comparison>>
  BY DEF syscallsVars
<1>2. ProfilerTypes'
  BY <1>1 DEF SyscallsInv, ProfilerTypes
<1>3. ASSUME NEW n \in 1..MaxCommands PROVE Counts(n)' /\ Traces(n)'
  <2>1. Counts(n) /\ Traces(n)
    BY DEF SyscallsInv
  <2>2. Counts(n)'
    BY <1>1, <2>1 DEF Counts
  <2>3. Traces(n)'
    BY <1>1, <2>1 DEF Traces, Syscalls!Current
  <2> QED
    BY <2>2, <2>3
<1> QED
  BY <1>2, <1>3 DEF SyscallsInv

\* The environment's.
LEMMA EnvironmentStays == EnvironmentInv /\ UNCHANGED environmentVars => EnvironmentInv'
<1> SUFFICES ASSUME EnvironmentInv, UNCHANGED environmentVars PROVE EnvironmentInv'
  OBVIOUS
<1>1. EnvironmentRow!Row' = EnvironmentRow!Row
  BY DEF environmentVars, EnvironmentRow!Row, EnvironmentRow!Column
<1> QED
  BY <1>1 DEF environmentVars, EnvironmentInv, FoundHolds, FieldsHold

\* The sweeps'.
LEMMA SweepStays == SweepInv /\ UNCHANGED sweepVars => SweepInv'
BY DEF sweepVars, SweepInv, Sweep!TypeOK, TmpHolds, TmpIsOwned, SweepHolds, RowDone, IsBest

\* A step of one part leaves the others as they are.
LEMMA CommandsInvStep == CommandsInv /\ [CommandsNext]_allVars => CommandsInv'
<1> SUFFICES ASSUME CommandsInv, [CommandsNext]_allVars PROVE CommandsInv'
  OBVIOUS
<1>1. part' = part /\ [Next]_vars
  BY DEF CommandsNext, MainNext, SelectorNext, SyscallsNext, EnvironmentNext, SweepNext, allVars
<1>2. CInv'
  BY <1>1, CInvStep DEF CommandsInv
<1>3. ASSUME part = "selector" PROVE SelectorInv'
  <2>1. Selector!Next \/ UNCHANGED selectorVars
    BY <1>3 DEF CommandsNext, MainNext, SelectorNext, SyscallsNext, EnvironmentNext, SweepNext, allVars
  <2> QED
    BY <1>3, <2>1, SelectorStep, SelectorStays DEF CommandsInv
<1>4. ASSUME part = "syscalls" PROVE SyscallsInv'
  <2>1. Syscalls!Next \/ UNCHANGED syscallsVars
    BY <1>4 DEF CommandsNext, MainNext, SelectorNext, SyscallsNext, EnvironmentNext, SweepNext, allVars
  <2> QED
    BY <1>4, <2>1, SyscallsStep, SyscallsStays DEF CommandsInv
<1>5. ASSUME part = "environment" PROVE EnvironmentInv'
  <2>1. EnvironmentRow!Next \/ UNCHANGED environmentVars
    BY <1>5 DEF CommandsNext, MainNext, SelectorNext, SyscallsNext, EnvironmentNext, SweepNext, allVars
  <2> QED
    BY <1>5, <2>1, EnvironmentStep, EnvironmentStays DEF CommandsInv
<1>6. ASSUME part = "sweep" PROVE SweepInv'
  <2>1. Sweep!Next \/ UNCHANGED sweepVars
    BY <1>6 DEF CommandsNext, MainNext, SelectorNext, SyscallsNext, EnvironmentNext, SweepNext, allVars
  <2> QED
    BY <1>6, <2>1, SweepStep, SweepStays DEF CommandsInv
<1> QED
  BY <1>1, <1>2, <1>3, <1>4, <1>5, <1>6 DEF CommandsInv

\* The invariant holds in every reachable state.
LEMMA CommandsInvHolds == CommandsSpec => []CommandsInv
BY CommandsInvInit, CommandsInvStep, PTL DEF CommandsSpec

\* For integers of any width: as long as size and chunk size fit, a command
\* moves what it was asked to and the manifest names what it wrote
\* (main.c:177-236 and every command of main).
THEOREM OutputsNamed == CommandsSpec => []OutputsAreNamed
<1>1. CommandsInv => OutputsAreNamed
  BY CInvNames DEF CommandsInv
<1> QED
  BY <1>1, CommandsInvHolds, PTL

\* However many commands run and break off, and whatever they measure: what
\* is recommended is the first of the fastest in what was published, and it
\* is stale only if the command took files over that it had not refreshed
\* (adaptive_selector.c:763-1011).
THEOREM RecommendationsAreBest == CommandsSpec => []RecommendationIsBest
<1>1. CommandsInv => RecommendationIsBest
  BY SelectorInvIsBest DEF CommandsInv, RecommendationIsBest
<1> QED
  BY <1>1, CommandsInvHolds, PTL

\* A command that no other disturbs executes the strategy it has reported
\* (adaptive_selector.c:1120-1150, workload_profiler.c:441-471).
THEOREM UndisturbedAreConsistent == CommandsSpec => []UndisturbedIsConsistent
<1>1. CommandsInv => UndisturbedIsConsistent
  BY SelectorInvIsConsistent DEF CommandsInv, UndisturbedIsConsistent
<1> QED
  BY <1>1, CommandsInvHolds, PTL

\* For any number of profilers and transports: a profile whose raw file no
\* other strace has touched is of its own run
\* (syscall_profiler.c:101-178, 653-690).
THEOREM ProfilesAreOwn == CommandsSpec => []ProfileIsOwn
<1>1. CommandsInv => ProfileIsOwn
  BY SyscallsInvIsOwn DEF CommandsInv, ProfileIsOwn
<1> QED
  BY <1>1, CommandsInvHolds, PTL

\* For any number of columns and texts of any length: what the final summary
\* splits is what the environment profile wrote, up to the first text with a
\* comma (environment_profiler.c:574-609, final_summary.c:329-392).
THEOREM RowsAreReadBack == CommandsSpec => []RowIsReadBack
<1>1. CommandsInv => RowIsReadBack
  BY EnvironmentInvIsReadBack DEF CommandsInv, RowIsReadBack
<1> QED
  BY <1>1, CommandsInvHolds, PTL

\* For any number of sweeps, chunk sizes and methods: a sweep that publishes
\* has every row, and marks the smallest chunk size with the lowest median
\* (optimizer.c:74-126).
THEOREM SweepsAreSound == CommandsSpec => []SweepIsSound
<1>1. CommandsInv => SweepIsSound
  BY SweepInvIsSound DEF CommandsInv, SweepIsSound
<1> QED
  BY <1>1, CommandsInvHolds, PTL

\* Only a sweep that did not get to its end leaves a file (optimizer.c:111).
THEOREM SweepsLeaveNoFile == CommandsSpec => []NoFileLeft
<1>1. CommandsInv => NoFileLeft
  BY SweepInvLeavesNoFile DEF CommandsInv, NoFileLeft
<1> QED
  BY <1>1, CommandsInvHolds, PTL
=============================================================================
