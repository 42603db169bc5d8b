---------------------------- MODULE CommandLine -----------------------------
(***************************************************************************)
(* One run of fastipc: main finds the command, parses its arguments, turns *)
(* megabytes into bytes in 64-bit arithmetic, calls the command, records a *)
(* manifest with the names of the results and the exit code, and exits.    *)
(*                                                                         *)
(* Most commands name their results after the bytes they are given, while  *)
(* main names them after the argument: the two have to agree.  What else a *)
(* command does is the subject of the other modules.                       *)
(***************************************************************************)
EXTENDS Integers, Sequences, Functions

CONSTANTS Modulus,  \* 2^64, the range of unsigned long long and size_t
          MB, KB,   \* 1024 * 1024 and 1024
          Digits    \* the numbers that arguments are made of

ASSUME WidthAssumption == Modulus \in Nat \ {0} /\ MB \in Nat \ {0} /\ KB \in Nat \ {0}
ASSUME DigitsAssumption == Digits \subseteq Nat

-----------------------------------------------------------------------------
(* The commands: their arguments, and after what they name their results:  *)
(* after the bytes they get, the numbers as given, or always the same.     *)

Cmd(params, names) == [params |-> params, names |-> names]
Sized == <<"size">>
SizedTrials == <<"size", "trials">>
SizedChunk == <<"size", "chunk">>
Series == <<"size", "chunk", "trials">>

FinalSummary == Cmd(<<>>, "fixed")
Recommend == Cmd(Sized, "bytes")
AutoRun == Cmd(Sized, "bytes")
BuildWorkloads == Cmd(<<"trials">>, "fixed")
Environment == Cmd(<<>>, "fixed")
AnalyzeAffinity == Cmd(Series, "bytes")
OptimizeMemory == Cmd(Series, "bytes")
Profile == Cmd(<<"method", "size", "chunk">>, "given")
CompareSyscalls == Cmd(<<"method", "method", "size", "chunk">>, "given")
Verify == Cmd(<<"method", "size", "chunk">>, "given")
Benchmark == Cmd(SizedTrials, "given")
OptimizeChunk == Cmd(SizedTrials, "bytes")
OptimizeShm == Cmd(Series, "bytes")
OptimizeRingSlots == Cmd(Series, "bytes")
Transport == Cmd(SizedChunk, "none")

Commands ==
  [finalSummary |-> FinalSummary, recommend |-> Recommend, auto |-> AutoRun,
   buildWorkloads |-> BuildWorkloads, environment |-> Environment,
   analyzeAffinity |-> AnalyzeAffinity, optimizeMemory |-> OptimizeMemory,
   profile |-> Profile, compareSyscalls |-> CompareSyscalls, verify |-> Verify,
   benchmark |-> Benchmark, optimizeChunk |-> OptimizeChunk, optimizeShm |-> OptimizeShm,
   optimizeRingSlots |-> OptimizeRingSlots, transport |-> Transport]

\* They refuse a payload or a chunk of 0 bytes.
RefusesZero == {"analyzeAffinity", "optimizeMemory", "optimizeRingSlots"}

-----------------------------------------------------------------------------
(* Arguments.                                                              *)

Texts == [minus : BOOLEAN, digits : Digits \cup {-1}, tail : BOOLEAN]
NoValue == 0

\* strtoull: a minus negates in the same width, ERANGE beyond it.
Strtoull(text) == IF text.minus THEN (Modulus - text.digits) % Modulus ELSE text.digits

ParsePositive(text) ==
  IF text.digits = -1 \/ text.digits >= Modulus \/ text.tail THEN NoValue ELSE Strtoull(text)

VARIABLES cmd, argc, argv, pc, next, value, called, wrote, manifest, code
vars == <<cmd, argc, argv, pc, next, value, called, wrote, manifest, code>>

Numbers == {"size", "chunk", "trials"}
Params == Commands[cmd].params
Wanted(c) == {p \in Numbers : c \in DOMAIN Commands /\ p \in Range(Commands[c].params)}
NoCall == [size |-> -1, chunk |-> -1]
NotRecorded == [names |-> {}, code |-> -1]

Init ==
  /\ cmd \in DOMAIN Commands \cup {"none", "unknown"}
  /\ argc \in {"right", "wrong"}
  /\ argv \in [Wanted(cmd) -> Texts]
  /\ pc = "dispatch" /\ next = 1
  /\ value = [p \in Numbers |-> NoValue]
  /\ called = NoCall /\ wrote = {} /\ manifest = NotRecorded /\ code = -1

Exit(c) == pc' = "exited" /\ code' = c

\* The usage is printed for no command, one that is unknown, and the wrong
\* number of arguments.
Dispatch ==
  /\ pc = "dispatch"
  /\ IF cmd \in {"none", "unknown"} \/ argc = "wrong"
     THEN Exit(1)
     ELSE pc' = "parse" /\ UNCHANGED code
  /\ UNCHANGED <<cmd, argc, argv, next, value, called, wrote, manifest>>

ParseArgument ==
  /\ pc = "parse"
  /\ next =< Len(Params)
  /\ LET p == Params[next]
     IN IF p = "method"
        THEN next' = next + 1 /\ UNCHANGED <<value, pc, code>>
        ELSE IF ParsePositive(argv[p]) = NoValue
        THEN Exit(1) /\ UNCHANGED <<value, next>>
        ELSE /\ value' = [value EXCEPT ![p] = ParsePositive(argv[p])]
             /\ next' = next + 1 /\ UNCHANGED <<pc, code>>
  /\ UNCHANGED <<cmd, argc, argv, called, wrote, manifest>>

TotalBytes == (value.size * MB) % Modulus
ChunkSizeInMegabytes == (value.chunk * MB) % Modulus
ChunkSize == (value.chunk * KB) % Modulus

\* The names of its results, as a command forms them.
Named ==
  CASE Commands[cmd].names = "bytes" -> {<<TotalBytes \div MB, ChunkSize \div KB>>}
    [] Commands[cmd].names = "given" -> {<<value.size, value.chunk>>}
    [] Commands[cmd].names = "fixed" -> {<<0, 0>>}
    [] Commands[cmd].names = "none" -> {}

\* verify is the one that checks the multiplication.
Refused ==
  \/ cmd \in RefusesZero /\ (TotalBytes = 0 \/ ChunkSize = 0)
  \/ cmd = "verify" /\ (value.size > (Modulus - 1) \div MB \/ value.chunk > (Modulus - 1) \div KB)

\* A command that fails may have written some of its results.
Call ==
  /\ pc = "parse"
  /\ next = Len(Params) + 1
  /\ IF Refused
     THEN pc' = "failed" /\ UNCHANGED <<called, wrote>>
     ELSE /\ called' = [size |-> TotalBytes, chunk |-> ChunkSize]
          /\ \/ pc' = "succeeded" /\ wrote' = Named
             \/ pc' = "failed" /\ wrote' \in {{}, Named}
  /\ UNCHANGED <<cmd, argc, argv, next, value, manifest, code>>

\* What main records as the names of the results.
Recorded ==
  CASE Commands[cmd].names = "none" -> {}
    [] Commands[cmd].names = "fixed" -> {<<0, 0>>}
    [] Commands[cmd].names \in {"bytes", "given"} -> {<<value.size, value.chunk>>}

\* A manifest that cannot be written is a warning.
Record ==
  /\ pc \in {"succeeded", "failed"}
  /\ LET c == IF pc = "succeeded" THEN 0 ELSE 2
     IN manifest' \in {NotRecorded, [names |-> Recorded, code |-> c]} /\ Exit(c)
  /\ UNCHANGED <<cmd, argc, argv, next, value, called, wrote>>

Next == Dispatch \/ ParseArgument \/ Call \/ Record

Spec == Init /\ [][Next]_vars

-----------------------------------------------------------------------------
(* What has to hold.                                                       *)

\* Types of all variables.
TypeOK ==
  /\ cmd \in DOMAIN Commands \cup {"none", "unknown"}
  /\ argc \in {"right", "wrong"} /\ argv \in [Wanted(cmd) -> Texts]
  /\ pc \in {"dispatch", "parse", "succeeded", "failed", "exited"}
  /\ next \in Nat /\ value \in [Numbers -> 0..(Modulus - 1)]
  /\ called \in [size : 0..(Modulus - 1), chunk : 0..(Modulus - 1)] \cup {NoCall}
  /\ code \in -1..2

Fits == value.size * MB < Modulus /\ value.chunk * KB < Modulus

\* Well-typed; and as long as the sizes fit in 64 bits, a command moves what
\* it was asked to, and the manifest names the files that it wrote; and the
\* exit code is the recorded one, and 1 for whatever was not even called
\* (main.c:177-205, 213-236, and every command of main).
OutputsAreNamed ==
  /\ TypeOK
  /\ Fits => /\ called # NoCall => /\ called.size = value.size * MB
                                   /\ called.chunk = value.chunk * KB
             /\ manifest # NotRecorded => wrote \subseteq manifest.names
  /\ manifest # NotRecorded => manifest.code = code
  /\ code = 1 => called = NoCall /\ wrote = {}

-----------------------------------------------------------------------------
(* What the source says of itself and does not do.                         *)

\* "Size must be a positive integer." (main.c:328)
AcceptsOnlyPositive ==
  \A p \in Numbers : value[p] # NoValue => ~ argv[p].minus /\ argv[p].digits > 0

\* "Records command, Git revision/state, environment, and outputs"
\* (README.md:126): also of a size that does not fit.
RecordsItsOutputs == manifest # NotRecorded => wrote \subseteq manifest.names
=============================================================================
