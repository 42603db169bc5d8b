------------------------------ MODULE Syscalls ------------------------------
(***************************************************************************)
(* The system-call profiler, for one payload and chunk size: profile runs  *)
(* a transport under strace, waits for it, parses the summary it left in a *)
(* file and saves it; compare-syscalls does so for two methods and writes  *)
(* what it read side by side.                                              *)
(*                                                                         *)
(* The file that strace writes is named after the method alone, and strace *)
(* is a process of its own: a command that is killed leaves it, and what   *)
(* it traces, running.                                                     *)
(***************************************************************************)
EXTENDS Integers, Sequences, FiniteSets, SequencesExt

CONSTANTS Methods,      \* the transports that are profiled
          Names,        \* the system calls they make
          MaxCommands,  \* bound on the number of commands that are started
          Faults        \* what may go wrong, a subset of FaultKinds

FaultKinds == {"spawn", "trace", "open", "kill"}

\* What whoever takes an instance of this module has to assume.
SyscallsAssumption ==
  /\ IsFiniteSet(Names)
  /\ MaxCommands \in Nat
  /\ Faults \subseteq FaultKinds

VARIABLES
  cmd,        \* the commands, in the order they were started
  strace,     \* the strace that each has started last
  raw,        \* by method: the file that strace writes
  csv,        \* by method: the parsed profile
  comparison  \* by pair of methods

vars == <<cmd, strace, raw, csv, comparison>>

Command == 1..MaxCommands
Pairs == Methods \X Methods

\* rows: the names of the system calls it lists, those of the run it is of;
\* mixed: its end is that of the longer output of another run.
NoOutput == [state |-> "absent", by |-> 0, rows |-> {}, mixed |-> FALSE]
EmptyOutput == [NoOutput EXCEPT !.state = "empty"]
Output(n, rows) == [state |-> "full", by |-> n, rows |-> rows, mixed |-> FALSE]

NoProfile == [by |-> 0, rows |-> {}, of |-> {}, mixed |-> FALSE]
NoFile == [state |-> "absent", profiles |-> <<>>]
OpenedFile == [NoFile EXCEPT !.state = "empty"]
File(profiles) == [state |-> "full", profiles |-> profiles]

\* todo: the methods that are still to be profiled; touched: another strace
\* had the file of the current method in its hands meanwhile.
NotStarted == [pc |-> "none", kind |-> "none", asked |-> <<>>, todo |-> <<>>, got |-> <<>>,
               touched |-> FALSE]
NoStrace == [state |-> "none", method |-> "none", ok |-> FALSE]

Init ==
  /\ cmd = [n \in Command |-> NotStarted]
  /\ strace = [n \in Command |-> NoStrace]
  /\ raw = [m \in Methods |-> NoOutput]
  /\ csv = [m \in Methods |-> NoFile]
  /\ comparison = [p \in Pairs |-> NoFile]

At(n, place) == cmd[n].pc = place
Fault(f) == f \in Faults
Goto(n, place) == cmd' = [cmd EXCEPT ![n].pc = place]
Current(n) == Head(cmd[n].todo)

Start(n) ==
  /\ At(n, "none")
  /\ \A m \in Command : m < n => ~ At(m, "none")
  /\ \E asked \in {<<m>> : m \in Methods} \cup Pairs :
       cmd' = [cmd EXCEPT ![n] = [NotStarted EXCEPT !.pc = "spawn", !.asked = asked, !.todo = asked,
                                     !.kind = IF Len(asked) = 1 THEN "profile" ELSE "compare"]]
  /\ UNCHANGED <<strace, raw, csv, comparison>>

-----------------------------------------------------------------------------
(* execute_strace and the process it starts.                               *)

Spawn(n) ==
  /\ At(n, "spawn")
  /\ \/ /\ strace' = [strace EXCEPT ![n] = [state |-> "starting", method |-> Current(n), ok |-> FALSE]]
        /\ cmd' = [cmd EXCEPT ![n].pc = "waitpid", ![n].touched = FALSE]
     \/ Fault("spawn") /\ Goto(n, "failed") /\ UNCHANGED strace
  /\ UNCHANGED <<raw, csv, comparison>>

RawPathShared(m) == CHOOSE other \in Methods : TRUE
RawPath(m) == m

Touch(n) ==
  [k \in Command |->
     IF k # n /\ cmd[k].pc \in {"waitpid", "parse"} /\ RawPath(Current(k)) = RawPath(strace[n].method)
     THEN [cmd[k] EXCEPT !.touched = cmd[k].touched \/ Current(k) = strace[n].method] ELSE cmd[k]]

\* strace -o truncates the file when it starts.
OpenRaw(n) ==
  /\ strace[n].state = "starting"
  /\ strace' = [strace EXCEPT ![n].state = "running"]
  /\ raw' = [raw EXCEPT ![RawPath(strace[n].method)] = EmptyOutput]
  /\ cmd' = Touch(n)
  /\ UNCHANGED <<csv, comparison>>

\* and writes its summary when what it traces has ended; it exits with the
\* status of that.
WriteRaw(n) ==
  /\ strace[n].state = "running"
  /\ \E ok \in BOOLEAN, rows \in SUBSET Names, longer \in BOOLEAN :
       LET path == RawPath(strace[n].method)
       IN /\ ~ ok => Fault("trace")
          /\ longer => raw[path].state = "full"
          /\ strace' = [strace EXCEPT ![n].state = "exited", ![n].ok = ok]
          /\ raw' = [raw EXCEPT ![path] = [Output(n, rows) EXCEPT !.mixed = longer]]
  /\ cmd' = Touch(n)
  /\ UNCHANGED <<csv, comparison>>

WaitStrace(n) ==
  /\ At(n, "waitpid")
  /\ strace[n].state = "exited"
  /\ Goto(n, IF strace[n].ok THEN "parse" ELSE "failed")
  /\ UNCHANGED <<strace, raw, csv, comparison>>

-----------------------------------------------------------------------------
(* Parsing and saving.                                                     *)

\* Every line with the word in it is taken for the heading.
NameHasWord(name) == name = "restart_syscall"
Parsed(rows) == {name \in rows : ~ NameHasWord(name)}

Parse(n) ==
  /\ At(n, "parse")
  /\ LET file == raw[RawPath(Current(n))]
         profile == [by |-> file.by, rows |-> Parsed(file.rows), of |-> file.rows,
                     mixed |-> file.mixed]
     IN IF file.state = "full" /\ profile.rows # {}
        THEN cmd' = [cmd EXCEPT ![n].pc = "save", ![n].got = Append(@, profile)]
        ELSE Goto(n, "failed")
  /\ UNCHANGED <<strace, raw, csv, comparison>>

OpenCsv(n) ==
  /\ At(n, "save")
  /\ \/ csv' = [csv EXCEPT ![Current(n)] = OpenedFile] /\ Goto(n, "close")
     \/ Fault("open") /\ Goto(n, "failed") /\ UNCHANGED csv
  /\ UNCHANGED <<strace, raw, comparison>>

CloseCsv(n) ==
  /\ At(n, "close")
  /\ csv' = [csv EXCEPT ![Current(n)] = File(<<Last(cmd[n].got)>>)]
  /\ cmd' = [cmd EXCEPT ![n].todo = Tail(@),
                        ![n].pc = IF Len(cmd[n].todo) > 1 THEN "spawn"
                                  ELSE IF cmd[n].kind = "compare" THEN "compare" ELSE "done"]
  /\ UNCHANGED <<strace, raw, comparison>>

\* A comparison that cannot be written is done all the same.
OpenComparison(n) ==
  /\ At(n, "compare")
  /\ \/ /\ comparison' = [comparison EXCEPT ![cmd[n].asked] = OpenedFile]
        /\ Goto(n, "closeComparison")
     \/ Fault("open") /\ Goto(n, "done") /\ UNCHANGED comparison
  /\ UNCHANGED <<strace, raw, csv>>

CloseComparison(n) ==
  /\ At(n, "closeComparison")
  /\ comparison' = [comparison EXCEPT ![cmd[n].asked] = File(cmd[n].got)]
  /\ Goto(n, "done")
  /\ UNCHANGED <<strace, raw, csv>>

Ended == {"done", "failed", "killed"}

\* The timeout of the dashboard ends the command and not its strace.
Kill(n) ==
  /\ Fault("kill")
  /\ cmd[n].pc \notin Ended \cup {"none"}
  /\ Goto(n, "killed")
  /\ UNCHANGED <<strace, raw, csv, comparison>>

Next == \E n \in Command :
  \/ Start(n) \/ Spawn(n) \/ OpenRaw(n) \/ WriteRaw(n) \/ WaitStrace(n) \/ Parse(n)
  \/ OpenCsv(n) \/ CloseCsv(n) \/ OpenComparison(n) \/ CloseComparison(n) \/ Kill(n)

Spec == Init /\ [][Next]_vars

-----------------------------------------------------------------------------
(* What has to hold.                                                       *)

IsProfile(p) == /\ p.by \in Command /\ p.rows \subseteq Names /\ p.of \subseteq Names
                /\ p.mixed \in BOOLEAN

\* Types of all variables.
TypeOK ==
  /\ \A n \in Command :
       /\ cmd[n].pc \in {"none", "spawn", "waitpid", "parse", "save", "close", "compare",
                         "closeComparison"} \cup Ended
       /\ \A i \in DOMAIN cmd[n].got : IsProfile(cmd[n].got[i])
       /\ strace[n].state \in {"none", "starting", "running", "exited"}
  /\ \A m \in Methods : raw[m].state \in {"absent", "empty", "full"}
  /\ \A m \in Methods : \A i \in DOMAIN csv[m].profiles : IsProfile(csv[m].profiles[i])
  /\ \A p \in Pairs : \A i \in DOMAIN comparison[p].profiles : IsProfile(comparison[p].profiles[i])

\* Well-typed; and a command that was done before another strace of the same
\* method, of a second command or left over by one that was killed, got hold
\* of the file has parsed the whole output of the strace it started itself,
\* and that of a run that ended well; and a comparison has both its columns
\* (syscall_profiler.c:101-178, 653-690, 759-785).
ProfileIsOwn ==
  /\ TypeOK
  /\ \A n \in Command : At(n, "save") /\ ~ cmd[n].touched =>
       /\ Last(cmd[n].got).by = n /\ ~ Last(cmd[n].got).mixed
       /\ strace[n].state = "exited" /\ strace[n].ok /\ strace[n].method = Current(n)
  /\ \A p \in Pairs : comparison[p].state = "full" => Len(comparison[p].profiles) = Len(p)

-----------------------------------------------------------------------------
(* What the source says of itself and does not do.                         *)

\* "Parse complete strace output" (syscall_profiler.c:325): no system call
\* is left out of the profile, and of its total.
ParsesCompleteOutput ==
  \A n \in Command : \A i \in DOMAIN cmd[n].got : cmd[n].got[i].rows = cmd[n].got[i].of
=============================================================================
