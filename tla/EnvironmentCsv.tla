--------------------------- MODULE EnvironmentCsv ---------------------------
(***************************************************************************)
(* The environment profile on its way from the profiler to the final       *)
(* summary: csv_write_field quotes its texts, and split_csv, which was     *)
(* made for numbers, takes the row apart again.                            *)
(*                                                                         *)
(* A text is a sequence of the characters that matter to one of the two:   *)
(* the comma, the quote, the space, and any other, here "x".               *)
(***************************************************************************)
EXTENDS Integers, Sequences, SequencesExt

CONSTANTS Columns,   \* "text" or "number" for each column, in order
          Texts,     \* the texts that may be found for a column
          MaxFields, \* how many fields the reader takes
          Faults     \* what may go wrong, a subset of {"open"}

\* What whoever takes an instance of this module has to assume.
EnvironmentAssumption ==
  /\ Columns \in Seq({"text", "number"}) /\ Texts \subseteq Seq(STRING)
  /\ MaxFields \in Nat /\ Len(Columns) =< MaxFields
  /\ Faults \subseteq {"open"}

VARIABLES pc, answer,
          found,    \* what the profiler found out
          row,      \* the row in the file, or none
          fields    \* what the final summary takes for the columns
vars == <<pc, answer, found, row, fields>>

Comma == ","
Quote == "\""
Space == " "
Number == <<"x">>

\* The reader puts up with a row of more fields than there are columns.
NoRow == <<>>
Missing == <<>>

-----------------------------------------------------------------------------
(* The profiler: a value is trimmed and PRETTY_NAME loses its quotes before *)
(* it gets here.                                                            *)

DoubleQuotes(text) == FlattenSeq([i \in DOMAIN text |->
                                    IF text[i] = Quote THEN <<Quote, Quote>> ELSE <<text[i]>>])
WriteFieldUnquoted(text) == DoubleQuotes(text)
WriteField(text) == <<Quote>> \o DoubleQuotes(text) \o <<Quote>>

Column(i) == IF Columns[i] = "text" THEN WriteField(found[i]) ELSE found[i]
Row == FlattenSeq([i \in DOMAIN Columns |-> IF i = 1 THEN Column(i) ELSE <<Comma>> \o Column(i)])

Init ==
  /\ pc = "profile" /\ answer = "pending"
  /\ found \in {f \in [DOMAIN Columns -> Texts \cup {Number}] :
                  \A i \in DOMAIN Columns : Columns[i] = "number" => f[i] = Number}
  /\ row = NoRow /\ fields = Missing

SaveCsvReport ==
  /\ pc = "profile"
  /\ \/ row' = Row /\ answer' = "ok"
     \/ "open" \in Faults /\ answer' = "failed" /\ UNCHANGED row
  /\ pc' = "summarize"
  /\ UNCHANGED <<found, fields>>

-----------------------------------------------------------------------------
(* The final summary.                                                      *)

Dark(text) == {i \in DOMAIN text : text[i] # Space}
TrimSpaces(text) ==
  IF Dark(text) = {} THEN <<>>
  ELSE LET first == CHOOSE i \in Dark(text) : \A j \in Dark(text) : i =< j
           last == CHOOSE i \in Dark(text) : \A j \in Dark(text) : i >= j
       IN SubSeq(text, first, last)

StripOuterQuotes(text) ==
  IF Len(text) >= 2 /\ text[1] = Quote /\ text[Len(text)] = Quote
  THEN SubSeq(text, 2, Len(text) - 1) ELSE text

\* strchr: the next comma from a place on, or the end of the line.
CommaFrom(line, from) ==
  LET commas == {i \in from..Len(line) : line[i] = Comma}
  IN IF commas = {} THEN Len(line) + 1 ELSE CHOOSE i \in commas : \A j \in commas : i =< j

\* Where the fields begin: each behind the comma of the one before.
Begin(line) ==
  LET current[k \in 1..MaxFields] ==
        IF k = 1 THEN 1 ELSE CommaFrom(line, current[k - 1]) + 1
  IN current

\* From comma to comma, but nothing after a comma at the end.
Pieces(line) ==
  [k \in {i \in 1..MaxFields : Begin(line)[i] =< Len(line)} |->
     SubSeq(line, Begin(line)[k], CommaFrom(line, Begin(line)[k]) - 1)]

SplitCsv(line) == [i \in DOMAIN Pieces(line) |-> StripOuterQuotes(TrimSpaces(Pieces(line)[i]))]

SummarizeEnvironment ==
  /\ pc = "summarize"
  /\ fields' = IF row = NoRow \/ Len(SplitCsv(row)) < Len(Columns) THEN Missing ELSE SplitCsv(row)
  /\ pc' = "done"
  /\ UNCHANGED <<answer, found, row>>

Next == SaveCsvReport \/ SummarizeEnvironment

Spec == Init /\ [][Next]_vars

-----------------------------------------------------------------------------
(* What has to hold.                                                       *)

\* Types of all variables.
TypeOK ==
  /\ pc \in {"profile", "summarize", "done"} /\ answer \in {"pending", "ok", "failed"}
  /\ DOMAIN found = DOMAIN Columns
  /\ Len(fields) =< MaxFields

Has(text, char) == \E i \in DOMAIN text : text[i] = char

\* Well-typed; and up to the first text with a comma every column is read
\* back in its place, and with the text it was written with, blanks at its
\* ends and an empty one included, unless it has quotes of its own, which
\* stay doubled (environment_profiler.c:574-609, final_summary.c:329-392).
RowIsReadBack ==
  /\ TypeOK
  /\ pc = "done" /\ answer = "ok" =>
       \A i \in DOMAIN Columns : (\A j \in 1..i : ~ Has(found[j], Comma)) =>
         /\ fields # Missing
         /\ fields[i] = IF Has(found[i], Quote) THEN DoubleQuotes(found[i]) ELSE found[i]

-----------------------------------------------------------------------------
(* What the source says of itself and does not do.                         *)

\* "Environment fields are quoted but also do not currently contain embedded
\* commas" (final_summary.c:324): the name of a processor or of a system is
\* whatever the machine says, and columns after its comma are others.
ColumnsAreKept ==
  pc = "done" /\ fields # Missing =>
    \A i \in DOMAIN Columns : Columns[i] = "number" => fields[i] = found[i]
=============================================================================
