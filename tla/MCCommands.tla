----------------------------- MODULE MCCommands -----------------------------
EXTENDS Commands

\* In a range of 64 with 8 bytes to the megabyte, 9 wraps to 1, 8 to 0, and 64
\* is out of range.
MCDigits == {0, 1, 8, 9, 64}

\* The selector: one stream is enough to be better than, worse than or as
\* good as the ring; two commands, two measurements.
MCStreams == <<"PIPE">>
MCSelectorFaults == {"measure", "open", "transfer", "kill"}

\* The profiler: two methods, to be compared and to be mixed up, two commands,
\* and one system call, which an output lists or not.
MCProfilerFaults == {"spawn", "trace", "open", "kill"}

\* The environment: a number between two texts, where the code has five
\* between its thirteen; all texts of up to three of the characters that
\* matter.
MCColumns == <<"text", "number", "text">>
MCFieldTexts == UNION {[1..n -> {"x", ",", "\"", " "}] : n \in 0..3}

\* Two sweeps, say for different payloads; they are numbered so that the
\* rows of the files can be told from the zeros of calloc.
MCSweeps == {1, 2}
MCSweepFaults == {"alloc", "trial", "open", "output", "kill"}
=============================================================================
