---------------------------- MODULE StreamRules ----------------------------
(***************************************************************************)
(* Algorithms that read or write a stream piece by piece: the scans of the *)
(* tool's output (scanOutputs, parseError and parseShowPlanOutput of       *)
(* runner/base_runner.go), the bounded buffers of a Job's log and of an    *)
(* observed plan, and the bounded body of a log upload.                    *)
(***************************************************************************)
EXTENDS Reading

CONSTANTS
  Bytes,         \* the values of a byte
  Chunks,        \* what one Write may be given, sequences of bytes
  LogLimit,      \* limit of the LimitedLogsBuffer, in bytes
  MaxPlanBytes,  \* maxObservationPlanBytes
  MaxLogBytes,   \* maxLogBytes of the gateway
  BodySizes      \* sizes of an uploaded log

ASSUME StreamAssumption ==
  /\ Chunks \subseteq Seq(Bytes)
  /\ {LogLimit, MaxPlanBytes} \union BodySizes \subseteq Nat
  /\ MaxLogBytes \in Nat \ {0}

-----------------------------------------------------------------------------
(* Output of the tool *)

\* A line is a change_summary, an error diagnostic with or without text, a
\* line longer than the scanner's buffer, or anything else.
Lines == {"summary", "error", "empty", "long", "other"}

\* Mutant: the last summary is taken instead of the first.
ScanLineLast(scan, line) ==
  IF scan.failed THEN scan
  ELSE CASE line = "long"     -> [scan EXCEPT !.failed = TRUE]
         [] line = "summary"  -> [scan EXCEPT !.read = @ + 1, !.changes = scan.read + 1]
         [] OTHER             -> [scan EXCEPT !.read = @ + 1]

\* One line of the loop of scanOutputs: it stops at the first summary, and
\* where the scanner fails.
ScanLine(scan, line) ==
  IF scan.failed \/ scan.changes # 0 THEN scan
  ELSE CASE line = "long"     -> [scan EXCEPT !.failed = TRUE]
         [] line = "summary"  -> [scan EXCEPT !.read = @ + 1, !.changes = scan.read + 1]
         [] OTHER             -> [scan EXCEPT !.read = @ + 1]

\* The number of the line that gives the changes, 0 for an error.
scanOutputs(scan) == IF scan.failed THEN 0 ELSE scan.changes

\* The error of runCmd is the output followed by ": exit status 1", which
\* spoils a last line that has no end.
View(out, ended) ==
  IF ended THEN Append(out, "other")
  ELSE IF out = <<>> THEN <<"other">> ELSE [out EXCEPT ![Len(out)] = "other"]

\* parseError looks at the lines from the last to the first, and takes the
\* first error that it meets.
parseError(out, ended) ==
  LET view == View(out, ended) IN Last({i \in DOMAIN view : view[i] = "error"})

\* The output of show: lines that are a JSON object, that only begin like one,
\* with other text, or with none.
ShowLines == {"object", "brace", "text", "blank"}

\* The last "\n{" that is not the first byte: the text after it has to be one
\* object.  The number of its line, 0 for an error.
parseShowPlanOutput(out) ==
  LET cut   == Last({i \in 2..Len(out) : out[i] \in {"object", "brace"} /\ ~(i = 2 /\ out[1] = "blank")})
      used  == {i \in DOMAIN out : cut <= i /\ out[i] # "blank"}
  IN  IF \E i \in used : used = {i} /\ out[i] = "object" THEN CHOOSE i \in used : TRUE ELSE 0

PrintLine == subject = "output" /\ \E line \in Lines : Take(line, ScanLine(state, line))

PrintPlan == subject = "show" /\ \E line \in ShowLines : Take(line, state)

-----------------------------------------------------------------------------
(* The bounded buffers *)

\* LimitedLogsBuffer.Write.  The number it returns is left out.
Write(buffer, p) ==
  LET remaining == LogLimit - buffer.n
      cut == IF Len(p) > remaining THEN SubSeq(p, 1, remaining) ELSE p
  IN  IF buffer.n >= LogLimit
      THEN buffer
      ELSE [n |-> buffer.n + Len(cut), content |-> buffer.content \o cut]

\* boundedObservationBuffer.Write: what does not fit is not kept.
ObservationWrite(buffer, p) ==
  IF Len(p) > buffer.remaining THEN [buffer EXCEPT !.exceeded = TRUE]
  ELSE [buffer EXCEPT !.remaining = @ - Len(p), !.content = @ \o p]

\* observationCommand: << >> for an error, which a Write that did not fit is.
observationCommand(out) == IF out.exceeded THEN <<>> ELSE <<out.content>>

\* Both buffers are given what is written, of which "written" keeps all.
WriteChunk ==
  /\ subject = "log"
  /\ \E p \in Chunks : Take(p, [log |-> Write(state.log, p), plan |-> ObservationWrite(state.plan, p),
                                written |-> state.written \o p])

-----------------------------------------------------------------------------
(* The body of a log upload *)

\* boundedReader.Read when the body's Read returns n of the bytes that are left,
\* and with them or alone the end.  A byte that the probe finds is gone.
Read(reader, n, eof) ==
  IF reader.remaining <= 0 THEN [reader EXCEPT !.exceeded = TRUE, !.ended = TRUE]
  ELSE LET probed == reader.remaining = n /\ reader.left > n
       IN  [reader EXCEPT !.remaining = @ - n,
                          !.stored = @ + n,
                          !.left = IF probed THEN @ - n - 1 ELSE @ - n,
                          !.exceeded = @ \/ probed,
                          !.ended = eof]

\* The object store reads until the end; its buffer may have any size.
PutLog ==
  /\ subject = "upload" /\ ~state.ended
  /\ \E n \in 0..state.left, eof \in BOOLEAN :
       /\ n <= state.remaining
       /\ eof => n = state.left
       /\ Take(n, Read(state, n, eof))

\* 413, with the object removed.
TooLarge(reader) == reader.stored > MaxLogBytes \/ reader.exceeded

-----------------------------------------------------------------------------

StreamInit ==
  /\ document = <<>>
  /\ \/ subject = "output" /\ state = [read |-> 0, changes |-> 0, failed |-> FALSE]
     \/ subject = "show" /\ state = <<>>
     \/ /\ subject = "log"
        /\ state = [log  |-> [n |-> 0, content |-> <<>>],
                    plan |-> [remaining |-> MaxPlanBytes, content |-> <<>>, exceeded |-> FALSE],
                    written |-> <<>>]
     \/ /\ subject = "upload"
        /\ \E size \in BodySizes :
             state = [size |-> size, left |-> size, remaining |-> MaxLogBytes + 1, stored |-> 0,
                      exceeded |-> FALSE, ended |-> FALSE]

StreamNext == PrintLine \/ PrintPlan \/ WriteChunk \/ PutLog

-----------------------------------------------------------------------------
(* What the algorithms are for *)

\* A finished command's changes come from the first summary it printed, and
\* only a missing summary or an overlong line before it turns its success
\* into an error.
ScanRight(out, scan) ==
  {i \in DOMAIN out : out[i] = "summary" /\ \A j \in 1..(i - 1) : out[j] \notin {"summary", "long"}}
    = {scanOutputs(scan)} \ {0}

\* A failed command's error is the last diagnostic it printed as a whole line;
\* none is made up.
DiagnosisRight(out) ==
  \A ended \in BOOLEAN :
    LET whole == IF ended THEN DOMAIN out ELSE DOMAIN out \ {Len(out)}
        found == parseError(out, ended)
    IN  \/ found = 0 /\ \A i \in whole : out[i] # "error"
        \/ found \in whole /\ out[found] = "error" /\ \A i \in whole : i > found => out[i] # "error"

\* The plan shown is the last text of the output, and anything after it, or
\* an end in the middle of it, is an error.
ShownRight(out) ==
  LET last == Last({i \in DOMAIN out : out[i] # "blank"})
  IN  parseShowPlanOutput(out) = IF last # 0 /\ out[last] = "object" THEN last ELSE 0

\* The uploaded log is the beginning of what was written, cut at the limit.
LogIsPrefix(log, written) ==
  log.content = SubSeq(written, 1, IF Len(written) < LogLimit THEN Len(written) ELSE LogLimit)

\* An observed plan is read whole or not at all: one over the limit is an
\* error however it is written.
PlanWhole(out, written) ==
  observationCommand(out) = IF Len(written) <= MaxPlanBytes THEN <<written>> ELSE <<>>

\* However the body arrives, a log is refused if and only if it is over the
\* limit, and one that is accepted is stored whole.
LimitExact(reader) ==
  reader.ended => /\ TooLarge(reader) <=> reader.size > MaxLogBytes
                  /\ ~TooLarge(reader) => reader.stored = reader.size

\* What is taken from a stream does not depend on how it is cut: the changes,
\* the error and the shown plan of a command (scanOutputs, parseError,
\* parseShowPlanOutput), the log of a Job (LimitedLogsBuffer), an observed plan
\* (boundedObservationBuffer) and the size of an upload (boundedReader).
StreamsReadRight ==
  /\ subject = "output" => ScanRight(document, state) /\ DiagnosisRight(document)
  /\ subject = "show" => ShownRight(document)
  /\ subject = "log" => LogIsPrefix(state.log, state.written) /\ PlanWhole(state.plan, state.written)
  /\ subject = "upload" => LimitExact(state)
=============================================================================
