--------------------------- MODULE DocumentProofs ---------------------------
(***************************************************************************)
(* Proof that the algorithms of StreamRules do what they are for           *)
(* (StreamsReadRight), for every stream, however it is cut, and every      *)
(* limit; and, before it, what the proofs about the other documents share. *)
(*                                                                         *)
(* A loop is followed step by step, so what it has computed is related to  *)
(* what it has read by an invariant: one for each subject.                 *)
(***************************************************************************)
EXTENDS Documents, WellFoundedInduction, TLAPS

-----------------------------------------------------------------------------
(* Places of a sequence *)

\* The order of the natural numbers is well-founded.
LEMMA NatOrder == IsWellFoundedOn({p \in Nat \X Nat : p[1] < p[2]}, Nat)
  BY ZenonT(40), NatLessThanWellFounded DEF OpToRel

\* A set of natural numbers has a least one.
LEMMA LeastExists ==
  ASSUME NEW S \in SUBSET Nat, S # {}
  PROVE  \E x \in S : \A y \in S : x <= y
<1> DEFINE R == {p \in Nat \X Nat : p[1] < p[2]}
<1>1. \A x, y \in Nat : x < y => <<x, y>> \in R
  OBVIOUS
<1>2. IsWellFoundedOn(R, Nat)
  BY ZenonT(40), NatOrder
<1> HIDE DEF R
<1>3. PICK x \in S : \A y \in S : ~(<<y, x>> \in R)
  BY ZenonT(40), <1>2, WFMin
<1>4. ASSUME NEW y \in S PROVE x <= y
  <2>1. x \in Nat /\ y \in Nat
    OBVIOUS
  <2>2. ~(y < x)
    BY ZenonT(40), <1>1, <1>3, <2>1
  <2> QED
    BY SMTT(40), <2>1, <2>2
<1> QED
  BY ZenonT(40), <1>4

\* The first of some places is before the others.
LEMMA FirstPlace ==
  ASSUME NEW places \in SUBSET Nat, places # {}
  PROVE  First(places) \in places /\ \A j \in places : First(places) <= j
  BY ZenonT(40), LeastExists DEF First

\* The last of some places is behind the others.
LEMMA LastPlace ==
  ASSUME NEW n \in Nat, NEW places \in SUBSET (1..n), places # {}
  PROVE  Last(places) \in places /\ \A j \in places : j <= Last(places)
<1> DEFINE behind == {n - i : i \in places}
<1>1. behind \in SUBSET Nat /\ behind # {}
  BY SMTT(40)
<1>2. PICK x \in behind : \A y \in behind : x <= y
  BY ZenonT(40), <1>1, LeastExists
<1>3. PICK i \in places : x = n - i
  OBVIOUS
<1>4. ASSUME NEW j \in places PROVE j <= i
  <2>1. n - i <= n - j
    BY ZenonT(40), <1>2, <1>3
  <2> QED
    BY SMTT(40), <2>1
<1> QED
  BY ZenonT(40), <1>4 DEF Last

-----------------------------------------------------------------------------
(* Each group of algorithms has its own subjects, which no step changes *)

StreamSubjects  == {"output", "show", "log", "upload"}
PlanSubjects    == {"plan", "changes", "outputs", "manifest", "bundle"}
GateSubjects    == {"report", "json", "notices", "provenance", "environment"}
StartupSubjects == {"standard", "gateway", "process", "job"}

\* A step of a stream is one of a stream's subject.
LEMMA StreamSubject ==
  ASSUME StreamNext PROVE subject \in StreamSubjects /\ UNCHANGED subject
  BY ZenonT(40) DEF StreamNext, PrintLine, PrintPlan, WriteChunk, PutLog, Take, StreamSubjects

\* A step over a run's documents is one of their subjects.
LEMMA PlanSubject ==
  ASSUME PlanNext PROVE subject \in PlanSubjects /\ UNCHANGED subject
  BY ZenonT(40) DEF PlanNext, PlanField, PlanChange, OutputCall, verifyArtifactManifest, unarchiveBundleToFolder,
         Take, Compute, PlanSubjects

\* A step of a gate is one of a gate's subject.
LEMMA GateSubject ==
  ASSUME GateNext PROVE subject \in GateSubjects /\ UNCHANGED subject
  BY ZenonT(40) DEF GateNext, ReadMessage, ReadToken, AddNotice, ReadField, AddVariable, BeginCommand, command,
         Take, Compute, GateSubjects

\* A step of the settings is one of theirs.
LEMMA StartupSubject ==
  ASSUME StartupNext PROVE subject \in StartupSubjects /\ UNCHANGED subject
  BY ZenonT(40) DEF StartupNext, CommandVariable, injectJobGatewayConfiguration, InjectVariable,
         Take, Compute, StartupSubjects

-----------------------------------------------------------------------------
(* The output of a command *)

\* A line that the scan passes over.
Plain(line) == line \notin {"summary", "long"}

\* The scan is before the first summary and the first overlong line, has
\* stopped at the summary, or has failed at the line.
OutputInv(out, scan) ==
  /\ out \in Seq(Lines)
  /\ scan \in [read : Nat, changes : Nat, failed : BOOLEAN]
  /\ ~scan.failed /\ scan.changes = 0 =>
       scan.read = Len(out) /\ \A i \in 1..Len(out) : Plain(out[i])
  /\ scan.changes # 0 =>
       /\ ~scan.failed /\ scan.changes <= Len(out) /\ out[scan.changes] = "summary"
       /\ \A i \in 1..(scan.changes - 1) : Plain(out[i])
  /\ scan.failed =>
       /\ scan.changes = 0
       /\ \E k \in 1..Len(out) : out[k] = "long" /\ \A i \in 1..(k - 1) : Plain(out[i])

\* A line that is printed leaves the scan so.
LEMMA PrintLineStep ==
  ASSUME NEW out, NEW scan, OutputInv(out, scan), NEW line \in Lines
  PROVE  OutputInv(Append(out, line), ScanLine(scan, line))
<1> DEFINE next == Append(out, line)
           new == ScanLine(scan, line)
<1> USE DEF OutputInv
<1>1. /\ next \in Seq(Lines) /\ Len(next) = Len(out) + 1 /\ next[Len(out) + 1] = line
      /\ \A i \in 1..Len(out) : next[i] = out[i]
  OBVIOUS
<1>2. CASE scan.failed \/ scan.changes # 0
  <2>1. new = scan
    BY ZenonT(40), <1>2 DEF ScanLine
  <2>2. OutputInv(next, new)
    <3> HIDE DEF next, new
    <3> QED
      BY SMTT(40), <1>1, <1>2, <2>1
  <2> QED
    BY ZenonT(40), <2>2
<1>3. CASE ~scan.failed /\ scan.changes = 0 /\ line = "long"
  <2>1. new = [read |-> scan.read, changes |-> 0, failed |-> TRUE]
    BY ZenonT(40), <1>3 DEF ScanLine
  <2>2. OutputInv(next, new)
    <3> HIDE DEF next, new
    <3> QED
      BY SMTT(40), <1>1, <1>3, <2>1
  <2> QED
    BY ZenonT(40), <2>2
<1>4. CASE ~scan.failed /\ scan.changes = 0 /\ line = "summary"
  <2>1. new = [read |-> scan.read + 1, changes |-> scan.read + 1, failed |-> FALSE]
    BY ZenonT(40), <1>4 DEF ScanLine
  <2>2. OutputInv(next, new)
    <3> HIDE DEF next, new
    <3> QED
      BY SMTT(40), <1>1, <1>4, <2>1
  <2> QED
    BY ZenonT(40), <2>2
<1>5. CASE ~scan.failed /\ scan.changes = 0 /\ line \notin {"long", "summary"}
  <2>1. new = [read |-> scan.read + 1, changes |-> 0, failed |-> FALSE]
    BY ZenonT(40), <1>5 DEF ScanLine
  <2>2. OutputInv(next, new)
    <3> HIDE DEF next, new
    <3> QED
      BY SMTT(40), <1>1, <1>5, <2>1 DEF Plain
  <2> QED
    BY ZenonT(40), <2>2
<1> QED
  BY ZenonT(40), <1>2, <1>3, <1>4, <1>5

\* What the scan has found is the first summary, if no line stops it.
LEMMA ScanIsRight ==
  ASSUME NEW out, NEW scan, OutputInv(out, scan)
  PROVE  ScanRight(out, scan)
<1> DEFINE first == {i \in DOMAIN out : out[i] = "summary" /\ \A j \in 1..(i - 1) : out[j] \notin {"summary", "long"}}
<1> USE DEF OutputInv, Plain
<1>0. DOMAIN out = 1..Len(out) /\ Len(out) \in Nat
  OBVIOUS
<1>1. CASE scan.failed
  <2>1. PICK k \in 1..Len(out) : out[k] = "long" /\ \A i \in 1..(k - 1) : Plain(out[i])
    BY ZenonT(40), <1>1
  <2>2. first = {}
    BY SMTT(40), <1>0, <2>1
  <2> QED
    BY ZenonT(40), <1>1, <2>2 DEF ScanRight, scanOutputs
<1>2. CASE ~scan.failed /\ scan.changes = 0
  <2>1. first = {}
    BY ZenonT(40), <1>0, <1>2
  <2> QED
    BY ZenonT(40), <1>2, <2>1 DEF ScanRight, scanOutputs
<1>3. CASE ~scan.failed /\ scan.changes # 0
  <2>1. scan.changes \in first
    BY SMTT(40), <1>0, <1>3
  <2>2. \A i \in first : i = scan.changes
    BY SMTT(40), <1>0, <1>3
  <2>3. first = {scan.changes}
    BY ZenonT(40), <2>1, <2>2
  <2> QED
    BY ZenonT(40), <1>3, <2>3 DEF ScanRight, scanOutputs
<1> QED
  BY ZenonT(40), <1>1, <1>2, <1>3

\* Only the last line, if it has no end, is lost to parseError.
LEMMA DiagnosisIsRight ==
  ASSUME NEW out \in Seq(Lines)
  PROVE  DiagnosisRight(out)
<1> SUFFICES ASSUME NEW ended \in BOOLEAN
             PROVE  LET whole == IF ended THEN DOMAIN out ELSE DOMAIN out \ {Len(out)}
                        found == parseError(out, ended)
                    IN  \/ found = 0 /\ \A i \in whole : out[i] # "error"
                        \/ /\ found \in whole /\ out[found] = "error"
                           /\ \A i \in whole : i > found => out[i] # "error"
  BY ZenonT(40) DEF DiagnosisRight
<1> DEFINE view == View(out, ended)
           whole == IF ended THEN DOMAIN out ELSE DOMAIN out \ {Len(out)}
           at == {i \in DOMAIN view : view[i] = "error"}
<1>1. /\ view \in Seq(Lines) /\ whole \subseteq DOMAIN view
      /\ \A i \in whole : view[i] = out[i]
      /\ \A i \in DOMAIN view : i \in whole \/ view[i] = "other"
  <2>1. CASE ended
    BY SMTT(40), <2>1 DEF View, Lines
  <2>2. CASE ~ended /\ out = <<>>
    BY SMTT(40), <2>2 DEF View, Lines
  <2>3. CASE ~ended /\ out # <<>>
    BY SMTT(40), <2>3 DEF View, Lines
  <2> QED
    BY ZenonT(40), <2>1, <2>2, <2>3
<1>2. parseError(out, ended) = Last(at)
  BY ZenonT(40) DEF parseError
<1>3. Len(view) \in Nat /\ at \in SUBSET (1..Len(view)) /\ whole \subseteq Int
  BY SMTT(40), <1>1
<1>4. at = {i \in whole : out[i] = "error"}
  <2> HIDE DEF view, whole
  <2> QED
    BY ZenonT(40), <1>1
<1> HIDE DEF view, whole, at
<1>5. CASE at = {}
  BY ZenonT(40), <1>2, <1>4, <1>5 DEF Last, whole
<1>6. CASE at # {}
  <2>1. Last(at) \in at /\ \A j \in at : j <= Last(at)
    BY ZenonT(40), <1>3, <1>6, LastPlace
  <2>2. \A i \in whole : i > Last(at) => out[i] # "error"
    BY SMTT(40), <1>3, <1>4, <2>1
  <2>3. Last(at) \in whole /\ out[Last(at)] = "error"
    BY ZenonT(40), <1>4, <2>1
  <2> QED
    BY ZenonT(40), <1>2, <2>2, <2>3 DEF whole
<1> QED
  BY ZenonT(40), <1>5, <1>6

\* The text behind the cut is one object exactly when the last text is one.
LEMMA ShownIsRight ==
  ASSUME NEW out \in Seq(ShowLines)
  PROVE  ShownRight(out)
<1> DEFINE texts == {i \in DOMAIN out : out[i] # "blank"}
           last == Last(texts)
           cuts == {i \in 2..Len(out) : out[i] \in {"object", "brace"} /\ ~(i = 2 /\ out[1] = "blank")}
           cut == Last(cuts)
           used == {i \in DOMAIN out : cut <= i /\ out[i] # "blank"}
<1>1. /\ DOMAIN out = 1..Len(out) /\ Len(out) \in Nat
      /\ texts \in SUBSET (1..Len(out)) /\ cuts \in SUBSET (1..Len(out)) /\ cuts \subseteq texts
  OBVIOUS
<1>2. texts # {} => last \in texts /\ \A j \in texts : j <= last
  <2> HIDE DEF texts
  <2> QED
    BY ZenonT(40), <1>1, LastPlace
<1>3. cuts # {} => cut \in cuts /\ \A j \in cuts : j <= cut
  <2> HIDE DEF cuts
  <2> QED
    BY ZenonT(40), <1>1, LastPlace
<1>4. (texts = {} => last = 0) /\ (cuts = {} => cut = 0)
  BY ZenonT(40) DEF Last
<1>5. parseShowPlanOutput(out) =
        IF \E i \in used : used = {i} /\ out[i] = "object" THEN CHOOSE i \in used : TRUE ELSE 0
  BY ZenonT(40) DEF parseShowPlanOutput
<1>6. ShownRight(out) <=> parseShowPlanOutput(out) = IF last # 0 /\ out[last] = "object" THEN last ELSE 0
  BY ZenonT(40) DEF ShownRight
<1> HIDE DEF last, cut
<1>7. CASE texts = {}
  <2>1. used = {}
    BY ZenonT(40), <1>7
  <2> QED
    BY ZenonT(40), <1>4, <1>5, <1>6, <1>7, <2>1
<1>8. CASE texts # {}
  <2>1. last \in 1..Len(out) /\ last \in texts /\ cut <= last
    BY SMTT(40), <1>1, <1>2, <1>3, <1>4, <1>8
  <2>2. last \in used
    BY ZenonT(40), <1>1, <2>1
  <2>3. CASE out[last] # "object"
    <3>1. ~\E i \in used : used = {i} /\ out[i] = "object"
      BY ZenonT(40), <2>2, <2>3
    <3> QED
      BY ZenonT(40), <1>5, <1>6, <2>3, <3>1
  <2>4. CASE out[last] = "object"
    <3>1. \A i \in used : i = last
      BY SMTT(40), <1>1, <1>2, <1>3, <1>4, <2>1, <2>4
    <3>2. used = {last}
      BY ZenonT(40), <2>2, <3>1
    <3>3. parseShowPlanOutput(out) = last
      <4> HIDE DEF used
      <4> QED
        BY ZenonT(40), <1>5, <2>4, <3>2
    <3> QED
      BY ZenonT(40), <1>6, <2>1, <2>4, <3>3
  <2> QED
    BY ZenonT(40), <2>3, <2>4
<1> QED
  BY ZenonT(40), <1>7, <1>8

-----------------------------------------------------------------------------
(* The buffers *)

\* The limits are natural numbers, and what is written are bytes.
LEMMA Limits ==
  /\ LogLimit \in Nat /\ MaxPlanBytes \in Nat /\ MaxLogBytes \in Nat /\ MaxLogBytes > 0
  /\ \A size \in BodySizes : size \in Nat
  /\ \A p \in Chunks : p \in Seq(Bytes)
  BY SMTT(40), StreamAssumption

\* The smaller of two numbers.
Smaller(m, n) == IF m < n THEN m ELSE n

\* The buffer has the beginning of what was written.
LogInv(log, written) ==
  /\ written \in Seq(Bytes)
  /\ log \in [n : Nat, content : Seq(Bytes)]
  /\ log.n = Smaller(Len(written), LogLimit)
  /\ log.content = SubSeq(written, 1, log.n)

\* The bytes that are cut at the limit.
LEMMA CutAtLimit ==
  ASSUME NEW s \in Seq(Bytes), NEW p \in Seq(Bytes), NEW n \in Nat, Len(s) < n
  PROVE  LET cut == IF Len(p) > n - Len(s) THEN SubSeq(p, 1, n - Len(s)) ELSE p
         IN  /\ cut \in Seq(Bytes)
             /\ Len(s) + Len(cut) = Smaller(Len(s \o p), n)
             /\ s \o cut = SubSeq(s \o p, 1, Len(s) + Len(cut))
<1> DEFINE cut == IF Len(p) > n - Len(s) THEN SubSeq(p, 1, n - Len(s)) ELSE p
           whole == s \o p
           m == Len(s) + Len(cut)
<1>1. /\ cut \in Seq(Bytes) /\ Len(cut) <= Len(p) /\ \A i \in 1..Len(cut) : cut[i] = p[i]
      /\ Len(cut) = IF Len(p) > n - Len(s) THEN n - Len(s) ELSE Len(p)
  OBVIOUS
<1>2. whole \in Seq(Bytes) /\ Len(whole) = Len(s) + Len(p)
  OBVIOUS
<1> HIDE DEF cut
<1>3. m = Smaller(Len(whole), n)
  BY SMTT(40), <1>1, <1>2 DEF Smaller
<1>4. s \o cut = SubSeq(whole, 1, m)
  BY SMTT(40), <1>1, <1>2
<1> QED
  BY ZenonT(40), <1>1, <1>3, <1>4 DEF cut

\* A sequence after another.
LEMMA Concatenated ==
  ASSUME NEW T, NEW s \in Seq(T), NEW t \in Seq(T)
  PROVE  s \o t \in Seq(T)
  BY SMTT(40)

\* What was kept of the beginning is still the beginning.
LEMMA StillBeginning ==
  ASSUME NEW s \in Seq(Bytes), NEW p \in Seq(Bytes), NEW n \in Nat, n <= Len(s)
  PROVE  SubSeq(s \o p, 1, n) = SubSeq(s, 1, n)
  OBVIOUS

\* LimitedLogsBuffer.Write keeps the invariant of the log.
LEMMA WriteStep ==
  ASSUME NEW log, NEW written, LogInv(log, written), NEW p \in Seq(Bytes)
  PROVE  LogInv(Write(log, p), written \o p)
<1> DEFINE new == Write(log, p)
           whole == written \o p
           cut == IF Len(p) > LogLimit - log.n THEN SubSeq(p, 1, LogLimit - log.n) ELSE p
<1>0. LogLimit \in Nat
  BY ZenonT(40), Limits
<1>1. written \in Seq(Bytes) /\ Len(written) \in Nat
  BY SMTT(40) DEF LogInv
<1>2. /\ log \in [n : Nat, content : Seq(Bytes)]
      /\ log.n \in Nat /\ log.content \in Seq(Bytes)
      /\ log.n = Smaller(Len(written), LogLimit)
      /\ log.content = SubSeq(written, 1, log.n)
  BY ZenonT(40) DEF LogInv
<1>3. whole \in Seq(Bytes) /\ Len(whole) = Len(written) + Len(p) /\ Len(p) \in Nat
  BY SMTT(40), <1>1
<1>4. CASE log.n >= LogLimit
  <2>1. new = log
    BY ZenonT(40), <1>4 DEF Write
  <2>2. log.n = LogLimit /\ Len(written) >= LogLimit
    BY SMTT(40), <1>0, <1>1, <1>2, <1>4 DEF Smaller
  <2>3. SubSeq(whole, 1, LogLimit) = SubSeq(written, 1, LogLimit)
    BY ZenonT(40), <1>0, <1>1, <2>2, StillBeginning
  <2>4. log.n = Smaller(Len(whole), LogLimit)
    BY SMTT(40), <1>0, <1>1, <1>3, <2>2 DEF Smaller
  <2>5. log.content = SubSeq(whole, 1, log.n)
    BY ZenonT(40), <1>2, <2>2, <2>3
  <2> HIDE DEF whole, new
  <2>6. LogInv(new, whole)
    BY ZenonT(40), <1>2, <1>3, <2>1, <2>4, <2>5 DEF LogInv
  <2> QED
    BY ZenonT(40), <2>6 DEF whole, new
<1>5. CASE log.n < LogLimit
  <2>1. new = [n |-> log.n + Len(cut), content |-> log.content \o cut]
    <3>1. ~(log.n >= LogLimit)
      BY SMTT(40), <1>0, <1>2, <1>5
    <3> QED
      BY ZenonT(40), <3>1 DEF Write
  <2>2. log.n = Len(written) /\ Len(written) < LogLimit
    BY SMTT(40), <1>0, <1>1, <1>2, <1>5 DEF Smaller
  <2>3. log.content = written
    BY SMTT(40), <1>1, <1>2, <2>2
  <2>4. /\ cut \in Seq(Bytes) /\ Len(cut) \in Nat
        /\ Len(written) + Len(cut) = Smaller(Len(whole), LogLimit)
        /\ written \o cut = SubSeq(whole, 1, Len(written) + Len(cut))
    BY SMTT(40), <1>0, <1>1, <2>2, CutAtLimit
  <2> HIDE DEF whole, new, cut
  <2>5. written \o cut \in Seq(Bytes) /\ Len(written) + Len(cut) \in Nat
    <3>1. written \o cut \in Seq(Bytes)
      BY ZenonT(40), <1>1, <2>4, Concatenated
    <3> QED
      BY SMTT(40), <1>1, <2>4, <3>1
  <2>6. LogInv(new, whole)
    <3>1. new.n = Len(written) + Len(cut) /\ new.content = written \o cut
      BY ZenonT(40), <2>1, <2>2, <2>3
    <3>2. new \in [n : Nat, content : Seq(Bytes)]
      BY ZenonT(40), <2>1, <2>2, <2>3, <2>5
    <3> QED
      BY ZenonT(40), <1>3, <2>4, <3>1, <3>2 DEF LogInv
  <2> QED
    BY ZenonT(40), <2>6 DEF whole, new
<1>6. log.n >= LogLimit \/ log.n < LogLimit
  BY SMTT(40), <1>0, <1>2
<1> QED
  BY ZenonT(40), <1>4, <1>5, <1>6

\* The observed plan is what was written until something did not fit.
PlanBufferInv(out, written) ==
  /\ written \in Seq(Bytes)
  /\ out \in [remaining : Nat, content : Seq(Bytes), exceeded : BOOLEAN]
  /\ ~out.exceeded => out.content = written /\ out.remaining = MaxPlanBytes - Len(written)
  /\ out.exceeded => Len(written) > MaxPlanBytes

\* boundedObservationBuffer.Write keeps the invariant of the plan.
LEMMA ObservationWriteStep ==
  ASSUME NEW out, NEW written, PlanBufferInv(out, written), NEW p \in Seq(Bytes)
  PROVE  PlanBufferInv(ObservationWrite(out, p), written \o p)
<1> DEFINE new == ObservationWrite(out, p)
           whole == written \o p
           S == Seq(Bytes)
           k == Len(p)
           w == Len(written)
<1>0. MaxPlanBytes \in Nat
  BY ZenonT(40), Limits
<1>1. /\ written \in S /\ w \in Nat
      /\ out \in [remaining : Nat, content : S, exceeded : BOOLEAN] /\ out.remaining \in Nat
      /\ out.content \in S
      /\ ~out.exceeded => out.content = written /\ out.remaining = MaxPlanBytes - w
      /\ out.exceeded => w > MaxPlanBytes
  BY SMTT(40) DEF PlanBufferInv
<1>2. whole \in S /\ Len(whole) = w + k /\ k \in Nat /\ out.content \o p \in S
  BY SMTT(40), <1>1
<1>3. ~out.exceeded => out.content \o p = whole
  BY ZenonT(40), <1>1
<1>4. new = IF k > out.remaining THEN [out EXCEPT !.exceeded = TRUE]
            ELSE [out EXCEPT !.remaining = @ - k, !.content = @ \o p]
  BY ZenonT(40) DEF ObservationWrite
<1>5. PICK c : c = out.content \o p
  OBVIOUS
<1> HIDE DEF new, whole, S, k, w
<1>6. CASE k > out.remaining
  <2>1. new = [remaining |-> out.remaining, content |-> out.content, exceeded |-> TRUE]
    BY ZenonT(40), <1>1, <1>4, <1>6
  <2>2. new \in [remaining : Nat, content : S, exceeded : BOOLEAN] /\ new.exceeded = TRUE
    BY ZenonT(40), <1>1, <2>1
  <2>3. Len(whole) > MaxPlanBytes
    BY SMTT(40), <1>0, <1>1, <1>2, <1>6
  <2>4. PlanBufferInv(new, whole)
    BY ZenonT(40), <1>2, <2>2, <2>3 DEF PlanBufferInv, S
  <2> QED
    BY ZenonT(40), <2>4 DEF new, whole
<1>7. CASE k <= out.remaining
  <2>1. new = [remaining |-> out.remaining - k, content |-> c, exceeded |-> out.exceeded]
    <3>1. ~(k > out.remaining)
      BY SMTT(40), <1>1, <1>2, <1>7
    <3>2. new = [[out EXCEPT !.remaining = out.remaining - k] EXCEPT !.content = c]
      BY ZenonT(40), <1>4, <1>5, <3>1
    <3> QED
      BY ZenonT(40), <1>1, <3>2
  <2>2. /\ new \in [remaining : Nat, content : S, exceeded : BOOLEAN]
        /\ new.remaining = out.remaining - k /\ new.content = c /\ new.exceeded = out.exceeded
    BY SMTT(40), <1>1, <1>2, <1>5, <1>7, <2>1
  <2>3. ~out.exceeded => out.remaining - k = MaxPlanBytes - Len(whole)
    BY SMTT(40), <1>0, <1>1, <1>2
  <2>4. out.exceeded => Len(whole) > MaxPlanBytes
    BY SMTT(40), <1>0, <1>1, <1>2
  <2>5. PlanBufferInv(new, whole)
    BY ZenonT(40), <1>2, <1>3, <1>5, <2>2, <2>3, <2>4 DEF PlanBufferInv, S
  <2> QED
    BY ZenonT(40), <2>5 DEF new, whole
<1> QED
  BY SMTT(40), <1>1, <1>2, <1>6, <1>7

-----------------------------------------------------------------------------
(* The body of an upload *)

\* What was stored and what may be stored add up to one byte over the limit,
\* and no byte is lost unless the limit is exceeded.
UploadInv(reader) ==
  /\ reader \in [size : Nat, left : Nat, remaining : Nat, stored : Nat, exceeded : BOOLEAN, ended : BOOLEAN]
  /\ reader.stored + reader.remaining = MaxLogBytes + 1
  /\ reader.exceeded => reader.remaining = 0 /\ reader.size >= reader.stored + reader.left
  /\ ~reader.exceeded => reader.size = reader.stored + reader.left
  /\ reader.ended => reader.exceeded \/ reader.left = 0

\* boundedReader.Read keeps the invariant of an upload.
LEMMA ReadStep ==
  ASSUME NEW reader, UploadInv(reader), NEW n \in 0..reader.left, NEW eof \in BOOLEAN,
         n <= reader.remaining, eof => n = reader.left
  PROVE  UploadInv(Read(reader, n, eof))
<1> DEFINE probed == reader.remaining = n /\ reader.left > n
           new == Read(reader, n, eof)
           Readers == [size : Nat, left : Nat, remaining : Nat, stored : Nat, exceeded : BOOLEAN, ended : BOOLEAN]
<1>0. MaxLogBytes \in Nat
  BY ZenonT(40), Limits
<1>1. /\ reader \in Readers /\ reader.size \in Nat /\ reader.left \in Nat /\ reader.remaining \in Nat
      /\ reader.stored \in Nat /\ reader.exceeded \in BOOLEAN /\ n \in Nat /\ n <= reader.left
      /\ reader.stored + reader.remaining = MaxLogBytes + 1
      /\ reader.exceeded => reader.remaining = 0 /\ reader.size >= reader.stored + reader.left
      /\ ~reader.exceeded => reader.size = reader.stored + reader.left
  BY SMTT(40) DEF UploadInv
<1>2. CASE reader.remaining <= 0
  <2>1. new = [reader EXCEPT !.exceeded = TRUE, !.ended = TRUE]
    BY ZenonT(40), <1>2 DEF Read
  <2> HIDE DEF new
  <2>2. /\ new \in Readers /\ new.size = reader.size /\ new.left = reader.left /\ new.stored = reader.stored
        /\ new.remaining = reader.remaining /\ new.exceeded = TRUE
    BY ZenonT(40), <1>1, <2>1
  <2>3. UploadInv(new)
    <3> HIDE DEF Readers
    <3>1. reader.remaining = 0 /\ reader.size >= reader.stored + reader.left
      BY SMTT(40), <1>1, <1>2
    <3> QED
      BY ZenonT(40), <1>1, <2>2, <3>1 DEF UploadInv, Readers
  <2> QED
    BY ZenonT(40), <2>3 DEF new
<1>3. CASE reader.remaining > 0
  <2> DEFINE left == IF probed THEN reader.left - n - 1 ELSE reader.left - n
             remaining == reader.remaining - n
             stored == reader.stored + n
             exceeded == reader.exceeded \/ probed
  <2>1. left \in Nat /\ remaining \in Nat /\ stored \in Nat /\ exceeded \in BOOLEAN
    BY SMTT(40), <1>1
  <2>2. /\ stored + remaining = MaxLogBytes + 1
        /\ exceeded => remaining = 0 /\ reader.size >= stored + left
        /\ ~exceeded => reader.size = stored + left
        /\ eof => exceeded \/ left = 0
    BY SMTT(40), <1>0, <1>1, <1>3
  <2>3. new = [reader EXCEPT !.remaining = remaining, !.stored = stored, !.left = left,
                             !.exceeded = exceeded, !.ended = eof]
    <3>1. ~(reader.remaining <= 0)
      BY SMTT(40), <1>1, <1>3
    <3> QED
      BY ZenonT(40), <3>1 DEF Read
  <2> HIDE DEF new, left, remaining, stored, exceeded
  <2>4. /\ new \in Readers /\ new.size = reader.size /\ new.left = left /\ new.stored = stored
        /\ new.remaining = remaining /\ new.exceeded = exceeded /\ new.ended = eof
    BY ZenonT(40), <1>1, <2>1, <2>3
  <2>5. UploadInv(new)
    BY ZenonT(40), <2>2, <2>4 DEF UploadInv
  <2> QED
    BY ZenonT(40), <2>5 DEF new
<1> QED
  BY SMTT(40), <1>1, <1>2, <1>3

\* An upload that has ended was refused exactly if it is over the limit.
LEMMA LimitIsExact ==
  ASSUME NEW reader, UploadInv(reader)
  PROVE  LimitExact(reader)
  BY SMTT(40), Limits DEF UploadInv, LimitExact, TooLarge

-----------------------------------------------------------------------------
(* All streams *)

\* What a stream has left behind, by its subject.
StreamInv ==
  /\ subject = "output" => OutputInv(document, state)
  /\ subject = "show" => document \in Seq(ShowLines)
  /\ subject = "log" => LogInv(state.log, state.written) /\ PlanBufferInv(state.plan, state.written)
  /\ subject = "upload" => UploadInv(state)

\* The invariant says that the stream is read right.
LEMMA StreamInvRight ==
  ASSUME StreamInv PROVE StreamsReadRight
<1>1. ASSUME subject = "output" PROVE ScanRight(document, state) /\ DiagnosisRight(document)
  <2>1. OutputInv(document, state) /\ document \in Seq(Lines)
    BY ZenonT(40), <1>1 DEF StreamInv, OutputInv
  <2> QED
    BY ZenonT(40), <2>1, ScanIsRight, DiagnosisIsRight
<1>2. ASSUME subject = "show" PROVE ShownRight(document)
  BY ZenonT(40), <1>2, ShownIsRight DEF StreamInv
<1>3. ASSUME subject = "log"
      PROVE  LogIsPrefix(state.log, state.written) /\ PlanWhole(state.plan, state.written)
  <2>1. LogInv(state.log, state.written) /\ PlanBufferInv(state.plan, state.written)
    BY ZenonT(40), <1>3 DEF StreamInv
  <2>2. LogIsPrefix(state.log, state.written)
    BY ZenonT(40), <2>1 DEF LogInv, LogIsPrefix, Smaller
  <2>3. PlanWhole(state.plan, state.written)
    <3>1. CASE state.plan.exceeded
      <4>1. ~(Len(state.written) <= MaxPlanBytes)
        BY SMTT(40), <2>1, <3>1, Limits DEF PlanBufferInv
      <4> QED
        BY ZenonT(40), <3>1, <4>1 DEF PlanWhole, observationCommand
    <3>2. CASE ~state.plan.exceeded
      <4>1. Len(state.written) <= MaxPlanBytes
        BY SMTT(40), <2>1, <3>2, Limits DEF PlanBufferInv
      <4>2. state.plan.content = state.written
        BY ZenonT(40), <2>1, <3>2 DEF PlanBufferInv
      <4> QED
        BY ZenonT(40), <3>2, <4>1, <4>2 DEF PlanWhole, observationCommand
    <3> QED
      BY ZenonT(40), <3>1, <3>2
  <2> QED
    BY ZenonT(40), <2>2, <2>3
<1>4. ASSUME subject = "upload" PROVE LimitExact(state)
  BY ZenonT(40), <1>4, LimitIsExact DEF StreamInv
<1> QED
  BY ZenonT(40), <1>1, <1>2, <1>3, <1>4 DEF StreamsReadRight

\* It holds before anything is read.
LEMMA StreamInvInit ==
  ASSUME Init PROVE StreamInv
<1>1. ASSUME subject = "output" PROVE OutputInv(document, state)
  <2>1. document = <<>> /\ state = [read |-> 0, changes |-> 0, failed |-> FALSE]
    BY ZenonT(40), <1>1 DEF Init, StreamInit, PlanInit, GateInit, StartupInit
  <2> QED
    BY SMTT(40), <2>1 DEF OutputInv
<1>2. ASSUME subject = "show" PROVE document \in Seq(ShowLines)
  <2>1. document = <<>>
    BY ZenonT(40), <1>2 DEF Init, StreamInit, PlanInit, GateInit, StartupInit
  <2> QED
    BY SMTT(40), <2>1
<1>3. ASSUME subject = "log"
      PROVE  LogInv(state.log, state.written) /\ PlanBufferInv(state.plan, state.written)
  <2>1. /\ document = <<>>
        /\ state = [log  |-> [n |-> 0, content |-> <<>>],
                    plan |-> [remaining |-> MaxPlanBytes, content |-> <<>>, exceeded |-> FALSE],
                    written |-> <<>>]
    BY ZenonT(40), <1>3 DEF Init, StreamInit, PlanInit, GateInit, StartupInit
  <2>2. /\ state.log = [n |-> 0, content |-> <<>>] /\ state.written = <<>>
        /\ state.plan = [remaining |-> MaxPlanBytes, content |-> <<>>, exceeded |-> FALSE]
    BY ZenonT(40), <2>1
  <2>3. LogInv(state.log, state.written)
    <3> DEFINE log == state.log
               written == state.written
    <3>1. /\ log.n = 0 /\ log.content = <<>> /\ written = <<>>
          /\ log \in [n : Nat, content : Seq(Bytes)]
      BY SMTT(40), <2>2
    <3>2. written \in Seq(Bytes) /\ Len(written) = 0 /\ Len(<<>>) = 0
      BY SMTT(40), <3>1
    <3>3. SubSeq(written, 1, 0) = <<>>
      BY SMTT(40), <3>1
    <3>4. Smaller(0, LogLimit) = 0
      BY SMTT(40), Limits DEF Smaller
    <3> HIDE DEF log, written
    <3>5. LogInv(log, written)
      BY ZenonT(40), <3>1, <3>2, <3>3, <3>4 DEF LogInv
    <3> QED
      BY ZenonT(40), <3>5 DEF log, written
  <2>4. PlanBufferInv(state.plan, state.written)
    BY SMTT(40), <2>2, Limits DEF PlanBufferInv
  <2> QED
    BY ZenonT(40), <2>3, <2>4
<1>4. ASSUME subject = "upload" PROVE UploadInv(state)
  <2>1. PICK size \in BodySizes :
          state = [size |-> size, left |-> size, remaining |-> MaxLogBytes + 1, stored |-> 0,
                   exceeded |-> FALSE, ended |-> FALSE]
    BY ZenonT(40), <1>4 DEF Init, StreamInit, PlanInit, GateInit, StartupInit
  <2>2. size \in Nat /\ MaxLogBytes \in Nat
    BY ZenonT(40), Limits
  <2> QED
    BY SMTT(40), <2>1, <2>2 DEF UploadInv
<1> QED
  BY ZenonT(40), <1>1, <1>2, <1>3, <1>4 DEF StreamInv

\* Every step of every algorithm keeps the invariant of the streams.
LEMMA StreamInvNext ==
  ASSUME StreamInv, [Next]_vars PROVE StreamInv'
<1>1. CASE PrintLine
  <2>1. PICK line \in Lines : document' = Append(document, line) /\ state' = ScanLine(state, line)
    BY ZenonT(40), <1>1 DEF PrintLine, Take
  <2>2. OutputInv(document, state) /\ subject' = "output"
    BY ZenonT(40), <1>1 DEF PrintLine, Take, StreamInv
  <2>3. OutputInv(document', state')
    BY ZenonT(40), <2>1, <2>2, PrintLineStep
  <2> QED
    BY ZenonT(40), <2>2, <2>3 DEF StreamInv
<1>2. CASE PrintPlan
  <2>1. PICK line \in ShowLines : document' = Append(document, line)
    BY ZenonT(40), <1>2 DEF PrintPlan, Take
  <2>2. document \in Seq(ShowLines) /\ subject' = "show"
    BY ZenonT(40), <1>2 DEF PrintPlan, Take, StreamInv
  <2>3. document' \in Seq(ShowLines)
    BY SMTT(40), <2>1, <2>2
  <2> QED
    BY ZenonT(40), <2>2, <2>3 DEF StreamInv
<1>3. CASE WriteChunk
  <2>1. PICK p \in Chunks : /\ document' = Append(document, p)
                            /\ state' = [log |-> Write(state.log, p), plan |-> ObservationWrite(state.plan, p),
                                         written |-> state.written \o p]
    BY ZenonT(40), <1>3 DEF WriteChunk, Take
  <2>2. /\ LogInv(state.log, state.written) /\ PlanBufferInv(state.plan, state.written)
        /\ subject' = "log"
    BY ZenonT(40), <1>3 DEF WriteChunk, Take, StreamInv
  <2>3. p \in Seq(Bytes)
    BY ZenonT(40), Limits
  <2>4. /\ state'.log = Write(state.log, p) /\ state'.plan = ObservationWrite(state.plan, p)
        /\ state'.written = state.written \o p
    BY ZenonT(40), <2>1
  <2>5. LogInv(state'.log, state'.written) /\ PlanBufferInv(state'.plan, state'.written)
    BY ZenonT(40), <2>1, <2>2, <2>3, <2>4, WriteStep, ObservationWriteStep
  <2> QED
    BY ZenonT(40), <2>2, <2>5 DEF StreamInv
<1>4. CASE PutLog
  <2>1. PICK n \in 0..state.left, eof \in BOOLEAN :
          n <= state.remaining /\ (eof => n = state.left) /\ state' = Read(state, n, eof)
    BY ZenonT(40), <1>4 DEF PutLog, Take
  <2>2. UploadInv(state) /\ subject' = "upload"
    BY ZenonT(40), <1>4 DEF PutLog, Take, StreamInv
  <2>3. UploadInv(state')
    BY ZenonT(40), <2>1, <2>2, ReadStep
  <2> QED
    BY ZenonT(40), <2>2, <2>3 DEF StreamInv
<1>5. CASE PlanNext \/ GateNext \/ StartupNext
  <2>1. subject' \in PlanSubjects \union GateSubjects \union StartupSubjects
    BY ZenonT(40), <1>5, PlanSubject, GateSubject, StartupSubject
  <2>2. subject' \notin StreamSubjects
    BY ZenonT(40), <2>1 DEF PlanSubjects, GateSubjects, StartupSubjects, StreamSubjects
  <2> QED
    BY ZenonT(40), <2>2 DEF StreamInv, StreamSubjects
<1>6. CASE UNCHANGED vars
  BY ZenonT(40), <1>6 DEF StreamInv, vars
<1> QED
  BY ZenonT(40), <1>1, <1>2, <1>3, <1>4, <1>5, <1>6 DEF Next, StreamNext

\* However the output of a command, a log, a plan or an upload is cut into
\* lines, writes and reads, and whatever the limits, the scans, buffers and
\* readers of the runner take from it what they are for.
THEOREM StreamsAreReadRight == Spec => []StreamsReadRight
<1>1. Init => StreamInv
  BY ZenonT(40), StreamInvInit
<1>2. StreamInv /\ [Next]_vars => StreamInv'
  BY ZenonT(40), StreamInvNext
<1>3. StreamInv => StreamsReadRight
  BY ZenonT(40), StreamInvRight
<1> QED
  BY <1>1, <1>2, <1>3, PTL DEF Spec
=============================================================================
