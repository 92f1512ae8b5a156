-------------------------- MODULE DiodeRelayProofs --------------------------
(***************************************************************************)
(* Proofs about DiodeRelay, for every set of messages, every limit on      *)
(* deliveries and every number of failures and crashes: the exporter loses *)
(* no message and reuses no number, and the importer publishes, records    *)
(* and files in an order that survives a stop after any step.              *)
(***************************************************************************)
EXTENDS DiodeRelay, FiniteSetTheorems, WellFoundedInduction, TLAPS

-----------------------------------------------------------------------------
(* The inductive invariant *)

ExportTypes ==
  /\ source \in [Messages -> {"pending", "acked"}]
  /\ tries \in [Messages -> 0 .. MaxDeliver]
  /\ xpc \in {"down", "fetch", "load", "write", "ledger", "ack"}
  /\ xmsg \in Messages \cup {NoMessage}
  /\ sequence \in Sequences
  /\ seqLedger \in Sequences
  /\ out \subseteq Frames

Tails == {{}} \cup {{m} : m \in Messages \cup {NoMessage}}

ImportTypes ==
  /\ ipc \in {"down", "scan", "next", "store", "publish", "append", "move"}
  /\ batch \subseteq Frames
  /\ processed \subseteq Messages
  /\ ledger \subseteq Messages
  /\ tail \in Tails
  /\ stored \subseteq Messages
  /\ copies \in [Messages -> 0 .. MaxCopies]
  /\ unrecorded \subseteq Messages

DirTypes ==
  /\ input \subseteq Frames
  /\ damaged \subseteq input
  /\ processedDir \subseteq Frames
  /\ quarantined \subseteq Frames

WorldTypes ==
  /\ attach \in [Messages -> AllAttachments]
  /\ expired \subseteq Messages
  /\ faults \in 0 .. MaxFaults

\* The deliveries made so far: each raised the counter by at most one.
Delivered == {p \in Messages \X (1 .. MaxDeliver) : p[2] <= tries[p[1]]}

CounterInv == sequence <= Cardinality(Delivered)

\* The file the exporter writes for the delivery it works on.
Current == [seq |-> sequence, msg |-> xmsg]

ExportInv ==
  /\ xmsg \in Messages <=> xpc \in {"load", "write", "ledger", "ack"}
  /\ seqLedger <= sequence
  /\ xpc \in {"ledger", "ack"} => Current \in out
  /\ xpc = "ack" => sequence <= seqLedger

\* Without a frame, every delivery that is over has met a failure.
GivenUpInv ==
  \A m \in Messages : attach[m] # "unloadable" /\ (\A f \in out : f.msg # m)
    => tries[m] <= faults + (IF xmsg = m THEN 1 ELSE 0)

ImportInv ==
  /\ ipc \in {"store", "publish", "append", "move"} => batch # {}
  /\ ipc = "publish" => attach[Frame.msg] = "none" \/ Frame.msg \in stored
  /\ ipc \in {"append", "move"} => copies[Frame.msg] > 0
  /\ ipc # "down" => ledger \subseteq processed
  /\ ipc # "down" => \A m \in processed : copies[m] > 0

\* A published message is in the ledger, about to be written there, or its line
\* is known to be missing.
RecordInv ==
  \A m \in Messages : copies[m] > 0 /\ m \notin unrecorded
    => m \in ledger \/ (ipc = "append" /\ Frame.msg = m)

ExporterInv == CounterInv /\ ExportInv /\ GivenUpInv /\ AckedMeansExported

ImporterInv ==
  /\ ImportInv
  /\ RecordInv
  /\ StoredBeforePublished
  /\ ProcessedMeansPublished
  /\ RepublishedOnlyIfUnrecorded

RelayInv == TypeOK /\ ExporterInv /\ ImporterInv

\* The four groups make up the type invariant.
LEMMA Types == TypeOK <=> ExportTypes /\ ImportTypes /\ DirTypes /\ WorldTypes
  BY ZenonT(40) DEF TypeOK, ExportTypes, ImportTypes, DirTypes, WorldTypes, Tails

\* The same in the next state.
LEMMA TypesNext == TypeOK' <=> ExportTypes' /\ ImportTypes' /\ DirTypes' /\ WorldTypes'
  BY ZenonT(40) DEF TypeOK, ExportTypes, ImportTypes, DirTypes, WorldTypes, Tails

-----------------------------------------------------------------------------
(* Operators *)

\* A set of natural numbers has a least member.
LEMMA Minimum ==
  ASSUME NEW S, S \subseteq Nat, S # {}
  PROVE  \E x \in S : \A y \in S : x <= y
<1> DEFINE R == {p \in Nat \X Nat : p[1] < p[2]}
<1>1. \A x, y \in Nat : x < y => <<x, y>> \in R
  OBVIOUS
<1>2. IsWellFoundedOn(R, Nat)
  BY ZenonT(40), NatLessThanWellFounded DEF OpToRel
<1> HIDE DEF R
<1>3. PICK x \in S : \A y \in S : ~(<<y, x>> \in R)
  BY ZenonT(40), <1>2, WFMin
<1>4. ASSUME NEW y \in S PROVE x <= y
  <2>1. x \in Nat /\ y \in Nat
    OBVIOUS
  <2>2. ~(y < x)
    BY ZenonT(40), <1>1, <1>3, <2>1
  <2>3. QED
    BY SMTT(40), <2>1, <2>2
<1>5. QED
  BY ZenonT(40), <1>4

\* importAvailable handles an entry of the directory it has read: names differ, so
\* one of them comes before all others.
LEMMA FirstIn ==
  ASSUME NEW files, files \subseteq Frames, files # {}
  PROVE  First(files) \in files
<1>0. /\ \A f \in Frames : f.seq \in Nat /\ f.msg \in Messages
      /\ \A f, h \in Frames : f.seq = h.seq /\ f.msg = h.msg => f = h
  BY SMTT(40) DEF Frames, Sequences
<1>1. PICK s \in {f.seq : f \in files} : \A y \in {f.seq : f \in files} : s <= y
  <2>1. {f.seq : f \in files} \subseteq Nat /\ {f.seq : f \in files} # {}
    BY ZenonT(40), <1>0
  <2>2. QED
    BY ZenonT(40), <2>1, Minimum
<1> DEFINE heads == {f \in files : f.seq = s}
           orders == {HashOrder[f.msg] : f \in heads}
<1>2. orders \subseteq Nat /\ orders # {}
  BY SMTT(40), <1>0, <1>1, RelayAssumption
<1>3. PICK o \in orders : \A y \in orders : o <= y
  <2> HIDE DEF orders
  <2>1. QED
    BY ZenonT(40), <1>2, Minimum
<1>4. PICK f \in heads : HashOrder[f.msg] = o
  BY ZenonT(40), <1>3
<1>5. ASSUME NEW h \in files \ {f} PROVE Before(f, h)
  <2>1. f \in Frames /\ h \in Frames /\ f.seq = s
    BY ZenonT(40), <1>4
  <2>2. f.seq <= h.seq
    BY ZenonT(40), <1>1, <2>1
  <2>3. ASSUME h.seq = f.seq PROVE HashOrder[f.msg] < HashOrder[h.msg]
    <3>1. h \in heads
      BY ZenonT(40), <2>1, <2>3
    <3>2. HashOrder[f.msg] <= HashOrder[h.msg]
      BY ZenonT(40), <1>3, <1>4, <3>1
    <3>3. HashOrder[f.msg] # HashOrder[h.msg]
      BY ZenonT(40), <1>0, <2>1, <2>3, RelayAssumption
    <3>4. HashOrder[f.msg] \in Nat /\ HashOrder[h.msg] \in Nat
      BY ZenonT(40), <1>0, <2>1, RelayAssumption
    <3>5. QED
      BY SMTT(40), <3>2, <3>3, <3>4
  <2>4. f.seq \in Nat /\ h.seq \in Nat
    BY ZenonT(40), <1>0, <2>1
  <2>5. f.seq < h.seq \/ f.seq = h.seq
    BY SMTT(40), <2>2, <2>4
  <2>6. QED
    BY ZenonT(40), <2>3, <2>5 DEF Before
<1>6. f \in files
  BY ZenonT(40), <1>4
<1>7. \E x \in files : \A h \in files \ {x} : Before(x, h)
  BY ZenonT(40), <1>5, <1>6
<1>8. QED
  BY ZenonT(40), <1>7 DEF First

\* The entry the importer works on.
LEMMA FrameType ==
  ASSUME ImportTypes, batch # {}
  PROVE  Frame \in batch /\ Frame \in Frames /\ Frame.msg \in Messages
<1>1. Frame \in batch
  BY ZenonT(40), FirstIn DEF Frame, ImportTypes
<1>2. QED
  BY ZenonT(40), <1>1 DEF ImportTypes, Frames

\* It stays the same while the batch does.
LEMMA FrameSame == ASSUME batch' = batch PROVE Frame' = Frame
  BY ZenonT(40) DEF Frame

\* The deliveries are finitely many, and bounded by what the consumer allows.
LEMMA DeliveredBound ==
  ASSUME ExportTypes
  PROVE  /\ IsFiniteSet(Delivered)
         /\ Cardinality(Delivered) \in Nat
         /\ Cardinality(Delivered) <= MaxDeliver * Cardinality(Messages)
<1> DEFINE All == Messages \X (1 .. MaxDeliver)
<1>1. IsFiniteSet(Messages) /\ MaxDeliver \in Nat /\ MaxDeliver > 0
  BY SMTT(40), RelayAssumption
<1>2. IsFiniteSet(1 .. MaxDeliver) /\ Cardinality(1 .. MaxDeliver) = MaxDeliver
  BY SMTT(40), <1>1, FS_Interval
<1>3. IsFiniteSet(All) /\ Cardinality(All) = Cardinality(Messages) * Cardinality(1 .. MaxDeliver)
  BY ZenonT(40), <1>1, <1>2, FS_Product
<1>4. Delivered \in SUBSET All
  BY ZenonT(40) DEF Delivered
<1>5. IsFiniteSet(Delivered) /\ Cardinality(Delivered) <= Cardinality(All)
  BY ZenonT(40), <1>3, <1>4, FS_Subset
<1>6. Cardinality(Delivered) \in Nat /\ Cardinality(Messages) \in Nat
  BY ZenonT(40), <1>1, <1>5, FS_CardinalityType
<1>7. Cardinality(All) = MaxDeliver * Cardinality(Messages)
  BY SMTT(40), <1>1, <1>2, <1>3, <1>6
<1>8. QED
  BY ZenonT(40), <1>5, <1>6, <1>7

\* A failure is one more, and within the bound.
LEMMA FaultType ==
  ASSUME faults \in 0 .. MaxFaults, Fault
  PROVE  faults' \in 0 .. MaxFaults /\ faults' = faults + 1
  BY SMTT(40), RelayAssumption DEF Fault

-----------------------------------------------------------------------------
(* The exporter *)

\* What leaves the exporter's state alone keeps its invariant: failures only grow.
LEMMA ExportStill ==
  ASSUME ExportTypes, ExporterInv, UNCHANGED <<sourceVars, exporterVars, attach>>,
         faults \in Nat, faults' \in Nat, faults <= faults'
  PROVE  ExportTypes' /\ ExporterInv'
<1>0. UNCHANGED <<source, tries, xpc, xmsg, sequence, seqLedger, out, attach>>
  BY ZenonT(40) DEF sourceVars, exporterVars
<1>1. ExportTypes'
  BY ZenonT(40), <1>0 DEF ExportTypes, Sequences, Frames
<1>2. CounterInv'
  <2>1. Delivered' = Delivered
    BY ZenonT(40), <1>0 DEF Delivered
  <2>2. QED
    BY ZenonT(40), <1>0, <2>1 DEF ExporterInv, CounterInv
<1>3. ExportInv'
  BY ZenonT(40), <1>0 DEF ExporterInv, ExportInv, Current
<1>4. GivenUpInv'
  <2>1. \A m \in Messages : tries[m] \in Nat
    BY SMTT(40), RelayAssumption DEF ExportTypes
  <2>2. QED
    BY SMTT(40), <1>0, <2>1 DEF ExporterInv, GivenUpInv
<1>5. AckedMeansExported'
  BY ZenonT(40), <1>0 DEF ExporterInv, AckedMeansExported
<1>6. QED
  BY ZenonT(40), <1>1, <1>2, <1>3, <1>4, <1>5 DEF ExporterInv

\* readSequence: the counter goes on from the ledger, which is not ahead of it.
LEMMA ExporterStartInv ==
  ASSUME ExportTypes, ExporterInv, ExporterStart
  PROVE  ExportTypes' /\ ExporterInv'
<1>0. /\ xpc = "down" /\ xpc' = "fetch" /\ sequence' = seqLedger
      /\ UNCHANGED <<source, tries, xmsg, seqLedger, out, attach, faults>>
  BY ZenonT(40) DEF ExporterStart, sourceVars
<1>1. ExportTypes'
  BY ZenonT(40), <1>0 DEF ExportTypes, Sequences, Frames
<1>2. CounterInv'
  <2>1. Delivered' = Delivered
    BY ZenonT(40), <1>0 DEF Delivered
  <2>2. Cardinality(Delivered) \in Nat
    BY ZenonT(40), DeliveredBound
  <2>3. sequence <= Cardinality(Delivered) /\ seqLedger <= sequence
    BY ZenonT(40) DEF ExporterInv, CounterInv, ExportInv
  <2>4. sequence \in Int /\ seqLedger \in Int
    BY SMTT(40), RelayAssumption DEF ExportTypes, Sequences
  <2>5. seqLedger <= Cardinality(Delivered)
    BY SMTT(40), <2>2, <2>3, <2>4
  <2>6. QED
    BY ZenonT(40), <1>0, <2>1, <2>5 DEF CounterInv
<1>3. ExportInv'
  <2>1. seqLedger \in Int
    BY SMTT(40), RelayAssumption DEF ExportTypes, Sequences
  <2>2. xmsg \notin Messages
    BY ZenonT(40), <1>0 DEF ExporterInv, ExportInv
  <2>3. QED
    BY SMTT(40), <1>0, <2>1, <2>2 DEF ExportInv
<1>4. GivenUpInv'
  BY ZenonT(40), <1>0 DEF ExporterInv, GivenUpInv
<1>5. AckedMeansExported'
  BY ZenonT(40), <1>0 DEF ExporterInv, AckedMeansExported
<1>6. QED
  BY ZenonT(40), <1>1, <1>2, <1>3, <1>4, <1>5 DEF ExporterInv

\* A delivery takes a number: there is one more pair in Delivered.
LEMMA ExporterFetchInv ==
  ASSUME ExportTypes, WorldTypes, ExporterInv, NEW m \in Messages, ExporterFetch(m)
  PROVE  ExportTypes' /\ ExporterInv'
<1>0. /\ xpc = "fetch" /\ source[m] = "pending" /\ tries[m] < MaxDeliver
      /\ tries' = [tries EXCEPT ![m] = tries[m] + 1]
      /\ xmsg' = m /\ sequence' = sequence + 1 /\ xpc' = "load"
      /\ UNCHANGED <<source, seqLedger, out, attach, faults>>
  BY ZenonT(40) DEF ExporterFetch
<1>1. /\ tries \in [Messages -> 0 .. MaxDeliver] /\ MaxDeliver \in Nat
      /\ tries[m] \in Nat /\ tries[m] + 1 \in 1 .. MaxDeliver
  BY SMTT(40), <1>0, RelayAssumption DEF ExportTypes
<1>2. tries' \in [Messages -> 0 .. MaxDeliver]
  BY SMTT(40), <1>0, <1>1
<1>3. /\ tries'[m] = tries[m] + 1
      /\ \A n \in Messages : n # m => tries'[n] = tries[n]
  BY ZenonT(40), <1>0, <1>1
<1>4. Delivered' = Delivered \cup {<<m, tries[m] + 1>>}
  <2>1. ASSUME NEW p \in Messages \X (1 .. MaxDeliver)
        PROVE  p[2] <= tries'[p[1]] <=> p[2] <= tries[p[1]] \/ p = <<m, tries[m] + 1>>
    <3>1. PICK n \in Messages, k \in 1 .. MaxDeliver : p = <<n, k>>
      OBVIOUS
    <3>2. CASE n = m
      BY SMTT(40), <1>1, <1>3, <3>1, <3>2
    <3>3. CASE n # m
      BY ZenonT(40), <1>1, <1>3, <3>1, <3>3
    <3>4. QED
      BY ZenonT(40), <3>2, <3>3
  <2>2. <<m, tries[m] + 1>> \in Messages \X (1 .. MaxDeliver)
    BY ZenonT(40), <1>1
  <2>3. QED
    BY ZenonT(40), <2>1, <2>2 DEF Delivered
<1>5. <<m, tries[m] + 1>> \notin Delivered
  BY SMTT(40), <1>1 DEF Delivered
<1>6. IsFiniteSet(Delivered) /\ Cardinality(Delivered) \in Nat
  BY ZenonT(40), DeliveredBound
<1>7. IsFiniteSet(Delivered') /\ Cardinality(Delivered') = Cardinality(Delivered) + 1
  BY ZenonT(40), <1>4, <1>5, <1>6, FS_AddElement
<1>8. Cardinality(Delivered') <= MaxDeliver * Cardinality(Messages)
  <2>1. Delivered' \in SUBSET (Messages \X (1 .. MaxDeliver))
    BY ZenonT(40) DEF Delivered
  <2>2. IsFiniteSet(Messages)
    BY ZenonT(40), RelayAssumption
  <2>3. IsFiniteSet(1 .. MaxDeliver) /\ Cardinality(1 .. MaxDeliver) = MaxDeliver
    BY SMTT(40), <1>1, FS_Interval
  <2>4. /\ IsFiniteSet(Messages \X (1 .. MaxDeliver))
        /\ Cardinality(Messages \X (1 .. MaxDeliver))
             = Cardinality(Messages) * Cardinality(1 .. MaxDeliver)
    BY ZenonT(40), <2>2, <2>3, FS_Product
  <2>5. Cardinality(Messages) \in Nat
    BY ZenonT(40), <2>2, FS_CardinalityType
  <2>6. Cardinality(Messages \X (1 .. MaxDeliver)) = MaxDeliver * Cardinality(Messages)
    BY SMTT(40), <1>1, <2>3, <2>4, <2>5
  <2>7. Cardinality(Delivered') <= Cardinality(Messages \X (1 .. MaxDeliver))
    BY ZenonT(40), <2>1, <2>4, FS_Subset
  <2>8. QED
    BY ZenonT(40), <2>6, <2>7
<1>9. CounterInv'
  <2>1. sequence \in Int /\ sequence <= Cardinality(Delivered)
    BY SMTT(40), RelayAssumption DEF ExportTypes, Sequences, ExporterInv, CounterInv
  <2>2. QED
    BY SMTT(40), <1>0, <1>6, <1>7, <2>1 DEF CounterInv
<1>10. ExportTypes'
  <2>1. sequence \in Nat
    BY SMTT(40), RelayAssumption DEF ExportTypes, Sequences
  <2>2. Cardinality(Messages) \in Nat
    BY ZenonT(40), RelayAssumption, FS_CardinalityType
  <2>3. MaxDeliver * Cardinality(Messages) \in Nat
    BY SMTT(40), <1>1, <2>2
  <2>4. sequence + 1 <= Cardinality(Delivered')
    BY ZenonT(40), <1>0, <1>9 DEF CounterInv
  <2>5. sequence + 1 <= MaxDeliver * Cardinality(Messages)
    BY SMTT(40), <1>6, <1>7, <1>8, <2>1, <2>3, <2>4
  <2>6. sequence' \in Sequences
    BY SMTT(40), <1>0, <2>1, <2>3, <2>5 DEF Sequences
  <2>7. /\ source' \in [Messages -> {"pending", "acked"}]
        /\ xpc' \in {"down", "fetch", "load", "write", "ledger", "ack"}
        /\ xmsg' \in Messages \cup {NoMessage}
        /\ seqLedger' \in Sequences
        /\ out' \subseteq Frames
    BY ZenonT(40), <1>0 DEF ExportTypes
  <2>8. QED
    BY ZenonT(40), <1>2, <2>6, <2>7 DEF ExportTypes, Sequences, Frames
<1>11. ExportInv'
  <2>1. seqLedger <= sequence /\ sequence \in Int /\ seqLedger \in Int
    BY SMTT(40), RelayAssumption DEF ExporterInv, ExportInv, ExportTypes, Sequences
  <2>2. QED
    BY SMTT(40), <1>0, <2>1 DEF ExportInv
<1>12. GivenUpInv'
  <2>1. SUFFICES ASSUME NEW n \in Messages, attach[n] # "unloadable",
                        \A f \in out : f.msg # n
                 PROVE  tries'[n] <= faults + (IF m = n THEN 1 ELSE 0)
    BY ZenonT(40), <1>0 DEF GivenUpInv
  <2>2. xmsg # n
    BY ZenonT(40), <1>0 DEF ExporterInv, ExportInv
  <2>3. tries[n] <= faults + 0
    BY ZenonT(40), <2>1, <2>2 DEF ExporterInv, GivenUpInv
  <2>4. faults \in Nat /\ tries[n] \in Nat
    BY SMTT(40), <1>1, RelayAssumption DEF WorldTypes
  <2>5. CASE n = m
    BY SMTT(40), <1>3, <2>3, <2>4, <2>5
  <2>6. CASE n # m
    BY ZenonT(40), <1>3, <2>3, <2>4, <2>6
  <2>7. QED
    BY ZenonT(40), <2>5, <2>6
<1>13. AckedMeansExported'
  BY ZenonT(40), <1>0 DEF ExporterInv, AckedMeansExported
<1>14. QED
  BY ZenonT(40), <1>9, <1>10, <1>11, <1>12, <1>13 DEF ExporterInv

\* Handing a delivery back after a failure, or ending, keeps the exporter's
\* invariant, whether or not the frame or the ledger was written before.
LEMMA HandBackInv ==
  ASSUME ExportTypes, WorldTypes, ExporterInv, xmsg \in Messages,
         xpc' \in {"fetch", "down"}, xmsg' = NoMessage,
         UNCHANGED <<source, tries, sequence, attach>>,
         out' \in {out, out \cup {Current}},
         seqLedger' = seqLedger \/ (seqLedger' = sequence /\ out' = out),
         faults' \in Nat,
         \/ faults' = faults + 1
         \/ faults' = faults /\ (attach[xmsg] = "unloadable" \/ Current \in out)
  PROVE  ExportTypes' /\ ExporterInv'
<1>0. /\ sequence \in Sequences /\ sequence \in Int /\ seqLedger \in Int /\ faults \in Nat
      /\ seqLedger <= sequence /\ NoMessage \notin Messages
      /\ \A m \in Messages : tries[m] \in Nat
  BY SMTT(40), RelayAssumption DEF ExportTypes, WorldTypes, ExporterInv, ExportInv, Sequences
<1>1. ExportTypes'
  <2>1. Current \in Frames
    BY ZenonT(40), <1>0 DEF Current, Frames
  <2>2. out' \subseteq Frames /\ seqLedger' \in Sequences
    BY ZenonT(40), <1>0, <2>1 DEF ExportTypes
  <2>3. QED
    BY ZenonT(40), <2>2 DEF ExportTypes, Sequences, Frames
<1>2. CounterInv'
  <2>1. Delivered' = Delivered
    BY ZenonT(40) DEF Delivered
  <2>2. QED
    BY ZenonT(40), <2>1 DEF ExporterInv, CounterInv
<1>3. ExportInv'
  BY SMTT(40), <1>0 DEF ExportInv
<1>4. GivenUpInv'
  <2>1. SUFFICES ASSUME NEW n \in Messages, attach[n] # "unloadable",
                        \A f \in out' : f.msg # n
                 PROVE  tries[n] <= faults' + 0
    BY ZenonT(40), <1>0 DEF GivenUpInv
  <2>2. \A f \in out : f.msg # n
    BY ZenonT(40), <2>1
  <2>3. tries[n] <= faults + (IF xmsg = n THEN 1 ELSE 0)
    BY ZenonT(40), <2>1, <2>2 DEF ExporterInv, GivenUpInv
  <2>4. CASE faults' = faults + 1
    BY SMTT(40), <1>0, <2>3, <2>4
  <2>5. CASE faults' = faults /\ (attach[xmsg] = "unloadable" \/ Current \in out)
    <3>1. xmsg # n
      BY ZenonT(40), <2>1, <2>2, <2>5 DEF Current
    <3>2. QED
      BY ZenonT(40), <1>0, <2>3, <2>5, <3>1
  <2>6. QED
    BY ZenonT(40), <2>4, <2>5
<1>5. AckedMeansExported'
  <2>1. SUFFICES ASSUME NEW n \in Messages, source[n] = "acked"
                 PROVE  \E f \in out' : f.msg = n /\ f.seq <= seqLedger'
    BY ZenonT(40) DEF AckedMeansExported
  <2>2. PICK f \in out : f.msg = n /\ f.seq <= seqLedger
    BY ZenonT(40), <2>1 DEF ExporterInv, AckedMeansExported
  <2>3. f.seq \in Int
    BY SMTT(40), RelayAssumption DEF ExportTypes, Frames, Sequences
  <2>4. f.seq <= seqLedger'
    BY SMTT(40), <1>0, <2>2, <2>3
  <2>5. QED
    BY ZenonT(40), <2>2, <2>4
<1>6. QED
  BY ZenonT(40), <1>1, <1>2, <1>3, <1>4, <1>5 DEF ExporterInv

\* Going on to the next step of the delivery keeps it, when the frame and then the
\* ledger are written as that step expects.
LEMMA GoOnInv ==
  ASSUME ExportTypes, WorldTypes, ExporterInv, xmsg \in Messages,
         xpc' \in {"write", "ledger", "ack"},
         UNCHANGED <<source, tries, xmsg, sequence, attach, faults>>,
         out' = out \/ out' = out \cup {Current},
         seqLedger' \in {seqLedger, sequence},
         xpc' \in {"ledger", "ack"} => Current \in out',
         xpc' = "ack" => seqLedger' = sequence
  PROVE  ExportTypes' /\ ExporterInv'
<1>0. /\ sequence \in Sequences /\ sequence \in Int /\ seqLedger \in Int /\ faults \in Nat
      /\ seqLedger <= sequence
      /\ \A m \in Messages : tries[m] \in Nat
  BY SMTT(40), RelayAssumption DEF ExportTypes, WorldTypes, ExporterInv, ExportInv, Sequences
<1>1. ExportTypes'
  <2>1. Current \in Frames
    BY ZenonT(40), <1>0 DEF Current, Frames
  <2>2. out' \subseteq Frames /\ seqLedger' \in Sequences
    BY ZenonT(40), <1>0, <2>1 DEF ExportTypes
  <2>3. QED
    BY ZenonT(40), <2>2 DEF ExportTypes, Sequences, Frames
<1>2. CounterInv'
  <2>1. Delivered' = Delivered
    BY ZenonT(40) DEF Delivered
  <2>2. QED
    BY ZenonT(40), <2>1 DEF ExporterInv, CounterInv
<1>3. ExportInv'
  <2>1. Current' = Current
    BY ZenonT(40) DEF Current
  <2>2. QED
    BY SMTT(40), <1>0, <2>1 DEF ExportInv
<1>4. GivenUpInv'
  <2>1. \A n \in Messages : (\A f \in out' : f.msg # n) => (\A f \in out : f.msg # n)
    OBVIOUS
  <2>2. QED
    BY ZenonT(40), <2>1 DEF ExporterInv, GivenUpInv
<1>5. AckedMeansExported'
  <2>1. SUFFICES ASSUME NEW n \in Messages, source[n] = "acked"
                 PROVE  \E f \in out' : f.msg = n /\ f.seq <= seqLedger'
    BY ZenonT(40) DEF AckedMeansExported
  <2>2. PICK f \in out : f.msg = n /\ f.seq <= seqLedger
    BY ZenonT(40), <2>1 DEF ExporterInv, AckedMeansExported
  <2>3. f.seq \in Int
    BY SMTT(40), RelayAssumption DEF ExportTypes, Frames, Sequences
  <2>4. f.seq <= seqLedger'
    BY SMTT(40), <1>0, <2>2, <2>3
  <2>5. QED
    BY ZenonT(40), <2>2, <2>4
<1>6. QED
  BY ZenonT(40), <1>1, <1>2, <1>3, <1>4, <1>5 DEF ExporterInv

\* loadAttachment keeps the exporter's invariant.
LEMMA LoadAttachmentInv ==
  ASSUME ExportTypes, WorldTypes, ExporterInv, LoadAttachment
  PROVE  ExportTypes' /\ ExporterInv'
<1>0. /\ xpc = "load" /\ xmsg \in Messages /\ faults \in 0 .. MaxFaults /\ faults \in Nat
      /\ UNCHANGED <<source, tries, sequence, seqLedger, out, attach>>
  BY SMTT(40), RelayAssumption DEF LoadAttachment, sourceVars, ExporterInv, ExportInv, WorldTypes
<1>1. CASE xpc' = "write" /\ UNCHANGED <<xmsg, faults>>
  BY ZenonT(40), <1>0, <1>1, GoOnInv
<1>2. CASE attach[xmsg] = "unloadable" /\ HandBack /\ UNCHANGED faults
  BY ZenonT(40), <1>0, <1>2, HandBackInv DEF HandBack
<1>3. CASE HandBack /\ Fault
  <2>1. faults' = faults + 1 /\ faults' \in Nat
    BY SMTT(40), <1>0, <1>3, FaultType, RelayAssumption
  <2>2. QED
    BY ZenonT(40), <1>0, <1>3, <2>1, HandBackInv DEF HandBack
<1>4. QED
  BY ZenonT(40), <1>1, <1>2, <1>3 DEF LoadAttachment

\* atomicJSON keeps it.
LEMMA WriteFrameInv ==
  ASSUME ExportTypes, WorldTypes, ExporterInv, WriteFrame
  PROVE  ExportTypes' /\ ExporterInv'
<1>0. /\ xpc = "write" /\ xmsg \in Messages /\ faults \in 0 .. MaxFaults
      /\ UNCHANGED <<source, tries, sequence, seqLedger, attach>>
  BY ZenonT(40) DEF WriteFrame, sourceVars, ExporterInv, ExportInv, WorldTypes
<1>1. CASE out' = out \cup {Current} /\ xpc' = "ledger" /\ UNCHANGED <<xmsg, faults>>
  BY ZenonT(40), <1>0, <1>1, GoOnInv
<1>2. CASE out' \in {out, out \cup {Current}} /\ HandBack /\ Fault
  <2>1. faults' = faults + 1 /\ faults' \in Nat
    BY SMTT(40), <1>0, <1>2, FaultType, RelayAssumption
  <2>2. QED
    BY ZenonT(40), <1>0, <1>2, <2>1, HandBackInv DEF HandBack
<1>3. QED
  BY ZenonT(40), <1>1, <1>2 DEF WriteFrame, Current

\* writeSequence keeps it.
LEMMA WriteSequenceInv ==
  ASSUME ExportTypes, WorldTypes, ExporterInv, WriteSequence
  PROVE  ExportTypes' /\ ExporterInv'
<1>0. /\ xpc = "ledger" /\ xmsg \in Messages /\ faults \in 0 .. MaxFaults /\ Current \in out
      /\ UNCHANGED <<source, tries, sequence, out, attach>>
  BY ZenonT(40) DEF WriteSequence, sourceVars, ExporterInv, ExportInv, WorldTypes
<1>1. CASE seqLedger' = sequence /\ xpc' = "ack" /\ UNCHANGED <<xmsg, faults>>
  BY ZenonT(40), <1>0, <1>1, GoOnInv
<1>2. CASE seqLedger' \in {seqLedger, sequence} /\ HandBack /\ Fault
  <2>1. faults' = faults + 1 /\ faults' \in Nat
    BY SMTT(40), <1>0, <1>2, FaultType, RelayAssumption
  <2>2. QED
    BY ZenonT(40), <1>0, <1>2, <2>1, HandBackInv DEF HandBack
<1>3. QED
  BY ZenonT(40), <1>1, <1>2 DEF WriteSequence

\* delivery.Ack keeps it: the frame and its number are on disk.
LEMMA AckMessageInv ==
  ASSUME ExportTypes, WorldTypes, ExporterInv, AckMessage
  PROVE  ExportTypes' /\ ExporterInv'
<1>0. /\ xpc = "ack" /\ xmsg \in Messages /\ faults \in 0 .. MaxFaults /\ Current \in out
      /\ sequence <= seqLedger
      /\ UNCHANGED <<tries, sequence, seqLedger, out, attach>>
  BY ZenonT(40) DEF AckMessage, ExporterInv, ExportInv, WorldTypes
<1>1. CASE source' = [source EXCEPT ![xmsg] = "acked"] /\ HandBack /\ UNCHANGED faults
  <2>0. xmsg' = NoMessage /\ xpc' = "fetch" /\ NoMessage \notin Messages
    BY ZenonT(40), <1>1, RelayAssumption DEF HandBack
  <2>1. source' \in [Messages -> {"pending", "acked"}]
    BY ZenonT(40), <1>0, <1>1 DEF ExportTypes
  <2>2. ExportTypes'
    BY ZenonT(40), <1>0, <2>0, <2>1 DEF ExportTypes, Sequences, Frames
  <2>3. CounterInv'
    <3>1. Delivered' = Delivered
      BY ZenonT(40), <1>0 DEF Delivered
    <3>2. QED
      BY ZenonT(40), <1>0, <3>1 DEF ExporterInv, CounterInv
  <2>4. ExportInv'
    BY ZenonT(40), <1>0, <2>0 DEF ExporterInv, ExportInv
  <2>5. GivenUpInv'
    <3>1. Current.msg = xmsg
      BY ZenonT(40) DEF Current
    <3>2. QED
      BY ZenonT(40), <1>0, <1>1, <2>0, <3>1 DEF ExporterInv, GivenUpInv
  <2>6. AckedMeansExported'
    <3>1. SUFFICES ASSUME NEW n \in Messages, source'[n] = "acked"
                   PROVE  \E f \in out : f.msg = n /\ f.seq <= seqLedger
      BY ZenonT(40), <1>0 DEF AckedMeansExported
    <3>2. CASE n = xmsg
      <4>1. Current.msg = n /\ Current.seq <= seqLedger
        BY ZenonT(40), <1>0, <3>2 DEF Current
      <4>2. QED
        BY ZenonT(40), <1>0, <4>1
    <3>3. CASE n # xmsg
      <4>1. source[n] = "acked"
        BY ZenonT(40), <1>1, <3>1, <3>3 DEF ExportTypes
      <4>2. QED
        BY ZenonT(40), <4>1 DEF ExporterInv, AckedMeansExported
    <3>4. QED
      BY ZenonT(40), <3>2, <3>3
  <2>7. QED
    BY ZenonT(40), <2>2, <2>3, <2>4, <2>5, <2>6 DEF ExporterInv
<1>2. CASE xpc' \in {"fetch", "down"} /\ xmsg' = NoMessage /\ Fault /\ UNCHANGED source
  <2>1. faults' = faults + 1 /\ faults' \in Nat
    BY SMTT(40), <1>0, <1>2, FaultType, RelayAssumption
  <2>2. QED
    BY ZenonT(40), <1>0, <1>2, <2>1, HandBackInv
<1>3. QED
  BY ZenonT(40), <1>1, <1>2 DEF AckMessage, HandBack

\* A crash keeps it.
LEMMA ExporterCrashInv ==
  ASSUME ExportTypes, WorldTypes, ExporterInv, ExporterCrash
  PROVE  ExportTypes' /\ ExporterInv'
<1>0. /\ xpc' = "down" /\ xmsg' = NoMessage /\ Fault
      /\ faults \in 0 .. MaxFaults /\ faults \in Nat /\ NoMessage \notin Messages
      /\ UNCHANGED <<source, tries, sequence, seqLedger, out, attach>>
  BY SMTT(40), RelayAssumption DEF ExporterCrash, sourceVars, WorldTypes
<1>1. faults' = faults + 1 /\ faults' \in Nat
  BY SMTT(40), <1>0, FaultType, RelayAssumption
<1>2. CASE xmsg \in Messages
  BY ZenonT(40), <1>0, <1>1, <1>2, HandBackInv
<1>3. CASE xmsg \notin Messages
  <2>1. ExportTypes'
    BY ZenonT(40), <1>0 DEF ExportTypes, Sequences, Frames
  <2>2. CounterInv'
    <3>1. Delivered' = Delivered
      BY ZenonT(40), <1>0 DEF Delivered
    <3>2. QED
      BY ZenonT(40), <1>0, <3>1 DEF ExporterInv, CounterInv
  <2>3. ExportInv'
    BY ZenonT(40), <1>0 DEF ExporterInv, ExportInv
  <2>4. GivenUpInv'
    <3>1. \A n \in Messages : tries[n] \in Nat /\ xmsg # n /\ xmsg' # n
      BY SMTT(40), <1>0, <1>3, RelayAssumption DEF ExportTypes
    <3>2. QED
      BY SMTT(40), <1>0, <1>1, <3>1 DEF ExporterInv, GivenUpInv
  <2>5. AckedMeansExported'
    BY ZenonT(40), <1>0 DEF ExporterInv, AckedMeansExported
  <2>6. QED
    BY ZenonT(40), <2>1, <2>2, <2>3, <2>4, <2>5 DEF ExporterInv
<1>4. QED
  BY ZenonT(40), <1>2, <1>3

-----------------------------------------------------------------------------
(* The importer *)

\* Steps that change neither what the importer recorded nor what it published, and
\* leave it before the publication of an entry, keep its invariant.
LEMMA ImportStill ==
  ASSUME ImportTypes, ImporterInv,
         UNCHANGED <<processed, ledger, tail, unrecorded, copies, attach, processedDir>>,
         \/ UNCHANGED <<ipc, batch, stored>>
         \/ /\ ipc # "append"
            /\ ipc # "down" /\ batch' \subseteq Frames
            /\ stored \subseteq stored' /\ stored' \subseteq Messages
            /\ \/ ipc' \in {"down", "scan", "next"}
               \/ ipc' \in {"store", "publish"} /\ UNCHANGED batch /\ batch # {}
            /\ ipc' = "publish" => attach[Frame.msg] = "none" \/ Frame.msg \in stored'
  PROVE  ImportTypes' /\ ImporterInv'
<1>1. CASE UNCHANGED <<ipc, batch, stored>>
  <2>1. Frame' = Frame
    BY ZenonT(40), <1>1, FrameSame
  <2>2. ImportTypes'
    BY ZenonT(40), <1>1 DEF ImportTypes, Frames, Sequences
  <2>3. ImportInv'
    BY ZenonT(40), <1>1, <2>1 DEF ImporterInv, ImportInv
  <2>4. RecordInv'
    BY ZenonT(40), <1>1, <2>1 DEF ImporterInv, RecordInv
  <2>5. StoredBeforePublished' /\ ProcessedMeansPublished' /\ RepublishedOnlyIfUnrecorded'
    BY ZenonT(40), <1>1 DEF ImporterInv, StoredBeforePublished, ProcessedMeansPublished,
                RepublishedOnlyIfUnrecorded
  <2>6. QED
    BY ZenonT(40), <2>2, <2>3, <2>4, <2>5 DEF ImporterInv
<1>2. CASE /\ ipc # "append"
           /\ ipc # "down" /\ batch' \subseteq Frames
           /\ stored \subseteq stored' /\ stored' \subseteq Messages
           /\ \/ ipc' \in {"down", "scan", "next"}
              \/ ipc' \in {"store", "publish"} /\ UNCHANGED batch /\ batch # {}
           /\ ipc' = "publish" => attach[Frame.msg] = "none" \/ Frame.msg \in stored'
  <2>1. ipc' \in {"store", "publish"} => Frame' = Frame
    BY ZenonT(40), <1>2, FrameSame
  <2>2. ImportTypes'
    <3>1. ipc' \in {"down", "scan", "next", "store", "publish", "append", "move"}
      BY ZenonT(40), <1>2
    <3>2. QED
      BY ZenonT(40), <1>2, <3>1 DEF ImportTypes, Frames, Sequences
  <2>3. ImportInv'
    BY ZenonT(40), <1>2, <2>1 DEF ImporterInv, ImportInv
  <2>4. RecordInv'
    BY ZenonT(40), <1>2 DEF ImporterInv, RecordInv
  <2>5. StoredBeforePublished' /\ ProcessedMeansPublished' /\ RepublishedOnlyIfUnrecorded'
    BY ZenonT(40), <1>2 DEF ImporterInv, StoredBeforePublished, ProcessedMeansPublished,
                RepublishedOnlyIfUnrecorded
  <2>6. QED
    BY ZenonT(40), <2>2, <2>3, <2>4, <2>5 DEF ImporterInv
<1>3. QED
  BY ZenonT(40), <1>1, <1>2

\* readProcessed: the set is what the ledger holds.
LEMMA ImporterStartInv ==
  ASSUME ImportTypes, ImporterInv, ImporterStart
  PROVE  ImportTypes' /\ ImporterInv'
<1>0. /\ ipc = "down" /\ ipc' = "scan" /\ processed' = ledger
      /\ UNCHANGED <<batch, ledger, tail, unrecorded, stored, copies, attach, processedDir>>
  BY ZenonT(40) DEF ImporterStart, dirVars, targetVars
<1>1. ImportTypes'
  BY ZenonT(40), <1>0 DEF ImportTypes, Frames, Sequences
<1>2. ImportInv'
  BY ZenonT(40), <1>0 DEF ImporterInv, ImportInv, ProcessedMeansPublished
<1>3. RecordInv'
  BY ZenonT(40), <1>0 DEF ImporterInv, RecordInv
<1>4. StoredBeforePublished' /\ ProcessedMeansPublished' /\ RepublishedOnlyIfUnrecorded'
  BY ZenonT(40), <1>0 DEF ImporterInv, StoredBeforePublished, ProcessedMeansPublished,
              RepublishedOnlyIfUnrecorded
<1>5. QED
  BY ZenonT(40), <1>1, <1>2, <1>3, <1>4 DEF ImporterInv

\* os.ReadDir keeps the importer's invariant.
LEMMA ReadDirInv ==
  ASSUME ImportTypes, DirTypes, ImporterInv, ReadDir
  PROVE  ImportTypes' /\ ImporterInv'
<1>1. /\ ipc = "scan" /\ ipc' = "next" /\ batch' = input
      /\ UNCHANGED <<processed, ledger, tail, unrecorded, stored, copies, attach, processedDir>>
  BY ZenonT(40) DEF ReadDir, dirVars, ledgerVars, targetVars
<1>2. batch' \subseteq Frames
  BY ZenonT(40), <1>1 DEF DirTypes
<1>3. stored \subseteq stored' /\ stored' \subseteq Messages
  BY ZenonT(40), <1>1 DEF ImportTypes
<1>4. QED
  BY ZenonT(40), <1>1, <1>2, <1>3, ImportStill

\* The checks of a frame keep it.
LEMMA AcceptInv ==
  ASSUME ImportTypes, ImporterInv, Accept
  PROVE  ImportTypes' /\ ImporterInv'
<1>1. /\ ipc = "next" /\ batch # {}
      /\ ipc' = IF attach[Frame.msg] = "none" THEN "publish" ELSE "store"
      /\ UNCHANGED <<batch, processed, ledger, tail, unrecorded, stored, copies, attach, processedDir>>
  BY ZenonT(40) DEF Accept, dirVars, ledgerVars, targetVars
<1>2. batch' \subseteq Frames /\ stored \subseteq stored' /\ stored' \subseteq Messages
  BY ZenonT(40), <1>1 DEF ImportTypes
<1>3. ipc' \in {"store", "publish"} /\ (ipc' = "publish" => attach[Frame.msg] = "none")
  BY ZenonT(40), <1>1
<1>4. QED
  BY ZenonT(40), <1>1, <1>2, <1>3, ImportStill

\* quarantine keeps it.
LEMMA QuarantineInv ==
  ASSUME ImportTypes, ImporterInv, Quarantine
  PROVE  ImportTypes' /\ ImporterInv'
<1>1. /\ ipc = "next"
      /\ ipc' \in {"next", "down"} /\ batch' \in {batch \ {Frame}, {}}
      /\ UNCHANGED <<processed, ledger, tail, unrecorded, stored, copies, attach, processedDir>>
  BY ZenonT(40) DEF Quarantine, Exit, ledgerVars, targetVars
<1>2. batch' \subseteq Frames /\ stored \subseteq stored' /\ stored' \subseteq Messages
  BY ZenonT(40), <1>1 DEF ImportTypes
<1>3. QED
  BY ZenonT(40), <1>1, <1>2, ImportStill

\* The end of a batch keeps it.
LEMMA BatchDoneInv ==
  ASSUME ImportTypes, ImporterInv, BatchDone
  PROVE  ImportTypes' /\ ImporterInv'
<1>1. /\ ipc = "next" /\ ipc' = "scan"
      /\ UNCHANGED <<batch, processed, ledger, tail, unrecorded, stored, copies, attach, processedDir>>
  BY ZenonT(40) DEF BatchDone, dirVars, ledgerVars, targetVars
<1>2. batch' \subseteq Frames /\ stored \subseteq stored' /\ stored' \subseteq Messages
  BY ZenonT(40), <1>1 DEF ImportTypes
<1>3. QED
  BY ZenonT(40), <1>1, <1>2, ImportStill

\* storeAttachment keeps it.
LEMMA StoreAttachmentInv ==
  ASSUME ImportTypes, ImporterInv, StoreAttachment
  PROVE  ImportTypes' /\ ImporterInv'
<1>0. /\ ipc = "store" /\ batch # {} /\ batch \subseteq Frames /\ stored \subseteq Messages
      /\ UNCHANGED <<processed, ledger, tail, unrecorded, copies, attach, processedDir>>
  BY ZenonT(40) DEF StoreAttachment, dirVars, ledgerVars, ImporterInv, ImportInv, ImportTypes
<1>1. Frame.msg \in Messages
  BY ZenonT(40), <1>0, FrameType
<1>2. CASE stored' = stored \cup {Frame.msg} /\ ipc' = "publish" /\ UNCHANGED batch
  BY ZenonT(40), <1>0, <1>1, <1>2, ImportStill
<1>3. CASE Exit /\ UNCHANGED stored
  BY ZenonT(40), <1>0, <1>3, ImportStill DEF Exit
<1>4. QED
  BY ZenonT(40), <1>2, <1>3 DEF StoreAttachment

\* What one more publication makes of the counter.
LEMMA PublishedType ==
  ASSUME ImportTypes, Frame.msg \in Messages, PublishedOnceMore
  PROVE  /\ copies' \in [Messages -> 0 .. MaxCopies]
         /\ copies'[Frame.msg] > 0
         /\ \A m \in Messages : copies[m] > 0 => copies'[m] > 0
         /\ \A m \in Messages : m # Frame.msg => copies'[m] = copies[m]
         /\ copies'[Frame.msg] > 1 => copies[Frame.msg] > 0
<1>0. /\ MaxCopies \in Nat /\ MaxCopies > 0 /\ copies \in [Messages -> 0 .. MaxCopies]
      /\ copies[Frame.msg] \in 0 .. MaxCopies
  BY SMTT(40), RelayAssumption DEF ImportTypes
<1> DEFINE c == IF copies[Frame.msg] < MaxCopies THEN copies[Frame.msg] + 1 ELSE copies[Frame.msg]
<1>1. c \in 0 .. MaxCopies /\ c > 0 /\ (c > 1 => copies[Frame.msg] > 0)
  BY SMTT(40), <1>0
<1>2. copies' = [copies EXCEPT ![Frame.msg] = c]
  BY ZenonT(40) DEF PublishedOnceMore
<1> HIDE DEF c
<1>3. copies'[Frame.msg] = c /\ copies' \in [Messages -> 0 .. MaxCopies]
  BY ZenonT(40), <1>0, <1>1, <1>2
<1>4. \A m \in Messages : m # Frame.msg => copies'[m] = copies[m]
  BY ZenonT(40), <1>0, <1>2
<1>5. QED
  BY ZenonT(40), <1>1, <1>3, <1>4

\* publisher.Publish keeps it: a message that is not in the processed set was never
\* recorded.
LEMMA PublishInv ==
  ASSUME ImportTypes, DirTypes, ImporterInv, Publish
  PROVE  ImportTypes' /\ ImporterInv'
<1>0. /\ ipc = "publish" /\ batch # {} /\ ledger \subseteq processed
      /\ attach[Frame.msg] = "none" \/ Frame.msg \in stored
      /\ \A m \in processed : copies[m] > 0
      /\ UNCHANGED <<processed, ledger, tail, stored, attach, processedDir>>
  BY ZenonT(40) DEF Publish, dirVars, ImporterInv, ImportInv
<1>1. Frame.msg \in Messages
  BY ZenonT(40), <1>0, FrameType
<1>2. CASE Frame.msg \in processed /\ ipc' = "move" /\ UNCHANGED <<batch, copies, unrecorded>>
  <2>1. Frame' = Frame
    BY ZenonT(40), <1>2, FrameSame
  <2>2. ImportTypes'
    BY ZenonT(40), <1>0, <1>2 DEF ImportTypes, Frames, Sequences
  <2>3. ImportInv'
    BY ZenonT(40), <1>0, <1>2, <2>1 DEF ImportInv
  <2>4. RecordInv'
    BY ZenonT(40), <1>0, <1>2 DEF ImporterInv, RecordInv
  <2>5. StoredBeforePublished' /\ ProcessedMeansPublished' /\ RepublishedOnlyIfUnrecorded'
    BY ZenonT(40), <1>0, <1>2 DEF ImporterInv, StoredBeforePublished, ProcessedMeansPublished,
                      RepublishedOnlyIfUnrecorded
  <2>6. QED
    BY ZenonT(40), <2>2, <2>3, <2>4, <2>5 DEF ImporterInv
<1>3. CASE Frame.msg \notin processed /\ Exit /\ UNCHANGED <<copies, unrecorded>>
  <2>1. batch' = {} /\ ipc' = "down" /\ stored' \subseteq Messages
    BY ZenonT(40), <1>0, <1>3 DEF Exit, ImportTypes
  <2>2. QED
    BY ZenonT(40), <1>0, <1>3, <2>1, ImportStill
<1>4. CASE /\ Frame.msg \notin processed /\ PublishedOnceMore
           /\ \/ ipc' = "append" /\ UNCHANGED <<batch, unrecorded>>
              \/ unrecorded' = unrecorded \cup {Frame.msg} /\ Exit
  <2>0. /\ copies' \in [Messages -> 0 .. MaxCopies]
        /\ copies'[Frame.msg] > 0
        /\ \A m \in Messages : copies[m] > 0 => copies'[m] > 0
        /\ \A m \in Messages : m # Frame.msg => copies'[m] = copies[m]
        /\ copies'[Frame.msg] > 1 => copies[Frame.msg] > 0
    BY ZenonT(40), <1>1, <1>4, PublishedType
  <2>1. UNCHANGED batch => Frame' = Frame
    BY ZenonT(40), FrameSame
  <2>2. ImportTypes'
    <3>1. ipc' \in {"append", "down"} /\ batch' \subseteq Frames /\ unrecorded' \subseteq Messages
      BY ZenonT(40), <1>1, <1>4 DEF Exit, ImportTypes
    <3>2. QED
      BY ZenonT(40), <1>0, <2>0, <3>1 DEF ImportTypes, Frames, Sequences
  <2>3. ImportInv'
    <3>1. \A m \in processed : copies'[m] > 0
      BY ZenonT(40), <1>0, <2>0 DEF ImportTypes
    <3>2. CASE ipc' = "append" /\ UNCHANGED batch
      BY ZenonT(40), <1>0, <2>0, <2>1, <3>1, <3>2 DEF ImportInv
    <3>3. CASE Exit
      BY ZenonT(40), <3>3 DEF ImportInv, Exit
    <3>4. QED
      BY ZenonT(40), <1>4, <3>2, <3>3
  <2>4. RecordInv'
    <3>1. SUFFICES ASSUME NEW m \in Messages, copies'[m] > 0, m \notin unrecorded'
                   PROVE  m \in ledger' \/ (ipc' = "append" /\ Frame'.msg = m)
      BY ZenonT(40) DEF RecordInv
    <3>2. CASE m = Frame.msg
      BY ZenonT(40), <1>4, <2>1, <3>1, <3>2
    <3>3. CASE m # Frame.msg
      <4>1. copies[m] > 0 /\ m \notin unrecorded
        BY ZenonT(40), <1>4, <2>0, <3>1, <3>3
      <4>2. QED
        BY ZenonT(40), <1>0, <4>1 DEF ImporterInv, RecordInv
    <3>4. QED
      BY ZenonT(40), <3>2, <3>3
  <2>5. StoredBeforePublished'
    BY ZenonT(40), <1>0, <2>0 DEF ImporterInv, StoredBeforePublished
  <2>6. ProcessedMeansPublished'
    <3>1. ledger \subseteq Messages
      BY ZenonT(40) DEF ImportTypes
    <3>2. \A f \in processedDir : f.msg \in Messages
      BY ZenonT(40) DEF DirTypes, Frames
    <3>3. QED
      BY ZenonT(40), <1>0, <2>0, <3>1, <3>2 DEF ImporterInv, ProcessedMeansPublished
  <2>7. RepublishedOnlyIfUnrecorded'
    <3>1. SUFFICES ASSUME NEW m \in Messages, copies'[m] > 1 PROVE m \in unrecorded'
      BY ZenonT(40) DEF RepublishedOnlyIfUnrecorded
    <3>2. m \in unrecorded
      <4>1. CASE m = Frame.msg
        BY ZenonT(40), <1>0, <1>4, <2>0, <3>1, <4>1 DEF ImporterInv, RecordInv
      <4>2. CASE m # Frame.msg
        BY ZenonT(40), <2>0, <3>1, <4>2 DEF ImporterInv, RepublishedOnlyIfUnrecorded
      <4>3. QED
        BY ZenonT(40), <4>1, <4>2
    <3>3. QED
      BY ZenonT(40), <1>4, <3>2
  <2>8. QED
    BY ZenonT(40), <2>2, <2>3, <2>4, <2>5, <2>6, <2>7 DEF ImporterInv
<1>5. QED
  BY ZenonT(40), <1>2, <1>3, <1>4 DEF Publish

\* The end of RunImporter keeps it, when the entry it was about to record is
\* recorded or known not to be.
LEMMA ExitInv ==
  ASSUME ImportTypes, ImporterInv, Exit, UNCHANGED <<processed, stored, copies, attach>>,
         tail' \in Tails,
         ledger \subseteq ledger' \cup unrecorded', unrecorded \subseteq unrecorded', unrecorded' \subseteq Messages,
         \A m \in ledger' : m \in Messages /\ copies[m] > 0,
         \A f \in processedDir' : copies[f.msg] > 0,
         ipc = "append" => Frame.msg \in ledger' \cup unrecorded'
  PROVE  ImportTypes' /\ ImporterInv'
<1>0. ipc' = "down" /\ batch' = {}
  BY ZenonT(40) DEF Exit
<1>1. ImportTypes'
  BY ZenonT(40), <1>0 DEF ImportTypes, Frames, Sequences
<1>2. ImportInv'
  BY ZenonT(40), <1>0 DEF ImportInv
<1>3. RecordInv'
  BY ZenonT(40) DEF ImporterInv, RecordInv
<1>4. StoredBeforePublished' /\ ProcessedMeansPublished' /\ RepublishedOnlyIfUnrecorded'
  BY ZenonT(40) DEF ImporterInv, StoredBeforePublished, ProcessedMeansPublished, RepublishedOnlyIfUnrecorded
<1>5. QED
  BY ZenonT(40), <1>1, <1>2, <1>3, <1>4 DEF ImporterInv

\* appendProcessed keeps it, whatever part of the line reaches the disk.
LEMMA AppendProcessedInv ==
  ASSUME ImportTypes, ImporterInv, AppendProcessed
  PROVE  ImportTypes' /\ ImporterInv'
<1>0. /\ ipc = "append" /\ batch # {} /\ ledger \subseteq processed
      /\ copies[Frame.msg] > 0
      /\ \A m \in processed : copies[m] > 0
      /\ UNCHANGED <<stored, copies, attach, processedDir>>
  BY ZenonT(40) DEF AppendProcessed, dirVars, targetVars, ImporterInv, ImportInv
<1>1. Frame.msg \in Messages
  BY ZenonT(40), <1>0, FrameType
<1>2. /\ tail' \in Tails
      /\ ledger \subseteq ledger' \cup unrecorded' /\ ledger' \subseteq ledger \cup {Frame.msg}
      /\ unrecorded \subseteq unrecorded' /\ unrecorded' \subseteq Messages
      /\ Frame.msg \in ledger' \cup unrecorded'
  <2>0. /\ ledger \subseteq Messages /\ unrecorded \subseteq Messages /\ NoMessage \notin Messages
        /\ tail \in Tails /\ tail \subseteq Messages \cup {NoMessage}
        /\ {} \in Tails /\ {Frame.msg} \in Tails /\ {NoMessage} \in Tails
    BY ZenonT(40), <1>1, RelayAssumption DEF ImportTypes, Tails
  <2>1. CASE tail = {} /\ ledger' = ledger \cup {Frame.msg} /\ UNCHANGED unrecorded /\ tail' \in {{}, {Frame.msg}}
    BY ZenonT(40), <2>0, <2>1
  <2>2. CASE ledger' = ledger \ tail /\ Lose /\ tail' \in {{}, {NoMessage}}
    BY ZenonT(40), <1>1, <2>0, <2>2 DEF Lose
  <2>3. CASE LineMissing
    BY ZenonT(40), <1>1, <2>0, <2>3 DEF LineMissing
  <2>4. QED
    BY ZenonT(40), <2>1, <2>2, <2>3 DEF AppendProcessed, LineWritten, LineUnended
<1>3. unrecorded' \subseteq Messages /\ ledger' \subseteq Messages /\ processed \subseteq Messages
  BY ZenonT(40), <1>1, <1>2 DEF ImportTypes
<1>4. CASE LineWritten /\ processed' = processed \cup {Frame.msg} /\ ipc' = "move" /\ UNCHANGED batch
  <2>1. Frame' = Frame
    BY ZenonT(40), <1>4, FrameSame
  <2>2. ImportTypes'
    <3>1. processed' \subseteq Messages
      BY ZenonT(40), <1>1, <1>3, <1>4
    <3>2. QED
      BY ZenonT(40), <1>0, <1>2, <1>3, <1>4, <3>1 DEF ImportTypes, Frames, Sequences
  <2>3. ImportInv'
    BY ZenonT(40), <1>0, <1>2, <1>4, <2>1 DEF ImportInv
  <2>4. RecordInv'
    BY ZenonT(40), <1>0, <1>2 DEF ImporterInv, RecordInv
  <2>5. StoredBeforePublished' /\ RepublishedOnlyIfUnrecorded'
    BY ZenonT(40), <1>0, <1>2 DEF ImporterInv, StoredBeforePublished, RepublishedOnlyIfUnrecorded
  <2>6. ProcessedMeansPublished'
    BY ZenonT(40), <1>0, <1>2 DEF ImporterInv, ProcessedMeansPublished
  <2>7. QED
    BY ZenonT(40), <2>2, <2>3, <2>4, <2>5, <2>6 DEF ImporterInv
<1>5. CASE Exit /\ UNCHANGED processed
  <2>1. \A m \in ledger' : m \in Messages /\ copies[m] > 0
    BY ZenonT(40), <1>0, <1>2, <1>3
  <2>2. \A f \in processedDir' : copies[f.msg] > 0
    BY ZenonT(40), <1>0 DEF ImporterInv, ProcessedMeansPublished
  <2>3. QED
    BY ZenonT(40), <1>0, <1>2, <1>3, <1>5, <2>1, <2>2, ExitInv
<1>6. QED
  BY ZenonT(40), <1>4, <1>5 DEF AppendProcessed

\* moveDurably keeps it: the entry has been published.
LEMMA MoveInv ==
  ASSUME ImportTypes, ImporterInv, Move
  PROVE  ImportTypes' /\ ImporterInv'
<1>0. /\ ipc = "move" /\ batch # {} /\ copies[Frame.msg] > 0
      /\ UNCHANGED <<processed, ledger, tail, unrecorded, stored, copies, attach>>
  BY ZenonT(40) DEF Move, ledgerVars, targetVars, ImporterInv, ImportInv
<1>1. processedDir' \in {processedDir, processedDir \cup {Frame}}
  BY ZenonT(40) DEF Move, Moved
<1>2. \A f \in processedDir' : copies[f.msg] > 0
  BY ZenonT(40), <1>0, <1>1 DEF ImporterInv, ProcessedMeansPublished
<1>3. CASE batch' = batch \ {Frame} /\ ipc' = "next"
  <2>1. ImportTypes'
    BY ZenonT(40), <1>0, <1>3 DEF ImportTypes, Frames, Sequences
  <2>2. ImportInv'
    BY ZenonT(40), <1>0, <1>3 DEF ImporterInv, ImportInv
  <2>3. RecordInv'
    BY ZenonT(40), <1>0, <1>3 DEF ImporterInv, RecordInv
  <2>4. StoredBeforePublished' /\ ProcessedMeansPublished' /\ RepublishedOnlyIfUnrecorded'
    BY ZenonT(40), <1>0, <1>2 DEF ImporterInv, StoredBeforePublished, ProcessedMeansPublished,
                      RepublishedOnlyIfUnrecorded
  <2>5. QED
    BY ZenonT(40), <2>1, <2>2, <2>3, <2>4 DEF ImporterInv
<1>4. CASE Exit
  <2>1. /\ tail' \in Tails /\ unrecorded' \subseteq Messages
        /\ \A m \in ledger' : m \in Messages /\ copies[m] > 0
    BY ZenonT(40), <1>0 DEF ImportTypes, ImporterInv, ProcessedMeansPublished
  <2>2. QED
    BY ZenonT(40), <1>0, <1>2, <1>4, <2>1, ExitInv
<1>5. QED
  BY ZenonT(40), <1>3, <1>4 DEF Move

\* A crash keeps it.
LEMMA ImporterCrashInv ==
  ASSUME ImportTypes, ImporterInv, ImporterCrash
  PROVE  ImportTypes' /\ ImporterInv'
<1>0. /\ Exit
      /\ unrecorded' = IF ipc = "append" THEN unrecorded \cup {Frame.msg} ELSE unrecorded
      /\ UNCHANGED <<processed, ledger, tail, stored, copies, attach, processedDir>>
  BY ZenonT(40) DEF ImporterCrash, dirVars, targetVars
<1>1. ipc = "append" => Frame.msg \in Messages
  BY ZenonT(40), FrameType DEF ImporterInv, ImportInv
<1>2. /\ tail' \in Tails /\ unrecorded' \subseteq Messages
      /\ unrecorded \subseteq unrecorded'
      /\ ipc = "append" => Frame.msg \in unrecorded'
  BY ZenonT(40), <1>0, <1>1 DEF ImportTypes
<1>3. /\ \A m \in ledger' : m \in Messages /\ copies[m] > 0
      /\ \A f \in processedDir' : copies[f.msg] > 0
  BY ZenonT(40), <1>0 DEF ImportTypes, ImporterInv, ProcessedMeansPublished
<1>4. QED
  BY ZenonT(40), <1>0, <1>2, <1>3, ExitInv

-----------------------------------------------------------------------------
(* The relay *)

\* The directories hold frames of the exporter only.
LEMMA DirStep ==
  ASSUME TypeOK, ImportInv, Next
  PROVE  DirTypes'
<1>1. ExportTypes /\ ImportTypes /\ DirTypes /\ WorldTypes
  BY ZenonT(40), Types
<1>2. CASE UNCHANGED dirVars
  BY ZenonT(40), <1>1, <1>2 DEF DirTypes, dirVars, Frames, Sequences
<1>3. ASSUME NEW f \in out, Transfer(f) PROVE DirTypes'
  <2>1. /\ f \in Frames /\ input' = input \cup {f} /\ damaged' \in {damaged \ {f}, damaged \cup {f}}
        /\ UNCHANGED <<processedDir, quarantined>>
    BY ZenonT(40), <1>1, <1>3 DEF Transfer, ExportTypes
  <2>2. QED
    BY ZenonT(40), <1>1, <2>1 DEF DirTypes, Frames, Sequences
<1>4. CASE Quarantine \/ Move
  <2>1. Frame \in Frames
    BY ZenonT(40), <1>1, <1>4, FrameType DEF Quarantine, Move, ImportInv
  <2>2. /\ input' \subseteq input
        /\ \/ UNCHANGED <<input, damaged>>
           \/ input' = input \ {Frame} /\ damaged' = damaged \ {Frame}
        /\ processedDir' \subseteq processedDir \cup {Frame}
        /\ quarantined' \subseteq quarantined \cup {Frame}
    BY ZenonT(40), <1>4 DEF Quarantine, Move, SetAside, Moved
  <2>3. damaged' \subseteq input'
    BY ZenonT(40), <1>1, <2>2 DEF DirTypes
  <2>4. QED
    BY ZenonT(40), <1>1, <2>1, <2>2, <2>3 DEF DirTypes, Frames, Sequences
<1>5. ASSUME ExporterStep \/ ExporterCrash \/ (\E m \in Messages : Expire(m))
      PROVE  UNCHANGED dirVars
  BY ZenonT(40), <1>5 DEF ExporterStep, ExporterStart, LoadAttachment, WriteFrame, WriteSequence, AckMessage,
              ExporterFetch, ExporterCrash, Expire, importerVars
<1>6. ASSUME \/ ImporterStart \/ ReadDir \/ Accept \/ BatchDone \/ StoreAttachment
             \/ Publish \/ AppendProcessed \/ ImporterCrash
      PROVE  UNCHANGED dirVars
  BY ZenonT(40), <1>6 DEF ImporterStart, ReadDir, Accept, BatchDone, StoreAttachment, Publish,
              AppendProcessed, ImporterCrash
<1>7. QED
  BY ZenonT(40), <1>2, <1>3, <1>4, <1>5, <1>6 DEF Next, ImporterStep

\* The world keeps its types, and failures only grow.
LEMMA WorldStep ==
  ASSUME WorldTypes, Next
  PROVE  WorldTypes' /\ faults \in Nat /\ faults' \in Nat /\ faults <= faults'
<1>1. faults \in 0 .. MaxFaults /\ faults \in Nat /\ MaxFaults \in Nat
  BY SMTT(40), RelayAssumption DEF WorldTypes
<1>2. UNCHANGED faults \/ Fault
  <2>1. ASSUME ExporterStep \/ ExporterCrash PROVE UNCHANGED faults \/ Fault
    BY ZenonT(40), <2>1 DEF ExporterStep, ExporterStart, LoadAttachment, WriteFrame, WriteSequence, AckMessage,
                ExporterFetch, ExporterCrash
  <2>2. ASSUME ImporterStep \/ ImporterCrash PROVE UNCHANGED faults \/ Fault
    BY ZenonT(40), <2>2 DEF ImporterStep, ImporterStart, ReadDir, Accept, Quarantine, BatchDone, StoreAttachment,
                Publish, AppendProcessed, Move, ImporterCrash
  <2>3. ASSUME (\E f \in out : Transfer(f)) \/ (\E m \in Messages : Expire(m))
        PROVE  UNCHANGED faults \/ Fault
    BY ZenonT(40), <2>3 DEF Transfer, Expire
  <2>4. QED
    BY ZenonT(40), <2>1, <2>2, <2>3 DEF Next
<1>3. faults' \in 0 .. MaxFaults /\ faults' \in Nat /\ faults <= faults'
  <2>1. CASE UNCHANGED faults
    BY SMTT(40), <1>1, <2>1
  <2>2. CASE Fault
    <3>1. faults' \in 0 .. MaxFaults /\ faults' = faults + 1
      BY ZenonT(40), <1>1, <2>2, FaultType
    <3>2. QED
      BY SMTT(40), <1>1, <3>1
  <2>3. QED
    BY ZenonT(40), <1>2, <2>1, <2>2
<1>4. attach' = attach
  <2>1. ASSUME ExporterStep \/ ExporterCrash PROVE attach' = attach
    BY ZenonT(40), <2>1 DEF ExporterStep, ExporterStart, LoadAttachment, WriteFrame, WriteSequence, AckMessage,
                ExporterFetch, ExporterCrash
  <2>2. ASSUME ImporterStep \/ ImporterCrash PROVE attach' = attach
    BY ZenonT(40), <2>2 DEF ImporterStep, ImporterStart, ReadDir, Accept, Quarantine, BatchDone, StoreAttachment,
                Publish, AppendProcessed, Move, ImporterCrash
  <2>3. ASSUME (\E f \in out : Transfer(f)) \/ (\E m \in Messages : Expire(m))
        PROVE  attach' = attach
    BY ZenonT(40), <2>3 DEF Transfer, Expire
  <2>4. QED
    BY ZenonT(40), <2>1, <2>2, <2>3 DEF Next
<1>5. expired' \subseteq Messages
  <2>1. ASSUME ExporterStep \/ ExporterCrash PROVE expired' = expired
    BY ZenonT(40), <2>1 DEF ExporterStep, ExporterStart, LoadAttachment, WriteFrame, WriteSequence, AckMessage,
                ExporterFetch, ExporterCrash
  <2>2. ASSUME ImporterStep \/ ImporterCrash PROVE expired' = expired
    BY ZenonT(40), <2>2 DEF ImporterStep, ImporterStart, ReadDir, Accept, Quarantine, BatchDone, StoreAttachment,
                Publish, AppendProcessed, Move, ImporterCrash
  <2>3. ASSUME NEW f \in out, Transfer(f) PROVE expired' = expired
    BY ZenonT(40), <2>3 DEF Transfer
  <2>4. ASSUME NEW m \in Messages, Expire(m) PROVE expired' = expired \cup {m}
    BY ZenonT(40), <2>4 DEF Expire
  <2>5. QED
    BY ZenonT(40), <2>1, <2>2, <2>3, <2>4 DEF Next, WorldTypes
<1>6. QED
  BY ZenonT(40), <1>1, <1>3, <1>4, <1>5 DEF WorldTypes, AllAttachments

\* The invariant holds at the start.
LEMMA InitInv == Init => RelayInv
<1> SUFFICES ASSUME Init PROVE RelayInv
  OBVIOUS
<1>0. /\ MaxDeliver \in Nat /\ MaxCopies \in Nat /\ MaxFaults \in Nat
      /\ Cardinality(Messages) \in Nat /\ NoMessage \notin Messages
      /\ Attachments \subseteq [Messages -> AllAttachments]
  BY ZenonT(40), RelayAssumption, FS_CardinalityType
<1>1. 0 \in Sequences
  <2>1. MaxDeliver * Cardinality(Messages) \in Nat
    BY SMTT(40), <1>0
  <2>2. QED
    BY SMTT(40), <2>1 DEF Sequences
<1>2. ExportTypes
  BY SMTT(40), <1>0, <1>1 DEF Init, ExportTypes
<1>3. ImportTypes
  <2>1. tail \in Tails
    BY ZenonT(40) DEF Init, Tails
  <2>2. QED
    BY SMTT(40), <1>0, <2>1 DEF Init, ImportTypes
<1>4. DirTypes
  BY ZenonT(40) DEF Init, DirTypes
<1>5. WorldTypes
  BY SMTT(40), <1>0 DEF Init, WorldTypes
<1>6. TypeOK
  BY ZenonT(40), <1>2, <1>3, <1>4, <1>5, Types
<1>7. CounterInv
  <2>1. Cardinality(Delivered) \in Nat
    BY ZenonT(40), <1>2, DeliveredBound
  <2>2. QED
    BY SMTT(40), <2>1 DEF Init, CounterInv
<1>8. ExportInv
  BY SMTT(40), <1>0 DEF Init, ExportInv
<1>9. GivenUpInv
  BY SMTT(40), <1>0 DEF Init, GivenUpInv
<1>10. AckedMeansExported
  BY ZenonT(40) DEF Init, AckedMeansExported
<1>11. ImportInv /\ RecordInv
  BY SMTT(40) DEF Init, ImportInv, RecordInv
<1>12. StoredBeforePublished /\ ProcessedMeansPublished /\ RepublishedOnlyIfUnrecorded
  BY SMTT(40) DEF Init, StoredBeforePublished, ProcessedMeansPublished, RepublishedOnlyIfUnrecorded
<1>13. QED
  BY ZenonT(40), <1>6, <1>7, <1>8, <1>9, <1>10, <1>11, <1>12 DEF RelayInv, ExporterInv, ImporterInv

\* Every step keeps it.
LEMMA NextInv == RelayInv /\ [Next]_vars => RelayInv'
<1>1. ASSUME RelayInv, Next PROVE RelayInv'
  <2>0. /\ TypeOK /\ ExportTypes /\ ImportTypes /\ DirTypes /\ WorldTypes
        /\ ExporterInv /\ ImporterInv
    BY ZenonT(40), <1>1, Types DEF RelayInv
  <2>1. DirTypes'
    BY ZenonT(40), <1>1, <2>0, DirStep DEF ImporterInv
  <2>2. WorldTypes' /\ faults \in Nat /\ faults' \in Nat /\ faults <= faults'
    BY ZenonT(40), <1>1, <2>0, WorldStep
  <2>3. SUFFICES ExportTypes' /\ ExporterInv' /\ ImportTypes' /\ ImporterInv'
    BY ZenonT(40), <2>1, <2>2, TypesNext DEF RelayInv
  <2>4. ASSUME ExporterStep \/ ExporterCrash
        PROVE  ExportTypes' /\ ExporterInv' /\ ImportTypes' /\ ImporterInv'
    <3>1. UNCHANGED <<importerVars, attach>>
      BY ZenonT(40), <2>4 DEF ExporterStep, ExporterStart, LoadAttachment, WriteFrame, WriteSequence, AckMessage,
                  ExporterFetch, ExporterCrash
    <3>2. ImportTypes' /\ ImporterInv'
      BY ZenonT(40), <2>0, <3>1, ImportStill DEF importerVars, dirVars, ledgerVars, targetVars
    <3>3. ExportTypes' /\ ExporterInv'
      BY ZenonT(40), <2>0, <2>4, ExporterStartInv, ExporterFetchInv, LoadAttachmentInv, WriteFrameInv,
         WriteSequenceInv, AckMessageInv, ExporterCrashInv DEF ExporterStep
    <3>4. QED
      BY ZenonT(40), <3>2, <3>3
  <2>5. ASSUME ImporterStep \/ ImporterCrash
        PROVE  ExportTypes' /\ ExporterInv' /\ ImportTypes' /\ ImporterInv'
    <3>1. UNCHANGED <<sourceVars, exporterVars, attach>>
      BY ZenonT(40), <2>5 DEF ImporterStep, ImporterStart, ReadDir, Accept, Quarantine, BatchDone,
                  StoreAttachment, Publish, AppendProcessed, Move, ImporterCrash
    <3>2. ExportTypes' /\ ExporterInv'
      BY ZenonT(40), <2>0, <2>2, <3>1, ExportStill
    <3>3. ImportTypes' /\ ImporterInv'
      BY ZenonT(40), <2>0, <2>5, ImporterStartInv, ReadDirInv, AcceptInv, QuarantineInv, BatchDoneInv,
         StoreAttachmentInv, PublishInv, AppendProcessedInv, MoveInv, ImporterCrashInv
         DEF ImporterStep
    <3>4. QED
      BY ZenonT(40), <3>2, <3>3
  <2>6. ASSUME (\E f \in out : Transfer(f)) \/ (\E m \in Messages : Expire(m))
        PROVE  ExportTypes' /\ ExporterInv' /\ ImportTypes' /\ ImporterInv'
    <3>1. /\ UNCHANGED <<sourceVars, exporterVars, attach>>
          /\ UNCHANGED <<ipc, batch, processedDir, ledgerVars, targetVars>>
      BY ZenonT(40), <2>6 DEF Transfer, Expire, importerVars, dirVars
    <3>2. ExportTypes' /\ ExporterInv'
      BY ZenonT(40), <2>0, <2>2, <3>1, ExportStill
    <3>3. ImportTypes' /\ ImporterInv'
      BY ZenonT(40), <2>0, <3>1, ImportStill DEF ledgerVars, targetVars
    <3>4. QED
      BY ZenonT(40), <3>2, <3>3
  <2>7. QED
    BY ZenonT(40), <1>1, <2>4, <2>5, <2>6 DEF Next
<1>2. ASSUME RelayInv, UNCHANGED vars PROVE RelayInv'
  <2>0. /\ ExportTypes /\ ImportTypes /\ DirTypes /\ WorldTypes /\ ExporterInv /\ ImporterInv
        /\ faults \in Nat
    BY SMTT(40), <1>2, Types, RelayAssumption DEF RelayInv, WorldTypes
  <2>1. /\ UNCHANGED <<sourceVars, exporterVars, attach, expired, faults, dirVars>>
        /\ UNCHANGED <<ipc, batch, ledgerVars, targetVars>>
    BY ZenonT(40), <1>2 DEF vars, importerVars
  <2>2. ExportTypes' /\ ExporterInv'
    BY SMTT(40), <2>0, <2>1, ExportStill
  <2>3. ImportTypes' /\ ImporterInv'
    BY ZenonT(40), <2>0, <2>1, ImportStill DEF dirVars, ledgerVars, targetVars
  <2>4. DirTypes' /\ WorldTypes'
    BY ZenonT(40), <2>0, <2>1 DEF DirTypes, WorldTypes, dirVars, Frames, Sequences, AllAttachments
  <2>5. QED
    BY ZenonT(40), <2>2, <2>3, <2>4, TypesNext DEF RelayInv
<1>3. QED
  BY ZenonT(40), <1>1, <1>2

\* The relay's state stays well-formed; in particular the counter of the exporter
\* never exceeds the number of deliveries the consumer makes.
THEOREM RelayTypeCorrect == Spec => []TypeOK
<1>1. RelayInv => TypeOK
  BY ZenonT(40) DEF RelayInv
<1>2. QED
  BY <1>1, InitInv, NextInv, PTL DEF Spec

\* RunExporter: a message is acknowledged only when its frame and the frame's
\* number are on disk, whatever fails and wherever the process stops.
THEOREM AcknowledgedIsExported == Spec => []AckedMeansExported
<1>1. RelayInv => AckedMeansExported
  BY ZenonT(40) DEF RelayInv, ExporterInv
<1>2. QED
  BY <1>1, InitInv, NextInv, PTL DEF Spec

\* RunExporter: a message that used up its deliveries without leaving a frame met a
\* failure in each of them, or cannot be exported at all.
THEOREM NothingGivenUp == Spec => []UnexportedOnlyIfAlwaysFailing
<1>1. RelayInv => UnexportedOnlyIfAlwaysFailing
  <2> SUFFICES ASSUME RelayInv, NEW m \in Messages,
                      tries[m] = MaxDeliver, xmsg # m, attach[m] # "unloadable",
                      \A f \in out : f.msg # m
               PROVE  faults >= MaxDeliver
    BY ZenonT(40) DEF UnexportedOnlyIfAlwaysFailing
  <2>1. tries[m] <= faults + 0
    BY ZenonT(40) DEF RelayInv, ExporterInv, GivenUpInv
  <2>2. faults \in Nat /\ MaxDeliver \in Nat
    BY SMTT(40), RelayAssumption DEF RelayInv, TypeOK
  <2>3. QED
    BY SMTT(40), <2>1, <2>2
<1>2. QED
  BY <1>1, InitInv, NextInv, PTL DEF Spec

\* importAvailable: the attachment is in the object store before the message that
\* refers to it is published.
THEOREM AttachmentFirst == Spec => []StoredBeforePublished
<1>1. RelayInv => StoredBeforePublished
  BY ZenonT(40) DEF RelayInv, ImporterInv
<1>2. QED
  BY <1>1, InitInv, NextInv, PTL DEF Spec

\* importAvailable: only published messages are recorded and filed as processed.
THEOREM FiledIsPublished == Spec => []ProcessedMeansPublished
<1>1. RelayInv => ProcessedMeansPublished
  BY ZenonT(40) DEF RelayInv, ImporterInv
<1>2. QED
  BY <1>1, InitInv, NextInv, PTL DEF Spec

\* importAvailable: a second publication of a message is due to a lost record of
\* the first one, and to nothing else.
THEOREM PublishedTwiceOnlyIfUnrecorded == Spec => []RepublishedOnlyIfUnrecorded
<1>1. RelayInv => RepublishedOnlyIfUnrecorded
  BY ZenonT(40) DEF RelayInv, ImporterInv
<1>2. QED
  BY <1>1, InitInv, NextInv, PTL DEF Spec

\* writeSequence: no step takes the sequence ledger back.
THEOREM LedgerNeverGoesBack == Spec => LedgerMonotone
<1>1. RelayInv /\ [Next]_vars => [seqLedger' >= seqLedger]_vars
  <2> SUFFICES ASSUME RelayInv, Next PROVE seqLedger' >= seqLedger
    OBVIOUS
  <2>0. sequence \in Int /\ seqLedger \in Int /\ seqLedger <= sequence
    BY SMTT(40), RelayAssumption DEF RelayInv, TypeOK, Sequences, ExporterInv, ExportInv
  <2>1. seqLedger' \in {seqLedger, sequence}
    <3>1. ASSUME ExporterStep \/ ExporterCrash PROVE seqLedger' \in {seqLedger, sequence}
      BY ZenonT(40), <3>1 DEF ExporterStep, ExporterStart, LoadAttachment, WriteFrame, WriteSequence, AckMessage,
                  ExporterFetch, ExporterCrash
    <3>2. ASSUME ImporterStep \/ ImporterCrash PROVE seqLedger' = seqLedger
      BY ZenonT(40), <3>2 DEF ImporterStep, ImporterStart, ReadDir, Accept, Quarantine, BatchDone,
                  StoreAttachment, Publish, AppendProcessed, Move, ImporterCrash, exporterVars
    <3>3. ASSUME (\E f \in out : Transfer(f)) \/ (\E m \in Messages : Expire(m))
          PROVE  seqLedger' = seqLedger
      BY ZenonT(40), <3>3 DEF Transfer, Expire, exporterVars
    <3>4. QED
      BY ZenonT(40), <3>1, <3>2, <3>3 DEF Next
  <2>2. QED
    BY SMTT(40), <2>0, <2>1
<1>2. QED
  BY <1>1, InitInv, NextInv, PTL DEF Spec, LedgerMonotone
=============================================================================
