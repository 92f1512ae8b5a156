----------------------------- MODULE DiodeRelay -----------------------------
(***************************************************************************)
(* The file relay across a one-way link (diode/relay.go): an exporter      *)
(* turns messages of a durable consumer into signed frame files, an        *)
(* external transfer copies the files, and an importer publishes them on   *)
(* the protected side.  Every durable effect is a step of its own, and     *)
(* either process may stop after any of them and start again from what is  *)
(* on disk.                                                                *)
(***************************************************************************)
EXTENDS Integers, FiniteSets

CONSTANTS
  Messages,     \* messages of the source stream
  NoMessage,
  HashOrder,    \* position of shortHash(ID) of each message in a directory listing
  Attachments,  \* the attachments the initial states range over
  Expiring,     \* messages that carry an expiry time
  MaxDeliver,   \* defaultMaxDeliver of the consumer
  MaxCopies,    \* bound of the publication counter
  MaxFaults     \* bound on failures and crashes

\* What the attachment of a message is like: not required; stored without
\* trouble; refused by storeAttachment every time (no data, or no such bucket);
\* refused by loadAttachment every time (above the limit, or no valid reference);
\* under another bucket or key than the importer expects.
AllAttachments == {"none", "object", "unstorable", "unloadable", "mismatched"}

\* No two messages share the 64 bits of shortHash.
ASSUME RelayAssumption ==
  /\ NoMessage \notin Messages
  /\ IsFiniteSet(Messages)
  /\ HashOrder \in [Messages -> Nat]
  /\ \A m, n \in Messages : HashOrder[m] = HashOrder[n] => m = n
  /\ Attachments \subseteq [Messages -> AllAttachments]
  /\ Expiring \subseteq Messages
  /\ MaxDeliver \in Nat \ {0}
  /\ MaxCopies \in Nat \ {0}
  /\ MaxFaults \in Nat

VARIABLES
  \* the source stream and its consumer (external)
  source,     \* "pending" or "acked"
  tries,      \* deliveries of each message
  \* exporter
  xpc, xmsg,  \* where it is, and the delivery it works on
  sequence,   \* its counter
  seqLedger,  \* the counter on disk
  out,        \* frame files in OutputDir
  \* importer
  ipc,        \* where it is
  batch,      \* directory entries importAvailable still has to handle
  processed,  \* its set of message IDs
  ledger,     \* message IDs on disk
  tail,       \* what follows its last newline: {}, or {m} for the whole ID of
              \* m, or {NoMessage} for any other text
  input, damaged,            \* files in InputDir, and those that do not verify
  processedDir, quarantined, \* where importAvailable moves them
  \* protected side (external)
  stored,     \* messages whose attachment is in the object store
  copies,     \* successful publications of each message, up to MaxCopies
  \* the world
  attach, expired,
  faults,     \* failures and crashes so far
  unrecorded  \* history: published messages whose ledger line was not written

sourceVars   == <<source, tries>>
exporterVars == <<xpc, xmsg, sequence, seqLedger, out>>
dirVars      == <<input, damaged, processedDir, quarantined>>
ledgerVars   == <<processed, ledger, tail, unrecorded>>
targetVars   == <<stored, copies>>
importerVars == <<ipc, batch, dirVars, ledgerVars, targetVars>>
vars == <<sourceVars, exporterVars, importerVars, attach, expired, faults>>

\* Each delivery takes a sequence number, so the counter stays below this.
Sequences == 0 .. MaxDeliver * Cardinality(Messages)

\* A file is named after its sequence number and the hash of its message ID.
Frames == [seq : Sequences, msg : Messages]

\* The order of sort.Slice on the names.
Before(f, h) ==
  f.seq < h.seq \/ (f.seq = h.seq /\ HashOrder[f.msg] < HashOrder[h.msg])

First(files) == CHOOSE f \in files : \A h \in files \ {f} : Before(f, h)

Fault == faults < MaxFaults /\ faults' = faults + 1

-----------------------------------------------------------------------------
Init ==
  /\ source = [m \in Messages |-> "pending"]
  /\ tries = [m \in Messages |-> 0]
  /\ xpc = "down"
  /\ xmsg = NoMessage
  /\ sequence = 0
  /\ seqLedger = 0
  /\ out = {}
  /\ ipc = "down"
  /\ batch = {}
  /\ processed = {}
  /\ ledger = {}
  /\ tail = {}
  /\ input = {}
  /\ damaged = {}
  /\ processedDir = {}
  /\ quarantined = {}
  /\ stored = {}
  /\ copies = [m \in Messages |-> 0]
  /\ attach \in Attachments
  /\ expired = {}
  /\ faults = 0
  /\ unrecorded = {}

-----------------------------------------------------------------------------
(* RunExporter *)

\* Mutant: the counter starts afresh.
ExporterStartAtZero ==
  /\ xpc = "down"
  /\ xpc' = "fetch"
  /\ sequence' = 0
  /\ UNCHANGED <<sourceVars, xmsg, seqLedger, out, importerVars, attach, expired, faults>>

\* The process starts: readSequence.
ExporterStart ==
  /\ xpc = "down"
  /\ xpc' = "fetch"
  /\ sequence' = seqLedger
  /\ UNCHANGED <<sourceVars, xmsg, seqLedger, out, importerVars, attach, expired, faults>>

\* Mutant: the consumer is bound without nats.MaxDeliver.
ExporterFetchUnlimited(m) ==
  /\ xpc = "fetch"
  /\ source[m] = "pending"
  /\ tries' = [tries EXCEPT ![m] = @ + 1]
  /\ xmsg' = m
  /\ sequence' = sequence + 1
  /\ xpc' = "load"
  /\ UNCHANGED <<source, seqLedger, out, importerVars, attach, expired, faults>>

\* A pending message is offered again after a Nak or after its AckWait.
ExporterFetch(m) ==
  /\ xpc = "fetch"
  /\ source[m] = "pending"
  /\ tries[m] < MaxDeliver
  /\ tries' = [tries EXCEPT ![m] = @ + 1]
  /\ xmsg' = m
  /\ sequence' = sequence + 1
  /\ xpc' = "load"
  /\ UNCHANGED <<source, seqLedger, out, importerVars, attach, expired, faults>>

\* delivery.Nak and continue.
HandBack == xpc' = "fetch" /\ xmsg' = NoMessage

\* Mutant: a message without an attachment is handed back.
LoadAttachmentAlways ==
  /\ xpc = "load"
  /\ \/ attach[xmsg] = "object" /\ xpc' = "write" /\ UNCHANGED <<xmsg, faults>>
     \/ attach[xmsg] # "object" /\ HandBack /\ UNCHANGED faults
  /\ UNCHANGED <<sourceVars, sequence, seqLedger, out, importerVars, attach, expired>>

\* loadAttachment: the object must be readable and within the limit.
LoadAttachment ==
  /\ xpc = "load"
  /\ \/ attach[xmsg] # "unloadable" /\ xpc' = "write" /\ UNCHANGED <<xmsg, faults>>
     \/ attach[xmsg] = "unloadable" /\ HandBack /\ UNCHANGED faults
     \/ attach[xmsg] # "none" /\ HandBack /\ Fault
  /\ UNCHANGED <<sourceVars, sequence, seqLedger, out, importerVars, attach, expired>>

\* Mutant: an error of atomicJSON is ignored.
WriteFrameUnchecked ==
  /\ xpc = "write"
  /\ \/ out' = out \cup {[seq |-> sequence, msg |-> xmsg]} /\ xpc' = "ledger" /\ UNCHANGED <<xmsg, faults>>
     \/ UNCHANGED <<out, xmsg>> /\ xpc' = "ledger" /\ Fault
  /\ UNCHANGED <<sourceVars, sequence, seqLedger, importerVars, attach, expired>>

\* atomicJSON of the frame; it may fail before or after the rename.
WriteFrame ==
  /\ xpc = "write"
  /\ \/ out' = out \cup {[seq |-> sequence, msg |-> xmsg]} /\ xpc' = "ledger" /\ UNCHANGED <<xmsg, faults>>
     \/ out' \in {out, out \cup {[seq |-> sequence, msg |-> xmsg]}} /\ HandBack /\ Fault
  /\ UNCHANGED <<sourceVars, sequence, seqLedger, importerVars, attach, expired>>

\* writeSequence, which may fail in the same two ways.
WriteSequence ==
  /\ xpc = "ledger"
  /\ \/ seqLedger' = sequence /\ xpc' = "ack" /\ UNCHANGED <<xmsg, faults>>
     \/ seqLedger' \in {seqLedger, sequence} /\ HandBack /\ Fault
  /\ UNCHANGED <<sourceVars, sequence, out, importerVars, attach, expired>>

\* delivery.Ack is sent without waiting for an answer: it arrives, it is lost, or
\* it cannot be sent and the process ends.
AckMessage ==
  /\ xpc = "ack"
  /\ \/ source' = [source EXCEPT ![xmsg] = "acked"] /\ HandBack /\ UNCHANGED faults
     \/ HandBack /\ Fault /\ UNCHANGED source
     \/ xpc' = "down" /\ xmsg' = NoMessage /\ Fault /\ UNCHANGED source
  /\ UNCHANGED <<tries, sequence, seqLedger, out, importerVars, attach, expired>>

ExporterCrash ==
  /\ xpc # "down"
  /\ xpc' = "down"
  /\ xmsg' = NoMessage
  /\ Fault
  /\ UNCHANGED <<sourceVars, sequence, seqLedger, out, importerVars, attach, expired>>

-----------------------------------------------------------------------------
(* Outside: the transfer between the two directories, and time *)

\* A file arrives, intact or not, once or again.
Transfer(f) ==
  /\ f \in out
  /\ input' = input \cup {f}
  /\ \/ damaged' = damaged \ {f} /\ UNCHANGED faults
     \/ damaged' = damaged \cup {f} /\ Fault
  /\ UNCHANGED <<sourceVars, exporterVars, ipc, batch, processedDir, quarantined,
                 ledgerVars, targetVars, attach, expired>>

Expire(m) ==
  /\ m \in Expiring \ expired
  /\ expired' = expired \cup {m}
  /\ UNCHANGED <<sourceVars, exporterVars, importerVars, attach, faults>>

-----------------------------------------------------------------------------
(* RunImporter and importAvailable *)

\* Mutant: the ledger is not read.
ImporterStartForgetful ==
  /\ ipc = "down"
  /\ ipc' = "scan"
  /\ processed' = {}
  /\ UNCHANGED <<sourceVars, exporterVars, batch, dirVars, ledger, tail, unrecorded, targetVars,
                 attach, expired, faults>>

\* The process starts: readProcessed.
ImporterStart ==
  /\ ipc = "down"
  /\ ipc' = "scan"
  /\ processed' = ledger
  /\ UNCHANGED <<sourceVars, exporterVars, batch, dirVars, ledger, tail, unrecorded, targetVars,
                 attach, expired, faults>>

\* os.ReadDir: the entries are fixed here, their contents are read later.
ReadDir ==
  /\ ipc = "scan"
  /\ batch' = input
  /\ ipc' = "next"
  /\ UNCHANGED <<sourceVars, exporterVars, dirVars, ledgerVars, targetVars, attach, expired, faults>>

Frame == First(batch)

\* An error ends RunImporter, and with it the process.
Exit == ipc' = "down" /\ batch' = {}

\* verifyFrame: checksums and signature are those of the exporter.
Verifies(f) == f \notin damaged

\* validateAttachmentInvariant
AttachmentMatches(m) == attach[m] # "mismatched"

\* What is quarantined.
Unacceptable(f) == ~Verifies(f) \/ f.msg \in expired \/ ~AttachmentMatches(f.msg)

\* The frame is read and checked; a good one with an attachment stores it first.
Accept ==
  /\ ipc = "next"
  /\ batch # {}
  /\ ~Unacceptable(Frame)
  /\ ipc' = IF attach[Frame.msg] = "none" THEN "publish" ELSE "store"
  /\ UNCHANGED <<sourceVars, exporterVars, batch, dirVars, ledgerVars, targetVars, attach, expired, faults>>

\* Mutant: the frame is logged as quarantined and left where it is.
QuarantineInPlace ==
  /\ ipc = "next"
  /\ batch # {}
  /\ Unacceptable(Frame)
  /\ quarantined' = quarantined \cup {Frame}
  /\ batch' = batch \ {Frame}
  /\ UNCHANGED <<sourceVars, exporterVars, ipc, input, damaged, processedDir, ledgerVars, targetVars,
                 attach, expired, faults>>

\* moveDurably to QuarantineDir; the rename may be done when it fails.
SetAside ==
  /\ quarantined' = quarantined \cup {Frame}
  /\ input' = input \ {Frame}
  /\ damaged' = damaged \ {Frame}

\* quarantine, then the next entry.
Quarantine ==
  /\ ipc = "next"
  /\ batch # {}
  /\ Unacceptable(Frame)
  /\ \/ SetAside /\ batch' = batch \ {Frame} /\ UNCHANGED <<ipc, faults>>
     \/ (SetAside \/ UNCHANGED <<quarantined, input, damaged>>) /\ Exit /\ Fault
  /\ UNCHANGED <<sourceVars, exporterVars, processedDir, ledgerVars, targetVars, attach, expired>>

\* The directory is done; the next tick reads it again.
BatchDone ==
  /\ ipc = "next"
  /\ batch = {}
  /\ ipc' = "scan"
  /\ UNCHANGED <<sourceVars, exporterVars, batch, dirVars, ledgerVars, targetVars, attach, expired, faults>>

\* Mutant: a failure to store the attachment is ignored.
StoreAttachmentUnchecked ==
  /\ ipc = "store"
  /\ ipc' = "publish"
  /\ \/ stored' = stored \cup {Frame.msg} /\ UNCHANGED faults
     \/ UNCHANGED stored /\ Fault
  /\ UNCHANGED <<sourceVars, exporterVars, batch, dirVars, ledgerVars, copies, attach, expired>>

StoreAttachment ==
  /\ ipc = "store"
  /\ \/ /\ attach[Frame.msg] # "unstorable"
        /\ stored' = stored \cup {Frame.msg}
        /\ ipc' = "publish"
        /\ UNCHANGED <<batch, faults>>
     \/ attach[Frame.msg] = "unstorable" /\ Exit /\ UNCHANGED <<stored, faults>>
     \/ attach[Frame.msg] # "unstorable" /\ Exit /\ Fault /\ UNCHANGED stored
  /\ UNCHANGED <<sourceVars, exporterVars, dirVars, ledgerVars, copies, attach, expired>>

PublishedOnceMore ==
  copies' = [copies EXCEPT ![Frame.msg] = IF @ < MaxCopies THEN @ + 1 ELSE @]

\* Mutant: an error of Publish is ignored.
PublishUnchecked ==
  /\ ipc = "publish"
  /\ \/ Frame.msg \in processed /\ ipc' = "move" /\ UNCHANGED <<copies, faults>>
     \/ Frame.msg \notin processed /\ PublishedOnceMore /\ ipc' = "append" /\ UNCHANGED faults
     \/ Frame.msg \notin processed /\ ipc' = "append" /\ Fault /\ UNCHANGED copies
  /\ UNCHANGED <<sourceVars, exporterVars, batch, dirVars, ledgerVars, stored, attach, expired>>

\* publisher.Publish; an error may hide a publication that succeeded.
Publish ==
  /\ ipc = "publish"
  /\ \/ Frame.msg \in processed /\ ipc' = "move" /\ UNCHANGED <<batch, copies, unrecorded, faults>>
     \/ /\ Frame.msg \notin processed
        /\ PublishedOnceMore
        /\ ipc' = "append"
        /\ UNCHANGED <<batch, unrecorded, faults>>
     \/ Frame.msg \notin processed /\ Exit /\ Fault /\ UNCHANGED <<copies, unrecorded>>
     \/ /\ Frame.msg \notin processed
        /\ PublishedOnceMore
        /\ unrecorded' = unrecorded \cup {Frame.msg}
        /\ Exit
        /\ Fault
  /\ UNCHANGED <<sourceVars, exporterVars, dirVars, processed, ledger, tail, stored, attach, expired>>

\* What is written after an unended line makes one line with it, in which both
\* are lost; readProcessed takes an unended last line for an ID.
Lose == unrecorded' = unrecorded \cup {Frame.msg} \cup (tail \ {NoMessage})

LineWritten ==
  /\ tail' = {}
  /\ \/ tail = {} /\ ledger' = ledger \cup {Frame.msg} /\ UNCHANGED unrecorded
     \/ tail # {} /\ ledger' = ledger \ tail /\ Lose

LineUnended ==
  \/ tail = {} /\ tail' = {Frame.msg} /\ ledger' = ledger \cup {Frame.msg} /\ UNCHANGED unrecorded
  \/ tail' = {NoMessage} /\ ledger' = ledger \ tail /\ Lose

LineMissing ==
  /\ unrecorded' = unrecorded \cup {Frame.msg}
  /\ UNCHANGED <<ledger, tail>>

\* appendProcessed; it may fail before, in the midst of or after the line.
AppendProcessed ==
  /\ ipc = "append"
  /\ \/ LineWritten /\ processed' = processed \cup {Frame.msg} /\ ipc' = "move" /\ UNCHANGED <<batch, faults>>
     \/ /\ LineWritten \/ LineUnended \/ LineMissing
        /\ Exit
        /\ Fault
        /\ UNCHANGED processed
  /\ UNCHANGED <<sourceVars, exporterVars, dirVars, targetVars, attach, expired>>

\* moveDurably to ProcessedDir; the rename may be done when it fails.
Moved ==
  /\ processedDir' = processedDir \cup {Frame}
  /\ input' = input \ {Frame}
  /\ damaged' = damaged \ {Frame}

Move ==
  /\ ipc = "move"
  /\ \/ Moved /\ batch' = batch \ {Frame} /\ ipc' = "next" /\ UNCHANGED faults
     \/ (Moved \/ UNCHANGED <<processedDir, input, damaged>>) /\ Exit /\ Fault
  /\ UNCHANGED <<sourceVars, exporterVars, quarantined, ledgerVars, targetVars, attach, expired>>

ImporterCrash ==
  /\ ipc # "down"
  /\ Exit
  /\ Fault
  /\ unrecorded' = IF ipc = "append" THEN unrecorded \cup {Frame.msg} ELSE unrecorded
  /\ UNCHANGED <<sourceVars, exporterVars, dirVars, processed, ledger, tail, targetVars, attach, expired>>

-----------------------------------------------------------------------------
ExporterStep ==
  \/ ExporterStart \/ LoadAttachment \/ WriteFrame \/ WriteSequence \/ AckMessage
  \/ \E m \in Messages : ExporterFetch(m)

ImporterStep ==
  \/ ImporterStart \/ ReadDir \/ Accept \/ Quarantine \/ BatchDone
  \/ StoreAttachment \/ Publish \/ AppendProcessed \/ Move

Next ==
  \/ ExporterStep \/ ExporterCrash
  \/ ImporterStep \/ ImporterCrash
  \/ \E f \in out : Transfer(f)
  \/ \E m \in Messages : Expire(m)

Spec == Init /\ [][Next]_vars

\* Both processes are restarted when they end and keep taking steps.
FairSpec == Spec /\ WF_vars(ExporterStep) /\ WF_vars(ImporterStep)

-----------------------------------------------------------------------------
(* Properties *)

\* Type invariant; in particular the sequence counter and the number of
\* deliveries stay within what MaxDeliver allows.
TypeOK ==
  /\ source \in [Messages -> {"pending", "acked"}]
  /\ tries \in [Messages -> 0 .. MaxDeliver]
  /\ xpc \in {"down", "fetch", "load", "write", "ledger", "ack"}
  /\ xmsg \in Messages \cup {NoMessage}
  /\ sequence \in Sequences
  /\ seqLedger \in Sequences
  /\ out \subseteq Frames
  /\ ipc \in {"down", "scan", "next", "store", "publish", "append", "move"}
  /\ batch \subseteq Frames
  /\ processed \subseteq Messages
  /\ ledger \subseteq Messages
  /\ tail \in {{}} \cup {{m} : m \in Messages \cup {NoMessage}}
  /\ input \subseteq Frames
  /\ damaged \subseteq input
  /\ processedDir \subseteq Frames
  /\ quarantined \subseteq Frames
  /\ stored \subseteq Messages
  /\ copies \in [Messages -> 0 .. MaxCopies]
  /\ attach \in [Messages -> AllAttachments]
  /\ expired \subseteq Messages
  /\ faults \in 0 .. MaxFaults
  /\ unrecorded \subseteq Messages

\* A message is acknowledged at the source only when a frame of it is on disk and
\* the ledger has passed that frame's number: no crash loses it or reuses it.
AckedMeansExported ==
  \A m \in Messages : source[m] = "acked" =>
    \E f \in out : f.msg = m /\ f.seq <= seqLedger

\* A message leaves no frame behind only if its attachment cannot be loaded
\* or every one of its deliveries failed: the exporter gives nothing up by itself.
UnexportedOnlyIfAlwaysFailing ==
  \A m \in Messages :
    tries[m] = MaxDeliver /\ xmsg # m /\ attach[m] # "unloadable" /\ (\A f \in out : f.msg # m)
      => faults >= MaxDeliver

\* The sequence ledger never goes back, whatever crashes and failed writes lie
\* between two runs of the exporter.
LedgerMonotone == [][seqLedger' >= seqLedger]_vars

\* The object a message refers to is stored before the message is published.
StoredBeforePublished ==
  \A m \in Messages : copies[m] > 0 /\ attach[m] # "none" => m \in stored

\* A frame is filed as processed, and its message recorded, only after the message
\* was published: a failure anywhere leaves the frame in the input directory.
ProcessedMeansPublished ==
  /\ \A f \in processedDir : copies[f.msg] > 0
  /\ \A m \in ledger : copies[m] > 0

\* A message is published a second time only if the importer was stopped between
\* publishing and recording it, or its record was lost in an unended line.
RepublishedOnlyIfUnrecorded ==
  \A m \in Messages : copies[m] > 1 => m \in unrecorded

\* Every frame whose attachment can be stored eventually leaves the input directory
\* once failures cease: an invalid one is set aside and holds up none behind it.
InputDrained ==
  \A f \in Frames : f \in input /\ attach[f.msg] # "unstorable" ~> f \notin input
=============================================================================
