---------------------------- MODULE ResultUpload ----------------------------
(***************************************************************************)
(* The way back of a deployment: a Job posts its result and its encrypted  *)
(* logs to the gateway (cmd/runner/main.go, gatewayapi/client.go), spools  *)
(* what it cannot post in the outbox directory of the edge mode            *)
(* (gatewayapi/outbox.go), a flusher process posts the spooled files, and  *)
(* the gateway stores results as events and logs as an object that an      *)
(* event announces (gateway/server.go, backend.go).                        *)
(*                                                                         *)
(* A run is one execution of a deployment's Job; Kubernetes may start a    *)
(* Job's program more than once, so a deployment has one or more runs.     *)
(* The content of an upload is the run that made it.  The directory is     *)
(* shared by all Jobs and flushers; the mutex of an Outbox is not.         *)
(***************************************************************************)
EXTENDS Naturals, FiniteSets

CONSTANTS
  Runs,           \* executions of deployment Jobs
  Deployments,    \* the deployments they belong to
  DeploymentOf,   \* [Runs -> Deployments]
  Flushers,       \* outbox-flush processes (two while one is rolled over)
  NoRun,          \* no file, no object
  NoClient,       \* the caller of a request has given up
  NameOrder,      \* [Names -> Nat], the order of the hashed file names
  RefusedChoices, \* the sets of uploads that the gateway never accepts
  EdgeChoices,    \* with an outbox directory (TRUE), without (FALSE)
  MaxFaults       \* lost calls, killed processes and failed writes

Kinds   == {"result", "logs"}
Clients == Runs \cup Flushers
RunsOf(d) == {r \in Runs : DeploymentOf[r] = d}

\* An outbox file name: the hash of kind, organization, runner, deployment.
\* The event ID of an upload has the same parts, so names serve as both.
Names == Kinds \X Deployments
NameOf(k, r) == <<k, DeploymentOf[r]>>

Uploads == [kind : Kinds, run : Runs]

ASSUME UploadAssumption ==
  /\ IsFiniteSet(Runs)
  /\ DeploymentOf \in [Runs -> Deployments]
  /\ Runs \cap Flushers = {}
  /\ NoRun \notin Runs
  /\ NoClient \notin Clients
  /\ NameOrder \in [Names -> Nat]
  /\ \A m, n \in Names : NameOrder[m] = NameOrder[n] => m = n
  /\ RefusedChoices \subseteq SUBSET Uploads
  /\ EdgeChoices \subseteq BOOLEAN
  /\ MaxFaults \in Nat

VARIABLES
  \* chosen once
  edge,      \* RUNNER_GATEWAY_OUTBOX_DIR is set
  refused,   \* too large, not JSON, or with a token the gateway rejects
  \* Jobs, each
  pc,        \* where the process is
  doing,     \* the upload it is busy with
  accepted,  \* uploads that PostResults and PutLogs reported as done
  \* the shared directory and the flushers, each
  outbox,    \* content of each file, NoRun when absent
  fpc,       \* where the flusher is
  queue,     \* file names its ReadDir returned and it has not treated
  \* calls
  reply,     \* the answer each client waits for
  requests,  \* calls the gateway has not finished
  \* gateway
  objects,   \* log object of each deployment
  events,    \* contents stored under each event ID
  window,    \* event IDs the stream still recognises as duplicates
  \* bound
  faults

choiceVars  == <<edge, refused>>
jobVars     == <<pc, doing, accepted>>
flusherVars == <<fpc, queue>>
streamVars  == <<events, window>>
vars == <<choiceVars, jobVars, outbox, flusherVars, reply, requests, objects, streamVars, faults>>

Requests ==
  [from : Clients \cup {NoClient}, kind : Kinds, run : Runs,
   stage : {"received", "stored", "oversize"}]

Upload(k, r) == [kind |-> k, run |-> r]

Init ==
  /\ edge \in EdgeChoices
  /\ refused \in RefusedChoices
  /\ pc = [r \in Runs |-> "execute"]
  /\ doing = [r \in Runs |-> "result"]
  /\ accepted = [r \in Runs |-> {}]
  /\ outbox = [n \in Names |-> NoRun]
  /\ fpc = [f \in Flushers |-> "idle"]
  /\ queue = [f \in Flushers |-> {}]
  /\ reply = [c \in Clients |-> "none"]
  /\ requests = {}
  /\ objects = [d \in Deployments |-> NoRun]
  /\ events = [n \in Names |-> {}]
  /\ window = {}
  /\ faults = 0

-----------------------------------------------------------------------------
(* Client.PostResults and Client.PutLogs *)

Fault == faults < MaxFaults /\ faults' = faults + 1

\* The request is sent; a refused connection or a cancelled context (SIGTERM)
\* fails the call at once.
Send(c, k, r) ==
  \/ /\ requests' = requests \cup {[from |-> c, kind |-> k, run |-> r, stage |-> "received"]}
     /\ reply' = [reply EXCEPT ![c] = "none"]
     /\ UNCHANGED faults
  \/ /\ Fault
     /\ reply' = [reply EXCEPT ![c] = "error"]
     /\ UNCHANGED requests

\* The caller is gone; the gateway may serve what it sent all the same.
Orphan(c) == {IF q.from = c THEN [q EXCEPT !.from = NoClient] ELSE q : q \in requests}

\* Timeout, reset connection or cancelled context while the call is under way.
GiveUp(c) ==
  /\ \E q \in requests : q.from = c
  /\ Fault
  /\ requests' = Orphan(c)
  /\ reply' = [reply EXCEPT ![c] = "error"]
  /\ UNCHANGED <<choiceVars, jobVars, outbox, flusherVars, objects, streamVars>>

\* The gateway finishes q; expectStatus turns any other status into an error.
Answer(q, answer) ==
  /\ requests' = requests \ {q}
  /\ reply' = IF q.from = NoClient THEN reply ELSE [reply EXCEPT ![q.from] = answer]

-----------------------------------------------------------------------------
(* A Job: mainInner's standard mode after the execution, then main *)

\* What follows an upload that ended with ok: main's exit code 1 for a failed
\* result comes after the log upload, and a failed log upload is only logged.
Finish(r, ok) ==
  /\ accepted' = [accepted EXCEPT ![r] = IF ok THEN @ \cup {doing[r]} ELSE @]
  /\ pc' = [pc EXCEPT ![r] = IF doing[r] = "result" THEN "result done" ELSE "exited"]

\* publishDeploymentResultToGateway: the direct attempt, or an error when the
\* client or the outbox directory cannot be set up.
PostResults(r) ==
  /\ pc[r] = "execute"
  /\ \/ pc' = [pc EXCEPT ![r] = "posting"] /\ Send(r, "result", r) /\ UNCHANGED accepted
     \/ Fault /\ Finish(r, FALSE) /\ UNCHANGED <<reply, requests>>
  /\ UNCHANGED <<choiceVars, doing, outbox, flusherVars, objects, streamVars>>

\* uploadLogsToGateway, the direct attempt; there is no uploader without a
\* key, and it gives up without an environment or when encryption fails.
PutLogs(r) ==
  /\ pc[r] = "result done"
  /\ \/ pc' = [pc EXCEPT ![r] = "posting"] /\ doing' = [doing EXCEPT ![r] = "logs"] /\ Send(r, "logs", r)
     \/ pc' = [pc EXCEPT ![r] = "exited"] /\ UNCHANGED <<doing, reply, requests, faults>>
  /\ UNCHANGED <<choiceVars, accepted, outbox, flusherVars, objects, streamVars>>

\* The direct call returns: any error sends an edge runner to the outbox.
DirectReturns(r) ==
  /\ pc[r] = "posting" /\ reply[r] # "none"
  /\ reply' = [reply EXCEPT ![r] = "none"]
  /\ IF reply[r] = "error" /\ edge
     THEN pc' = [pc EXCEPT ![r] = "storing"] /\ UNCHANGED accepted
     ELSE Finish(r, reply[r] = "ok")
  /\ UNCHANGED <<choiceVars, doing, outbox, flusherVars, requests, objects, streamVars, faults>>

\* Mutant: an upload counts as stored before the rename.
StoreWithoutRename(r) ==
  /\ pc[r] = "storing"
  /\ Finish(r, TRUE)
  /\ \/ outbox' = [outbox EXCEPT ![NameOf(doing[r], r)] = r] /\ UNCHANGED faults
     \/ Fault /\ UNCHANGED outbox
  /\ UNCHANGED <<choiceVars, doing, flusherVars, reply, requests, objects, streamVars>>

\* Outbox.store writes a temporary file and renames it over an older file of
\* the name.  A failure before the rename leaves the directory as it was; a
\* failed sync after it reports an error although the file is there.
Store(r) ==
  LET renamed == [outbox EXCEPT ![NameOf(doing[r], r)] = r] IN
  /\ pc[r] = "storing"
  /\ \/ outbox' = renamed /\ Finish(r, TRUE) /\ UNCHANGED faults
     \/ Fault /\ outbox' \in {outbox, renamed} /\ Finish(r, FALSE)
  /\ UNCHANGED <<choiceVars, doing, flusherVars, reply, requests, objects, streamVars>>

\* The pod is killed without notice; a context cancelled by SIGTERM only
\* fails the calls, see Send and GiveUp.
KillJob(r) ==
  /\ pc[r] \in {"posting", "storing", "result done"}
  /\ Fault
  /\ pc' = [pc EXCEPT ![r] = "killed"]
  /\ requests' = Orphan(r)
  /\ reply' = [reply EXCEPT ![r] = "none"]
  /\ UNCHANGED <<choiceVars, doing, accepted, outbox, flusherVars, objects, streamVars>>

-----------------------------------------------------------------------------
(* A flusher: runOutboxFlusher calling Outbox.Flush every five seconds *)

\* Mutant: an error of a pass ends the flusher.
EndPassReturning(f) ==
  /\ fpc' = [fpc EXCEPT ![f] = IF queue[f] = {} THEN "idle" ELSE "returned"]
  /\ queue' = [queue EXCEPT ![f] = {}]

\* The pass ends, with or without an error; the next tick starts another.
EndPass(f) ==
  /\ fpc' = [fpc EXCEPT ![f] = "idle"]
  /\ queue' = [queue EXCEPT ![f] = {}]

\* Mutant: entries are not sorted by name.
FirstUnsorted(names) == CHOOSE n \in names : \A m \in names : NameOrder[n] >= NameOrder[m]

First(names) == CHOOSE n \in names : \A m \in names : NameOrder[n] <= NameOrder[m]

FlushTick(f) ==
  /\ edge
  /\ fpc[f] = "idle"
  /\ \E n \in Names : outbox[n] # NoRun
  /\ fpc' = [fpc EXCEPT ![f] = "next"]
  /\ queue' = [queue EXCEPT ![f] = {n \in Names : outbox[n] # NoRun}]
  /\ UNCHANGED <<choiceVars, jobVars, outbox, reply, requests, objects, streamVars, faults>>

\* The next file in name order is read and posted; a file that another
\* flusher has removed meanwhile, that cannot be read or decoded, or that
\* another runner wrote ends the pass.
FlushNext(f) ==
  LET n == First(queue[f]) IN
  /\ fpc[f] = "next"
  /\ \/ /\ queue[f] # {} => outbox[n] = NoRun
        /\ EndPass(f)
        /\ UNCHANGED <<reply, requests, faults>>
     \/ /\ queue[f] # {} /\ outbox[n] # NoRun
        /\ fpc' = [fpc EXCEPT ![f] = "posting"]
        /\ Send(f, n[1], outbox[n])
        /\ UNCHANGED queue
     \/ Fault /\ EndPass(f) /\ UNCHANGED <<reply, requests>>
  /\ UNCHANGED <<choiceVars, jobVars, outbox, objects, streamVars>>

\* Mutant: a file is removed whatever the gateway answered.
FlushReturnsRegardless(f) ==
  /\ fpc[f] = "posting" /\ reply[f] # "none"
  /\ reply' = [reply EXCEPT ![f] = "none"]
  /\ fpc' = [fpc EXCEPT ![f] = "removing"]
  /\ UNCHANGED <<choiceVars, jobVars, outbox, queue, requests, objects, streamVars, faults>>

\* The call returns; any error ends the pass at this file.
FlushReturns(f) ==
  /\ fpc[f] = "posting" /\ reply[f] # "none"
  /\ reply' = [reply EXCEPT ![f] = "none"]
  /\ IF reply[f] = "ok"
     THEN fpc' = [fpc EXCEPT ![f] = "removing"] /\ UNCHANGED queue
     ELSE EndPass(f)
  /\ UNCHANGED <<choiceVars, jobVars, outbox, requests, objects, streamVars, faults>>

\* os.Remove takes the file by its name, whatever it holds by now; a missing
\* file or a failed directory sync ends the pass.
FlushRemove(f) ==
  LET n == First(queue[f]) IN
  /\ fpc[f] = "removing"
  /\ outbox' = [outbox EXCEPT ![n] = NoRun]
  /\ \/ /\ outbox[n] # NoRun
        /\ fpc' = [fpc EXCEPT ![f] = "next"]
        /\ queue' = [queue EXCEPT ![f] = @ \ {n}]
        /\ UNCHANGED faults
     \/ outbox[n] = NoRun /\ EndPass(f) /\ UNCHANGED faults
     \/ Fault /\ EndPass(f)
  /\ UNCHANGED <<choiceVars, jobVars, reply, requests, objects, streamVars>>

\* The flusher pod stops and a new one starts.
RestartFlusher(f) ==
  /\ fpc[f] # "idle"
  /\ Fault
  /\ EndPass(f)
  /\ requests' = Orphan(f)
  /\ reply' = [reply EXCEPT ![f] = "none"]
  /\ UNCHANGED <<choiceVars, jobVars, outbox, objects, streamVars>>

-----------------------------------------------------------------------------
(* The gateway *)

Refused(q) == Upload(q.kind, q.run) \in refused

\* The stream stores one message for an event ID within its window and
\* acknowledges the others as duplicates.
Publish(n, r) ==
  /\ events' = IF n \in window THEN events ELSE [events EXCEPT ![n] = @ \cup {r}]
  /\ window' = window \cup {n}

\* postResults
ServeResult(q) ==
  /\ q.kind = "result"
  /\ IF Refused(q)
     THEN Answer(q, "error") /\ UNCHANGED streamVars
     ELSE Answer(q, "ok") /\ Publish(NameOf("result", q.run), q.run)
  /\ UNCHANGED <<choiceVars, jobVars, outbox, flusherVars, objects, faults>>

\* putLogs with a token or an environment that it does not take: nothing is
\* stored.
RefuseLog(q) ==
  /\ q.kind = "logs" /\ q.stage = "received"
  /\ Refused(q)
  /\ Answer(q, "error")
  /\ UNCHANGED <<choiceVars, jobVars, outbox, flusherVars, objects, streamVars, faults>>

\* Mutant: the size of a stored object is not looked at.
PutLogUnbounded(q) ==
  /\ q.kind = "logs" /\ q.stage = "received"
  /\ objects' = [objects EXCEPT ![DeploymentOf[q.run]] = q.run]
  /\ requests' = (requests \ {q}) \cup {[q EXCEPT !.stage = "stored"]}
  /\ UNCHANGED <<choiceVars, jobVars, outbox, flusherVars, reply, streamVars, faults>>

\* putLogs up to the size check: the object of the deployment is overwritten
\* before its size is known.
PutLog(q) ==
  /\ q.kind = "logs" /\ q.stage = "received"
  /\ objects' = [objects EXCEPT ![DeploymentOf[q.run]] = q.run]
  /\ requests' = (requests \ {q}) \cup {[q EXCEPT !.stage = IF Refused(q) THEN "oversize" ELSE "stored"]}
  /\ UNCHANGED <<choiceVars, jobVars, outbox, flusherVars, reply, streamVars, faults>>

\* putLogs with an object over the limit: a failed deletion is ignored.
DeleteLog(q) ==
  /\ q.stage = "oversize"
  /\ \/ objects' = [objects EXCEPT ![DeploymentOf[q.run]] = NoRun] /\ UNCHANGED faults
     \/ Fault /\ UNCHANGED objects
  /\ Answer(q, "error")
  /\ UNCHANGED <<choiceVars, jobVars, outbox, flusherVars, streamVars>>

\* putLogs with a stored object: the event that names it.
AnnounceLog(q) ==
  /\ q.stage = "stored"
  /\ Publish(NameOf("logs", q.run), q.run)
  /\ Answer(q, "ok")
  /\ UNCHANGED <<choiceVars, jobVars, outbox, flusherVars, objects, faults>>

\* The object store or the stream fails: status 503, a stored object stays.
BackendFails(q) ==
  /\ q.from # NoClient
  /\ q.stage # "oversize"
  /\ Fault
  /\ Answer(q, "error")
  /\ UNCHANGED <<choiceVars, jobVars, outbox, flusherVars, objects, streamVars>>

\* Mutant: a request that is not finished takes its log object with it.
DropRequestAndObject(q) ==
  /\ q.from = NoClient
  /\ requests' = requests \ {q}
  /\ objects' = IF q.stage = "received" THEN objects ELSE [objects EXCEPT ![DeploymentOf[q.run]] = NoRun]
  /\ UNCHANGED <<choiceVars, jobVars, outbox, flusherVars, reply, streamVars, faults>>

\* The gateway stops, or notices that the caller is gone, before q is done.
DropRequest(q) ==
  /\ q.from = NoClient
  /\ requests' = requests \ {q}
  /\ UNCHANGED <<choiceVars, jobVars, outbox, flusherVars, reply, objects, streamVars, faults>>

\* The stream forgets an event ID once its duplicate window has passed.
ForgetEventID(n) ==
  /\ n \in window
  /\ window' = window \ {n}
  /\ UNCHANGED <<choiceVars, jobVars, outbox, flusherVars, reply, requests, objects, events, faults>>

-----------------------------------------------------------------------------
Job(r) == PostResults(r) \/ PutLogs(r) \/ DirectReturns(r) \/ Store(r)

Flusher(f) == FlushTick(f) \/ FlushNext(f) \/ FlushReturns(f) \/ FlushRemove(f)

Serve(q) == ServeResult(q) \/ RefuseLog(q) \/ PutLog(q) \/ DeleteLog(q) \/ AnnounceLog(q)

Next ==
  \/ \E r \in Runs : Job(r) \/ KillJob(r)
  \/ \E f \in Flushers : Flusher(f) \/ RestartFlusher(f)
  \/ \E c \in Clients : GiveUp(c)
  \/ \E q \in requests : Serve(q) \/ BackendFails(q) \/ DropRequest(q)
  \/ \E n \in Names : ForgetEventID(n)

\* A flusher that is not stopped goes on with its pass and ticks again, and
\* the gateway serves the calls of clients that wait for them.
Fairness ==
  /\ \A f \in Flushers : WF_vars(Flusher(f))
  /\ \A f \in Flushers : WF_vars(\E q \in requests : q.from = f /\ Serve(q))

Spec == Init /\ [][Next]_vars /\ Fairness

-----------------------------------------------------------------------------
(* Properties *)

\* Every variable holds a value of its kind.
TypeOK ==
  /\ edge \in BOOLEAN
  /\ refused \subseteq Uploads
  /\ pc \in [Runs -> {"execute", "posting", "storing", "result done", "exited", "killed"}]
  /\ doing \in [Runs -> Kinds]
  /\ accepted \in [Runs -> SUBSET Kinds]
  /\ outbox \in [Names -> Runs \cup {NoRun}]
  /\ fpc \in [Flushers -> {"idle", "next", "posting", "removing"}]
  /\ queue \in [Flushers -> SUBSET Names]
  /\ reply \in [Clients -> {"none", "ok", "error"}]
  /\ requests \subseteq Requests
  /\ objects \in [Deployments -> Runs \cup {NoRun}]
  /\ events \in [Names -> SUBSET Runs]
  /\ window \subseteq Names
  /\ faults \in Nat

\* Some run's upload of this name is in the stream, or waits in the outbox.
Kept(n) == \E r \in RunsOf(n[2]) : r \in events[n] \/ outbox[n] = r

\* An upload that PostResults or PutLogs reported as done is never lost: the
\* stream has it, or the outbox has it, or the one of another run of the same
\* deployment that took its place (Outbox.store renames over it, Outbox.Flush
\* removes by name, the stream drops duplicates).  With one run per
\* deployment it is that very upload, whatever flushers, killed pods, lost
\* answers and failed writes do.
AcceptedIsKept ==
  \A r \in Runs : \A k \in accepted[r] : Kept(NameOf(k, r))

\* A log object that an event announced stays as announced unless a second
\* run of the deployment uploads its own, and disappears only if a run's
\* logs exceed the limit (putLogs overwrites the object before it knows the
\* size, and deletes it by the deployment's key).
AnnouncedLogIntact ==
  \A d \in Deployments :
    LET announced == events[<<"logs", d>>]
        uploading == {r \in RunsOf(d) : doing[r] = "logs"}
    IN /\ announced \subseteq {objects[d]} \/ Cardinality(uploading) > 1
       /\ announced # {} /\ objects[d] = NoRun => \E r \in uploading : Upload("logs", r) \in refused

\* A run's upload that the gateway refuses is never in the stream: neither a
\* bad result nor the reference to an oversized log is published, and no
\* refused file leaves the outbox by a flusher's hand unless another run of
\* the deployment was accepted.
RefusedStaysOut ==
  \A u \in refused :
    LET n == NameOf(u.kind, u.run) IN
    /\ u.run \notin events[n]
    /\ u.kind \in accepted[u.run] /\ outbox[n] # u.run =>
         \E p \in RunsOf(n[2]) \ {u.run} : p \in events[n] \/ outbox[n] = p

\* Names of files that may hold an upload the gateway refuses.
Blocking == {NameOf(u.kind, u.run) : u \in refused}

\* A spooled file is removed in the end if no file before it in name order,
\* itself included, can hold a refused upload; Outbox.Flush stops at the
\* first file it cannot post, so nothing is promised for the files behind.
SpooledDelivered ==
  \A n \in Names :
    (outbox[n] # NoRun /\ \A m \in Blocking : NameOrder[n] < NameOrder[m]) ~> (outbox[n] = NoRun)

\* How far the upload of a name has come, and the names Jobs were told of.
Progress(n) == IF events[n] # {} THEN "arrived" ELSE IF outbox[n] # NoRun THEN "waiting" ELSE "open"
Told == {n \in Names : \E r \in RunsOf(n[2]) : n[1] \in accepted[r]}

Delivery == INSTANCE ResultDelivery WITH state <- [n \in Names |-> Progress(n)], promised <- Told

\* The upload path implements ResultDelivery: an upload only moves forward from
\* nowhere to the outbox to the stream, and a Job is told that it is done only
\* when it waits or has arrived.
ImplementsDelivery == Delivery!Spec
=============================================================================
