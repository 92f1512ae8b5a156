# Verification of the platform orchestrator runner

TLA+ models of the runner's protocols, checked with TLC on small instances; their safety
properties are proved with TLAPS for every value of the constants. `PROJECT.json`
lists the components, runs, mutants, findings, hazards and theorems, and maps each
definition to the lines of `src/` it models.

## The system

| Part | Source | Model |
| --- | --- | --- |
| Remote agent: polls for commands, creates Jobs, reports | `internal/executor/remote_executor.go` | `CommandDelivery`, `JobMonitor`, `StartupRules` |
| Gateway command endpoints: hand out, acknowledge, retry, reject | `internal/gateway/server.go`, `backend.go`, `receipt.go` | `CommandDelivery` |
| NATS transport: pull consumer, publisher | `internal/natstransport/transport.go` | `CommandDelivery` |
| Gateway client | `internal/gatewayapi/client.go` | `CommandDelivery`, `ResultUpload`, `JobExecution` |
| Gateway results, logs and bundles | `internal/gateway/server.go`, `backend.go` | `ResultUpload`, `JobExecution`, `StreamRules` |
| Edge outbox and its flusher | `internal/gatewayapi/outbox.go`, `cmd/runner/main.go` | `ResultUpload` |
| Gateway process: tokens, public keys, long polls, stop | `internal/gateway/keys.go`, `internal/gatewayapi/auth.go`, `cmd/runner/main.go` | `GatewayAccess` |
| Job scheduling monitor | `internal/executor/remote_executor.go`, `internal/kubernetesjob` | `JobMonitor`, `KubernetesJob` |
| Standard mode, observation, exit code, ssh agent | `internal/executor`, `internal/sshagent`, `cmd/runner` | `JobExecution`, `KubernetesJob` |
| IaC runner, log buffer | `internal/runner`, `internal/limitedlogsbuffer` | `JobExecution`, `StreamRules`, `PlanRules` |
| Configuration of all processes | `internal/config`, `cmd/runner/main.go` | `StartupRules` |
| Release gates | `scripts/vendorcheck`, `scripts/noticecheck` | `ReleaseGates` |
| Diode exporter and importer | `internal/diode/relay.go` | `DiodeRelay` |

A command is published to a JetStream work queue. The gateway keeps no state of a delivery: it
fetches a delivery for an authenticated agent and seals what it needs to settle
that delivery later (the ack subject and stream sequence) into a receipt that is
valid for 90 seconds. The agent creates a Kubernetes Job, publishes `job-created`,
and acknowledges with the receipt; on errors it publishes a runner error and asks
for a retry, or rejects the command, upon which the gateway stores a dead letter
copy and terminates the message. An unsettled message is delivered again after two
minutes, ten times at most. In air-gapped installations, commands and events cross
a one-way link as signed files written and read by the diode relay.

The Job runs the standard mode: it downloads its bundle from the gateway, verifies the
modules against the artifact manifest, plans, applies or destroys, and posts result and
encrypted logs to the gateway. In an edge installation what cannot be posted is spooled in
a directory that an `outbox-flush` process empties. Meanwhile a goroutine of the agent
watches whether the Job's Pod starts.

## Modules

| Module | Role |
| --- | --- |
| `CommandOutcome` | what the control plane may rely on about a command |
| `CommandDelivery` | consumer, gateway and agents in detail |
| `DiodeRelay` | exporter, transfer and importer |
| `ResultDelivery` | what a Job may rely on about an upload |
| `ResultUpload` | Jobs, outbox, flushers and gateway in detail |
| `GatewayAccess` | the gateway process and the agents it lets in |
| `JobExecution` | the program of a Job |
| `JobMonitor` | the goroutine that watches a Job |
| `KubernetesJob` | the two composed with a cluster |
| `Reading` | how an algorithm reads a document piece by piece |
| `StreamRules`, `PlanRules`, `ReleaseGates`, `StartupRules` | the algorithms, and what they are for |
| `Documents` | those four side by side |
| `CommandDeliveryProofs`, `ResultUploadProofs`, `GatewayAccessProofs`, `DiodeRelayProofs`, `KubernetesJobProofs` | theorems about the module each is named after |
| `DocumentProofs`, `RunProofs`, `GateProofs` | theorems about `StreamRules`; `PlanRules` and `StartupRules`; `ReleaseGates` |
| `MC...` | constants for TLC |

Operators whose comment begins with "Mutant:" are not part of the model. Each is a
wrong version of the definition that follows it; put in its place, it must violate
the property that PROJECT.json names.

### CommandDelivery

`msg`, `delivered` and `redeliverIn` are the JetStream consumer as
`NewRunnerConsumer` configures it; `Deliverable` and `Fetch` carry its AckWait and
MaxDeliver, `Exhaust` is the silence after the last delivery. Each HTTP call of an
agent is a record in `requests`. A gateway action serves it (`PostEvent`,
`AcknowledgeCommand`, `RetryCommand`, `RejectCommand`, then `Terminate` for the
+TERM after the dead letter copy), or it is lost (`DropRequest`). The agent may
`GiveUp` on a call at any time, and the gateway may still serve it afterwards: this
is how late and repeated settlements arise. No gateway replica has state of its own,
so any replica may serve any request and none is named.

The agent's `pc` is the call it waits for, or `"poll"`, or `"execute"` when it holds a
command; `RejectUnsupported` to `AfterSettlement` are the branches of
`executeCommand` in its order. `Crash` forgets the delivery and the monitors. `Agents`
is a set because a rolling update of the Deployment overlaps two processes.

The kinds of command are the cases the handlers distinguish: good, addressed to
another runner, wrong protocol version, unsupported type or payload, and incomplete.
Time is a set of countdown timers in ticks of `SecondsPerTick`; real constants are used
(120 s AckWait, 90 s lease, 1 << 6 s backoff, 60 s limit). `hit` is a history variable:
the deliveries disturbed by a lost call, a failure, a crash or a timer that ran out.

Assumptions on what is outside `src/`: -NAK affects only the latest delivery; +ACK and
+TERM of any delivery settle the message; settled messages leave the stream (the
bootstrap chart sets `--retention=work`), so `RejectReceipt` can reload only unsettled
ones; the event stream keeps the first message of an ID. Its duplicate window of ten
minutes is taken as unlimited: a repeated event may in fact be stored twice, which
changes no property here because all speak of an event being stored at all. A Job, once
created, exists; its deletion by a TTL before a redelivery is not modelled.

### DiodeRelay

Each durable effect is a step: attachment read, frame written (`WriteFrame`), sequence
ledger written, source acknowledged; and on the other side directory read, frame
checked, attachment stored, message published, ledger line appended, file moved. Any of
them may fail, before or after its effect where the code allows both, and either
process may crash between any two and start again from what is on disk. An ack is sent
without waiting, so it may be lost. A failed append may leave a line without its end (`tail`).
`readProcessed` takes such a line for an ID when it is a whole one; the next ID is appended to it,
and both are lost. `Transfer` is external: a file may arrive late, damaged,
again, or never. `unrecorded` is a history variable: published messages whose ledger
line was not written.

Signatures and checksums are one bit (`Verifies`). The size limits are equal on both
sides, so an attachment the exporter accepted is not too large for the importer.

### ResultUpload

A run is one execution of a deployment's Job; a replaced Pod gives a deployment a second
run. Each posts its result, then its logs (`PostResults`, `PutLogs`), and goes to the outbox
when the call fails and a directory is configured (`DirectReturns`, `Store`). The content of
an upload is the run that made it; file names and event IDs have the same parts, kind and
deployment, so one set `Names` serves as both. A flusher's pass is `FlushTick` (ReadDir),
`FlushNext` (read and post the first name in hash order), `FlushReturns` and `FlushRemove`,
each a step of its own, so that another flusher or a Job may change the directory in between:
the mutex of an `Outbox` is per process. `putLogs` is three steps, as the object is written
before its size is known and announced after it: `PutLog`, then `DeleteLog` or `AnnounceLog`;
`RefuseLog` is its return before anything is stored. Calls may be lost, given up and served
afterwards; processes are killed; writes fail before or after their effect. The stream drops
an event whose ID it still remembers (`window`), and may forget it at any time.

What the properties say of two runs is what the code gives, not more: one may take the place
of the other in the outbox, in the object store and, within the window, in the stream.

### GatewayAccess

The gateway `Start`s, serves, and on `Terminate` stops accepting until `Shutdown` returns,
when all requests are answered or the grace period is over. A request
`Arrive`s with a token of the agent's clock, resolves the key from the file, the cache or the
control plane (`ResolveKnown`, `Lookup`, `ControlPlaneReads`, `LookupReturns`, the read at a
moment of its own), is verified (`VerifyAgentToken`), waits for the consumer's mutex and fetches. A command that is invalid
or expired is rejected, and the loop of `nextCommand` goes back to the mutex with what is left of the
poll's time (`RejectReturns`).
`RotateKey` registers a key, `RekeyAgent` gives it to the agent, in either order. Timers count
in ticks and carry no date, so behaviours go on for ever. `retired` is a history variable: how
long ago each key was replaced.

### JobExecution, JobMonitor, KubernetesJob

`Steps` is the order of a mode's steps as `ExecuteStandardMode` and `executeObservation` have
them; each may fail and then ends the execution with an error code of its kind. Commands of the tool are
processes of their own: SIGTERM kills one that runs, and its children may hold its output open,
which `WaitDelay` bounds for an observation and nothing bounds for the others. Apply and destroy
may fail half-way. After the execution come result, logs and exit code. The gateway's bundle
endpoint copies a stored object; when the copy breaks off, the response ends without an error,
so `GetBundle` may return a partial archive and only its extraction notices.

The monitor waits `Delay`, then reads Job, Pod and warnings in three steps per round until a
terminal error is published, the Job or its Pod is seen to have started, or the timeout is noticed
between two rounds. A read that fails, also because the Job is gone, is tried again in the next round.
`KubernetesJob` adds the cluster: Pods are created, warned about, started, removed and replaced,
its node is lost and found again (phase Unknown), and the Job's status follows its Pod with a delay.
`sinceRead` is a history variable: the Pod started, or came back into sight, since this round's read of
it. `ErrorNotForSeenPod` states exactly how far the three reads can be trusted. An error can be published
for a Pod that has started meanwhile, but only within the round that read it before.

### The rules

Algorithms over a document are state machines as well. `subject` says which one a behaviour follows,
`document` is what it has been given so far, and `state` its local variables. `Take` (of `Reading`)
reads one piece, which is one pass of the code's loop; `Compute` goes on with what is there. So a
loop, or a recursion, is a sequence of steps, and after every one what the algorithm has is compared
with what it is for:

- `StreamRules`: the first change summary (`ScanLine`) and the last whole error of a tool's output, the
  plan that is shown, the bounded buffers given any chunks (`WriteChunk`), and an uploaded body that
  arrives in any pieces (`PutLog`).
- `PlanRules`: the fields and the changes of an observed plan, the planned outputs, whose recursive
  calls of `compactUnknowns` are a set of places still to be visited, in objects and in lists, the two
  files and the requirements of the manifest, and the entries of the archive.
- `ReleaseGates`: the messages of a scanner report, the tokens of its JSON, where the recursive calls of
  `uniqueValue` are a stack of frames, the notices of a bundle, the fields of a provenance, and the
  nested loops of `command`, whose filtered slice shares its array with the one that is read.
- `StartupRules`: what each process builds from its settings, and the volumes, the mounts and, one after
  the other, the variables that the agent writes into a Job.

Text is reduced to the distinctions the code makes.

Facts of the code that the reference definitions allow for, each as narrowly as it holds:

- noticecheck accepts the licence file of a module nested in another's directory for the outer one as
  well, since it walks the whole directory.
- A configured wait of zero or less becomes 25 s in `NewServer` while the server's write timeout is
  computed from the configured value, so such a poll is cut off before its answer
  (`GatewayAsConfigured` says for exactly which waits).
- A variable that a command's Job names twice keeps the command's last value, because the agent replaces
  the first of a name and Kubernetes uses the last. Volumes and mounts are appended without a look at
  the names that are there, so a Job that uses the agent's names is refused by Kubernetes
  (`JobRunsAsAgent` says when).
- A plan's field may be overridden by a later one whose name is in different case
  (`ObservationComplete` excuses exactly that; the run `hidden_field` shows it).
- A bundle without an artifact manifest is verified (`artifact_verification.go:56`).
- The count that `LimitedLogsBuffer.Write` returns is left out. Its comment (`limitedlogsbuffer.go:26`)
  says that it is the number of bytes passed on, but the code returns the length of what was
  given, or of what was left of it at the limit. The property is about the bytes only.

## Runs

| Run | Shows |
| --- | --- |
| `delivery` | type correctness; `AckedMeansAnnounced`, `TermedMeansDeadLettered`, `LeaseExclusive`, `DroppedOnlyAfterFault`; refinement of `CommandOutcome`; `EventuallySettled` |
| `diode` | type correctness; `AckedMeansExported`, `UnexportedOnlyIfAlwaysFailing`, `StoredBeforePublished`, `ProcessedMeansPublished`, `RepublishedOnlyIfUnrecorded`, `LedgerMonotone` |
| `diode_live` | `InputDrained` |
| `upload` | type correctness; `AcceptedIsKept`, `AnnouncedLogIntact`, `RefusedStaysOut`, `SpooledDelivered`; refinement of `ResultDelivery` |
| `gateway` | type correctness; `KeyFreshness`, `AgentReadmitted`, `PollAnswered` |
| `job` | type correctness; `ResultIsTrue`, `ChangeOnlyByVerifiedPlan`, `ErrorNotForSeenPod`, `StuckReported`, `RunEnds` |
| `rules` | `StreamsReadRight`, `RunDocumentsRight`, `GatesRight`, `SettingsRight` |
| `retry_delay` | violated: from the sixth attempt the agent asks for 64 s, and the endpoint refuses more than 60 s |
| `expired_after_execution` | violated: a command is reported as "expired before execution" although its Job runs |
| `long_reason` | violated: an error above 4096 bytes makes the rejection itself refused; the command is dropped without a dead letter |
| `diode_stuck` | violated: an attachment that can never be stored stops all frames behind it |
| `hidden_field` | violated: a plan that says it is errored is complete if a field in different case says it is not |

Bounds. `delivery` has one command, two agents and two deliveries: enough for a first
delivery to be stale while the second is worked on and for the second to be the last, by
two agents at once. Commands share nothing in the model but an agent's attention, and two
commands are out of TLC's reach. Expiry ranges over never, during the first delivery and
between the deliveries. One tick is 30 s, which keeps lease, AckWait and the retry
delays apart up to rounding. `retry_delay` uses the real ten deliveries and a tick of
120 s, as its property is about seconds and not ticks. `LongReasons` is FALSE except in
`long_reason`, so that `delivery` says what holds otherwise.

`diode` has two messages, two deliveries each and two failures: one failure can tear
apart any two steps, the second hits the recovery, and two are what it takes to make both
deliveries of a message fail. `MaxCopies` is two because the property asks for more than
one. The liveness run delivers each message once: importing is indifferent to how often
it was exported.

`upload` has two runs of one deployment, so that uploads share file, event ID and object, and two
flushers, as while one is rolled over; one fault anywhere. A second deployment would share only the
order of the files, which the two kinds have already. Either nothing is refused or the logs of the
second run are. Jobs may end and the system rest, so deadlock is not checked there, nor in `job`
and `rules`.

`gateway` has two handlers, which is what it takes for a slow lookup to overtake a fast one and for
a poll to wait for the mutex. Cache time, lookup timeout and poll are two ticks, token lifetime
three, skew one; the agent's clock is behind, at the limit or beyond it. Two keys make one rotation,
and one fault is a failed lookup, a client that leaves, a stop, a crash or a failed start.

`job` runs every mode, a deployment with and without key and outbox, and a plan with an unusable logs
key, in up to two Pods. The monitor of a Job sees only that its program started and ended, so it is
followed for the mode with the shortest program; the timeout is four ticks against a delay of one and
an interval of two, which leaves time for two rounds before it, and two faults can spoil both.

`rules` takes each kind of input to the length at which one can be accepted, and one piece further;
limits of bytes, changes and nesting are small so that inputs reach and pass them. The settings of a
process are taken whole. No bound but `MaxLen` is on the documents, and the theorems hold for every value of
it, so they speak of documents of any length.

Fairness. In `delivery` the clock runs, the agent's sequential code goes on, its
HTTP calls end (the client has a timeout of 40 s) and an agent that polls is offered what
is deliverable. Nothing is assumed of the gateway or the network: every call may fail.
In `diode_live` both processes are restarted when they end and go on; `MaxFaults` makes
failures finitely many, without which a process that is always killed before its last
step would never finish.

In `upload` a flusher that is not stopped goes on with its pass and ticks again, and the gateway serves
a flusher that waits; Jobs may stop anywhere. In `gateway` time passes, Kubernetes restarts the gateway,
the agent polls again after each answer, handlers run, and the control plane answers within the lookup's
timeout except in the lookups that `MaxFaults` lets fail: were it down for ever, nobody would be let in.
A fetch ends with its context. The Go mutex starves nobody (its starvation mode hands it over in order), for which `LockConsumer` has strong
fairness. In `job` the program and the monitor's goroutine run, commands of the tool end, and time
passes; nothing is assumed of the cluster. That commands end is an assumption on the tool, as the code
gives them no time limit; `WaitDelay` counts from the cancellation only.

## Proofs

Every safety and action property that a passing run checks is proved for all values of
the constants, as are both refinements. Each proof rests on an inductive invariant; the sections below
say what it adds to the property and why the property alone is not enough.

### CommandDelivery

`CommandDeliveryProofs` proves, for any sets of commands and agents, any delivery limits
and any timing (`DeliveryAssumption` says only that the constants have their types):

- `TypeCorrect`: the type invariant. It needs `Holding` (an agent that is not polling holds
  a delivery), as the calls take their command and attempt from the agent.
- `Invariance`: `DeliveryInv`, the inductive invariant. That a message is acknowledged only
  after its event is stored is not inductive: the acknowledgement is decided when the agent
  sees the answer to its event, travels as a request, and takes effect later, even after
  the agent has forgotten it. The invariant follows that chain: a `job-created` call has
  its Job, an agent told "ok" has its event stored, an `ack` request has its event stored,
  an acknowledged message has its event stored; and likewise dead letter copy, pending
  +TERM, terminated message.
- `AckSafety`, `TermSafety`: the two safety properties, from `DeliveryInv`.
- `Refinement`: `CommandDelivery` implements `CommandOutcome`: every action is a step of it
  or leaves its variables unchanged.

The second part adds what depends on the limits. Here `LimitAssumption` is needed: the lease is
positive and no longer than the AckWait (90 s and 120 s in the code), and the agent counts no more
deliveries than the consumer makes (10 and 10).

- `LeaseIsExclusive`. A receipt is sealed when the consumer's timer starts, so it expires first,
  unless a retry shortens that timer. `HeldInv` rules this out for a delivery that may still be
  acknowledged or rejected: each delivery has one holder and one kind of settlement under way.
  `LeaseInv` then says that such a delivery is the latest, and that the consumer
  waits for it at least as long as its receipt opens.
- `DroppedOnlyUnderFault`. That nothing is dropped without a disturbance needs to know who works on
  the last delivery (`LastInv`), that its receipt opens (`OpenInv`), that it is not handed back
  (`RetryInv`), and that an answered settlement took effect (`SettledInv`). The hypothesis
  `LongReasons = FALSE` cannot be dropped: the run `long_reason` refutes the property without it.

### ResultUpload

`ResultUploadProofs` proves, for any runs, deployments, flushers, refused uploads, order of names and
number of faults (`UploadAssumption`; the set of runs is finite):

- `UploadTypeCorrect` and `UploadsKept` (`AcceptedIsKept`). The latter needs a chain: a Job or flusher
  that was told "ok" has its event in the stream (`ReplyInv`), because the request that was answered is
  the one its program is at (`CallInv`), of which it has one at a time (`RequestInv`), and because an
  ID the stream remembers is of an event it holds (`NamesInv`). So a flusher removes a file only when
  the stream has its name, whatever the file holds by then.
- `RefusedNeverPublished` (`RefusedStaysOut`): what was stored but not announced is within the limit
  (`RequestInv`), and names tell the uploads of one run apart.
- `DeliveryRefined`: the whole implements `ResultDelivery`. Publishing is an arrival or nothing, storing
  a file is waiting, a promise or nothing, and removing one is nothing, as its name has arrived.

That `First` returns one of the names needs that a set of numbers has a least one, from the
well-foundedness of the natural numbers.

The last part proves `AnnouncedLogStays` (`AnnouncedLogIntact`). The object is written before the
event is published and may be overwritten or deleted in between, so the invariant speaks of what is
stored and not yet announced as well: every log in a request, the outbox, the object store or the stream
comes from a run that uploads (`LogSources`), a run that uploads alone finds its own object (`LogAlone`),
and a missing object was deleted as oversized (`LogGone`).

### GatewayAccess

`GatewayAccessProofs` proves, for any number of handlers and keys and any positive times
(`AccessAssumption`):

- `GatewayTypeCorrect` and `KeysStayFresh`. Freshness is not inductive: it says nothing of how much
  longer a key that is in use may be used. `AgeInv` bounds the age of a replaced key by the timers that
  limit its use: in the cache, its age and the time left add up to at most the cache time, which holds
  because `Resolve` takes the expiry from before its request; in a lookup, its age is at most the lookup's.
- `MutexHeldByOneFetch`: the consumer's mutex is held exactly by the poll that fetches. No run checks
  it; it says that every way out of a fetch releases the mutex.

### DiodeRelay

`DiodeRelayProofs` proves all six properties and the types, for any finite set of messages and any number
of deliveries, copies and failures (`RelayAssumption`; the order of file names tells messages apart).
The type of the exporter's counter already needs an argument: every delivery raises it by one at most, so
it is bounded by the number of deliveries made (`CounterInv`). `ExportInv` says what is on disk at each
step of the exporter, `GivenUpInv` that a message without a frame met a failure in each delivery that
is over, `ImportInv` what the importer has done at each of its steps, and `RecordInv`
that a published message is in the ledger, about to be, or known to be missing there.

### KubernetesJob

`KubernetesJobProofs` proves, for any configurations, number of Pods, faults and failing removals and any
positive delays (`JobAssumption`, `MonitorAssumption`, `PodsAssumption`):

- `JobTypeCorrect`, `ResultIsAlwaysTrue` (`ResultIsTrue`) and the action property
  `ChangesOnlyByVerifiedPlan` (`ChangeOnlyByVerifiedPlan`). The program is a list of steps that is consumed
  from the front, so the proof first establishes, mode by mode, where in `Steps` the verification, the plan,
  the apply, the destroy and the observation's directory are, and that none of the changing steps is the last
  (`StepsInOrder`). `Progress` says that the remaining list is what follows the first n steps, and that what
  those n steps are to leave behind is there (`Reached`); `ProcessInv` adds what holds between the
  return of `ExecuteStandardMode` and the exit. A replaced Pod starts over with `Progress` at 0.
- `NoErrorForSeenPod` (the action property `ErrorNotForSeenPod`): `PodInv` carries what the
  round has read through the events read up to the publication: the Pod is still one that the read
  would pass on, or it changed since.

### The rules

Since an algorithm is followed step by step, what it computes for a document of any length is an invariant
of `Documents`, and no induction over the document is needed. Each property says what the state is when the
document is read; the invariant says, for every subject, what the local variables are in the middle of it.

`DocumentProofs` has what the three modules share, that a set of places has a last one and that no step
changes the subject, and proves `StreamsAreReadRight` (`StreamsReadRight`) for any limits, chunks and sizes
(`StreamAssumption`). `OutputInv`: the scan is before the first summary or overlong line, has stopped at it or
has failed there. `LogInv`: the buffer's counter is the smaller of limit and length, and its content
that prefix. `UploadInv`: stored and remaining add up to one byte more than the
limit, and stored and left to the body unless the probe has consumed a byte. What `parseError` and
`parseShowPlanOutput` return is a property of the whole text and needs no invariant.

`RunProofs` proves, for any settings and variables and documents of any length (`PlanAssumption`,
`StartupAssumption`):

- `RunDocumentsAreRight` (`RunDocumentsRight`). `ChangesInv` and `CountInv` relate the list and the count to
  the changes so far, `OutputsInv` says that a call is open for the place of every unknown leaf, or above it,
  that is not yet shown as unknown, and that everything else is shown as it is; `ManifestInv` that the answer
  is the first unmet requirement's; `BundleInv` that files and directories are those of the entries so far
  and the extraction failed exactly if they clash.
- `SettingsAreRight` (`SettingsRight`). `JobInv` holds between two variables that the agent writes:
  the earlier ones are the first of their names, everything else in the list is the command's, at its
  place, and the volumes and mounts are the command's followed by the agent's. That a later variable
  leaves an earlier one alone needs that the agent's own have different names; that the last of a name
  is the command's if it names the variable twice follows from the places (`AgentIsSeen`).

`GateProofs` proves `GatesAreRight` (`GatesRight`) under `GatesAssumption`, for any reviewed policy,
modules, forced variables and nesting bound. In `ReportInv` the findings kept are the messages of that kind
by a bijection of places, so that an accepted inventory, which is one in some order, is one of
the report itself. `ProvenanceInv` says that the map has the fields read, each once; counting then gives that
a map of the wanted size with the wanted values is exact. `EnvironmentInv` has the outer
loop (`Clean`: the forced variables so far once each) and the inner one (`Filtered`: a one-to-one,
order-preserving choice of what was read). `JsonInv` describes the stack: the frames are the
objects and arrays still open, at different places, and the keys of each are the key tokens read in it, so a
key is refused exactly if its object has it already.

### Only model-checked

- Liveness (`EventuallySettled`, `InputDrained`, `SpooledDelivered`, `AgentReadmitted`, `PollAnswered`,
  `StuckReported`, `RunEnds`): fairness and ENABLED are out of the prover's reach.

No safety property is left to TLC alone. What the violation runs refute is about the code as it is and has no
theorem; `MutexHeldByOneFetch` is proved and not checked by a run.

## Not modelled

- Token syntax, signatures, hashing and encryption are library calls: a token or checksum matches or
  does not, encryption succeeds or fails.
- JetStream, Kubernetes, the control plane, terraform and tofu are external and modelled from how the
  code uses them.
- The two generated API clients (`client.gen.go`, 6754 lines, most of what no definition maps) are
  reduced to the one lookup that `GatewayAccess` makes. The encryption helper, `internal/ref`, log
  levels and messages have no state.
- Release and chart scripts (shell, Python, manifests) are sequences of external commands.
- That a terminal error and a `job-created` event may both be stored for one deployment
  (`remote_executor.go:119`) is listed among the hazards without a property, and frame numbers of the
  diode need not be unique (`relay.go:125`): nothing in the repository promises otherwise.
- A monitor that is lost with its agent is not started again (`remote_executor.go:134`), so
  `StuckReported` excuses it. The exit code of a gateway that cuts off polls at the end of its grace
  period is left out; what a cut off poll means for its command is in `CommandDelivery`, where the
  answer to any poll may be lost.
