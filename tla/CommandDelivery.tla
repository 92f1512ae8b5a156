-------------------------- MODULE CommandDelivery --------------------------
(***************************************************************************)
(* How a runner command travels from the RUNNER_COMMANDS stream to a       *)
(* Kubernetes Job: the JetStream pull consumer (natstransport), the        *)
(* stateless HTTPS gateway (gateway/server.go, backend.go, receipt.go) and *)
(* the agents of one runner (executor/remote_executor.go).                 *)
(*                                                                         *)
(* An agent is sequential; two run while a Deployment is rolled over.  It  *)
(* talks to the gateway in HTTP calls.  A call is a record in `requests`;  *)
(* the agent waits for `reply` and may give up first, in which case the    *)
(* record stays and the gateway may still serve it later.  Time is counted *)
(* in ticks of SecondsPerTick seconds by countdown timers, so the state    *)
(* space is finite without a bound on time.                                *)
(***************************************************************************)
EXTENDS Integers, FiniteSets

CONSTANTS
  Commands,          \* commands published to this runner
  NoCommand,         \* the agent works on none
  Agents,            \* agent processes of the runner
  Kinds,             \* the kinds of command the initial states range over
  Expiries,          \* the initial values of the expiry timers, in ticks
  MaxDeliver,        \* defaultMaxDeliver of the consumer
  AgentDeliveries,   \* defaultCommandDeliveries of the agent
  AckWait,           \* defaultAckWait, seconds
  DeliveryLease,     \* deliveryLease of a receipt, seconds
  RetryCap,          \* the attempt at which retryDelay stops growing
  MaxRetryDelay,     \* the longest delay the retry endpoint accepts, seconds
  SecondsPerTick,    \* granularity of the clock
  LongReasons        \* can a job creation error exceed the 4096 byte limit?

\* Every kind of command the handlers tell apart.
AllKinds == {"good", "foreign", "protocol", "unsupported", "incomplete"}

\* ExpiresAt is the zero time: the command never expires.
NoExpiry == -2

ASSUME DeliveryAssumption ==
  /\ NoCommand \notin Commands
  /\ Kinds \subseteq AllKinds
  /\ Expiries \subseteq Nat \cup {NoExpiry}
  /\ MaxDeliver \in Nat \ {0}
  /\ AgentDeliveries \in Nat \ {0}
  /\ AckWait \in Nat
  /\ DeliveryLease \in Nat
  /\ RetryCap \in Nat
  /\ MaxRetryDelay \in Nat
  /\ SecondsPerTick \in Nat \ {0}
  /\ LongReasons \in BOOLEAN

\* The lease lies within the AckWait, and the agent counts no more deliveries than
\* the consumer makes.
ASSUME LimitAssumption ==
  /\ 0 < DeliveryLease /\ DeliveryLease <= AckWait
  /\ AgentDeliveries <= MaxDeliver

VARIABLES
  \* JetStream (external), as the consumer configuration makes it behave
  msg,          \* state of each command's message
  delivered,    \* NumDelivered of each message
  redeliverIn,  \* ticks until the message may be delivered (again)
  \* the command itself
  kind,         \* what is wrong with it, if anything
  expireIn,     \* ticks until ExpiresAt: 0 at that instant, -1 after it
  \* gateway
  lease,        \* ticks the receipt of each delivery remains valid
  requests,     \* calls of the agent the gateway has not finished
  terminating,  \* deliveries whose DLQ copy is stored and whose +TERM is next
  events,       \* stored event of each event ID (the stream drops duplicates)
  dlq,          \* commands with a copy on the dead letter subject
  \* cluster
  job,          \* commands whose Job exists
  \* agents, each
  pc, cur, att, \* where it is, and the delivery it works on
  reply,        \* answer to its outstanding call
  reasonFits,   \* does its rejection reason fit the endpoint's limit?
  monitored,    \* commands with a running monitorJobScheduling goroutine
  \* history
  hit           \* deliveries disturbed by a fault

streamVars  == <<msg, delivered, redeliverIn>>
commandVars == <<kind, expireIn>>
gatewayVars == <<lease, requests, terminating, events, dlq>>
agentVars   == <<pc, cur, att, reply, reasonFits, monitored>>
vars == <<streamVars, commandVars, gatewayVars, job, agentVars, hit>>

Attempts == 1 .. MaxDeliver
EventOps == {"job-created", "retryable-error", "terminal-error", "expired-error"}
Ops      == EventOps \cup {"ack", "retry", "reject"}
Requests == [op : Ops, cmd : Commands, att : Attempts, fits : BOOLEAN]

\* EventID is the command ID and a suffix; both terminal errors share one.
EventIDs == {"job-created", "runner-error-retryable", "runner-error-terminal"}
EventID(op) ==
  CASE op = "job-created"     -> "job-created"
    [] op = "retryable-error" -> "runner-error-retryable"
    [] op \in {"terminal-error", "expired-error"} -> "runner-error-terminal"

-----------------------------------------------------------------------------
(* Time *)

Ticks(seconds) == (seconds + SecondsPerTick - 1) \div SecondsPerTick

\* retryDelay: 1 << attempt seconds, the exponent capped.
retryDelay(attempt) == 2 ^ (IF attempt > RetryCap THEN RetryCap ELSE attempt)

\* Mutant: the lease outlives the AckWait.
LeaseTicksTooLong == Ticks(AckWait) + 1

\* leaseExpiresAt := now.Add(deliveryLease)
LeaseTicks == Ticks(DeliveryLease)

AckWaitTicks == Ticks(AckWait)

Dec(timer) == IF timer > 0 THEN timer - 1 ELSE timer

\* !now.Before(ExpiresAt) at the gateway, now.After(ExpiresAt) at the agent.
GatewayExpired(c) == expireIn[c] \in {0, -1}
AgentExpired(c)   == expireIn[c] = -1

-----------------------------------------------------------------------------
Init ==
  /\ msg = [c \in Commands |-> "pending"]
  /\ delivered = [c \in Commands |-> 0]
  /\ redeliverIn = [c \in Commands |-> 0]
  /\ kind \in [Commands -> Kinds]
  /\ expireIn \in [Commands -> Expiries]
  /\ lease = [c \in Commands |-> [a \in Attempts |-> 0]]
  /\ requests = {}
  /\ terminating = {}
  /\ events = [c \in Commands |-> [id \in EventIDs |-> "none"]]
  /\ dlq = {}
  /\ job = {}
  /\ pc = [g \in Agents |-> "poll"]
  /\ cur = [g \in Agents |-> NoCommand]
  /\ att = [g \in Agents |-> 0]
  /\ reply = [g \in Agents |-> "none"]
  /\ reasonFits = [g \in Agents |-> TRUE]
  /\ monitored = [g \in Agents |-> {}]
  /\ hit = [c \in Commands |-> {}]

-----------------------------------------------------------------------------
(* JetStream: delivery, acknowledgement and the delivery limit (external) *)

\* Mutant: the consumer is created without nats.MaxDeliver.
DeliverableUnlimited(c) == msg[c] = "pending" /\ redeliverIn[c] = 0

Deliverable(c) ==
  msg[c] = "pending" /\ redeliverIn[c] = 0 /\ delivered[c] < MaxDeliver

\* A fetch counts the delivery and starts its AckWait.
Fetch(c) ==
  /\ Deliverable(c)
  /\ delivered' = [delivered EXCEPT ![c] = @ + 1]
  /\ redeliverIn' = [redeliverIn EXCEPT ![c] = AckWaitTicks]
  /\ UNCHANGED msg

\* +ACK and +TERM settle a pending message, whichever delivery they name.
Settle(c, outcome) ==
  /\ msg' = [msg EXCEPT ![c] = IF @ = "pending" THEN outcome ELSE @]
  /\ UNCHANGED <<delivered, redeliverIn>>

\* -NAK with a delay reschedules the latest delivery; an older one is ignored.
Nak(c, a, delay) ==
  /\ redeliverIn' = IF msg[c] = "pending" /\ delivered[c] = a
                    THEN [redeliverIn EXCEPT ![c] = Ticks(delay)]
                    ELSE redeliverIn
  /\ UNCHANGED <<msg, delivered>>

\* After MaxDeliver deliveries the consumer never offers the message again.
Exhaust(c) ==
  /\ msg[c] = "pending"
  /\ delivered[c] = MaxDeliver
  /\ redeliverIn[c] = 0
  /\ msg' = [msg EXCEPT ![c] = "exhausted"]
  /\ UNCHANGED <<delivered, redeliverIn, commandVars, gatewayVars, job, agentVars, hit>>

-----------------------------------------------------------------------------
(* Helpers of the agent and of the gateway *)

\* The agent issues a call for the delivery it works on and waits.
Call(g, op, fits) ==
  /\ requests' = requests \cup {[op |-> op, cmd |-> cur[g], att |-> att[g], fits |-> fits]}
  /\ pc' = [pc EXCEPT ![g] = op]
  /\ reply' = [reply EXCEPT ![g] = "none"]
  /\ reasonFits' = [reasonFits EXCEPT ![g] = fits]
  /\ UNCHANGED <<cur, att>>

\* executeCommand returns and the loop polls again.
Return(g) ==
  /\ pc' = [pc EXCEPT ![g] = "poll"]
  /\ cur' = [cur EXCEPT ![g] = NoCommand]
  /\ att' = [att EXCEPT ![g] = 0]
  /\ reply' = [reply EXCEPT ![g] = "none"]
  /\ reasonFits' = [reasonFits EXCEPT ![g] = TRUE]

\* The response reaches the agent if it still waits for this very call.
Awaits(g, op, c, a) ==
  pc[g] = op /\ cur[g] = c /\ att[g] = a /\ reply[g] = "none"

Respond(op, c, a, answer) ==
  /\ reply' = [g \in Agents |-> IF Awaits(g, op, c, a) THEN answer ELSE reply[g]]
  /\ UNCHANGED <<pc, cur, att, reasonFits, monitored>>

Answer(r, answer) ==
  /\ requests' = requests \ {r}
  /\ Respond(r.op, r.cmd, r.att, answer)

Fault(c, a) == hit' = [hit EXCEPT ![c] = @ \cup {a}]

\* Nats-Msg-Id: the first event stored under an ID stays.
StoreEvent(c, op) ==
  events' = [events EXCEPT ![c][EventID(op)] = IF @ = "none" THEN op ELSE @]

\* receipts.open succeeds: the receipt of this delivery has not expired.
ReceiptOpens(r) == lease[r.cmd][r.att] > 0

-----------------------------------------------------------------------------
(* Gateway: POST commands/next *)

\* decodeCommandEnvelope or the identity check fails, or the command expired.
RefusedByGateway(c) == kind[c] = "foreign" \/ GatewayExpired(c)

\* A receipt is sealed for the delivery; the response may not arrive.
NextCommandDeliver(g, c) ==
  LET a == delivered[c] + 1 IN
  /\ pc[g] = "poll"
  /\ Fetch(c)
  /\ ~RefusedByGateway(c)
  /\ lease' = [lease EXCEPT ![c][a] = LeaseTicks]
  /\ \/ /\ pc' = [pc EXCEPT ![g] = "execute"]
        /\ cur' = [cur EXCEPT ![g] = c]
        /\ att' = [att EXCEPT ![g] = a]
        /\ UNCHANGED hit
     \/ Fault(c, a) /\ UNCHANGED <<pc, cur, att>>
  /\ UNCHANGED <<commandVars, requests, terminating, events, dlq, job, reply, reasonFits, monitored>>

\* backend.Reject: the DLQ copy comes first, its failure answers 503.
NextCommandReject(g, c) ==
  LET a == delivered[c] + 1 IN
  /\ pc[g] = "poll"
  /\ Fetch(c)
  /\ RefusedByGateway(c)
  /\ \/ dlq' = dlq \cup {c} /\ terminating' = terminating \cup {<<c, a>>} /\ UNCHANGED hit
     \/ Fault(c, a) /\ UNCHANGED <<dlq, terminating>>
  /\ UNCHANGED <<commandVars, lease, requests, events, job, agentVars>>

\* 204: nothing to deliver, the agent polls again.
NextCommandEmpty(g) ==
  /\ pc[g] = "poll"
  /\ \A c \in Commands : ~Deliverable(c)
  /\ UNCHANGED vars

-----------------------------------------------------------------------------
(* Gateway: the other endpoints the agent calls *)

PostEvent(r) ==
  /\ r.op \in EventOps
  /\ \/ StoreEvent(r.cmd, r.op) /\ Answer(r, "ok") /\ UNCHANGED hit
     \/ Answer(r, "err") /\ Fault(r.cmd, r.att) /\ UNCHANGED events
  /\ UNCHANGED <<streamVars, commandVars, lease, terminating, dlq, job>>

\* The ack is a core NATS publish and a flush: it fails, or it is sent and
\* JetStream may nevertheless miss it.
AcknowledgeCommand(r) ==
  /\ r.op = "ack"
  /\ \/ /\ ReceiptOpens(r)
        /\ Settle(r.cmd, "acked")
        /\ Answer(r, "ok")
        /\ UNCHANGED hit
     \/ /\ ReceiptOpens(r)
        /\ \E answer \in {"ok", "err"} : Answer(r, answer)
        /\ Fault(r.cmd, r.att)
        /\ UNCHANGED streamVars
     \/ ~ReceiptOpens(r) /\ Answer(r, "err") /\ UNCHANGED <<streamVars, hit>>
  /\ UNCHANGED <<commandVars, lease, terminating, events, dlq, job>>

RetryAccepted(r) == retryDelay(r.att) \in 0 .. MaxRetryDelay /\ ReceiptOpens(r)

RetryCommand(r) ==
  /\ r.op = "retry"
  /\ \/ /\ RetryAccepted(r)
        /\ Nak(r.cmd, r.att, retryDelay(r.att))
        /\ Answer(r, "ok")
        /\ UNCHANGED hit
     \/ /\ RetryAccepted(r)
        /\ \E answer \in {"ok", "err"} : Answer(r, answer)
        /\ Fault(r.cmd, r.att)
        /\ UNCHANGED streamVars
     \/ ~RetryAccepted(r) /\ Answer(r, "err") /\ UNCHANGED <<streamVars, hit>>
  /\ UNCHANGED <<commandVars, lease, terminating, events, dlq, job>>

\* RejectReceipt reloads the message: settled messages have left the work queue.
RejectAccepted(r) == ReceiptOpens(r) /\ r.fits /\ msg[r.cmd] \in {"pending", "exhausted"}

\* Mutant: +TERM is sent although the DLQ copy could not be published.
RejectCommandTermAnyway(r) ==
  /\ r.op = "reject"
  /\ RejectAccepted(r)
  /\ \/ dlq' = dlq \cup {r.cmd}
     \/ UNCHANGED dlq
  /\ terminating' = terminating \cup {<<r.cmd, r.att>>}
  /\ requests' = requests \ {r}
  /\ UNCHANGED <<streamVars, commandVars, lease, events, job, agentVars, hit>>

\* RejectReceipt publishes the DLQ copy, +TERM follows.
RejectCommand(r) ==
  /\ r.op = "reject"
  /\ \/ /\ RejectAccepted(r)
        /\ dlq' = dlq \cup {r.cmd}
        /\ terminating' = terminating \cup {<<r.cmd, r.att>>}
        /\ requests' = requests \ {r}
        /\ UNCHANGED <<agentVars, hit>>
     \/ /\ RejectAccepted(r)
        /\ Answer(r, "err")
        /\ Fault(r.cmd, r.att)
        /\ UNCHANGED <<dlq, terminating>>
     \/ ~RejectAccepted(r) /\ Answer(r, "err") /\ UNCHANGED <<dlq, terminating, hit>>
  /\ UNCHANGED <<streamVars, commandVars, lease, events, job>>

\* The second half of backend.Reject, for either caller.
Terminate(c, a) ==
  /\ <<c, a>> \in terminating
  /\ terminating' = terminating \ {<<c, a>>}
  /\ \/ Settle(c, "termed") /\ Respond("reject", c, a, "ok") /\ UNCHANGED hit
     \/ /\ \E answer \in {"ok", "err"} : Respond("reject", c, a, answer)
        /\ Fault(c, a)
        /\ UNCHANGED streamVars
  /\ UNCHANGED <<commandVars, lease, requests, events, dlq, job>>

\* The request is lost on the way, or the gateway dies before serving it.
DropRequest(r) ==
  /\ requests' = requests \ {r}
  /\ Fault(r.cmd, r.att)
  /\ UNCHANGED <<streamVars, commandVars, lease, terminating, events, dlq, job, agentVars>>

-----------------------------------------------------------------------------
(* Agent: executeCommand *)

\* Protocol version, command type or payload is not one this agent handles.
RejectUnsupported(g) ==
  /\ pc[g] = "execute"
  /\ \/ kind[cur[g]] = "protocol"
     \/ kind[cur[g]] = "unsupported" /\ ~AgentExpired(cur[g])
  /\ Call(g, "reject", TRUE)
  /\ UNCHANGED <<streamVars, commandVars, lease, terminating, events, dlq, job, monitored, hit>>

\* COMMAND_EXPIRED, reported before the rejection.
ReportExpired(g) ==
  /\ pc[g] = "execute"
  /\ kind[cur[g]] # "protocol"
  /\ AgentExpired(cur[g])
  /\ Call(g, "expired-error", TRUE)
  /\ UNCHANGED <<streamVars, commandVars, lease, terminating, events, dlq, job, monitored, hit>>

\* Mutant: the Job is announced before it is created.
CreateJobAnnouncedFirst(g) ==
  /\ pc[g] = "execute"
  /\ kind[cur[g]] = "good"
  /\ ~AgentExpired(cur[g])
  /\ Call(g, "job-created", TRUE)
  /\ UNCHANGED <<streamVars, commandVars, lease, terminating, events, dlq, job, monitored, hit>>

\* The Job is created, or it exists already (ErrConflict): both are success.
CreateJob(g) ==
  /\ pc[g] = "execute"
  /\ kind[cur[g]] = "good"
  /\ ~AgentExpired(cur[g])
  /\ job' = job \cup {cur[g]}
  /\ Call(g, "job-created", TRUE)
  /\ UNCHANGED <<streamVars, commandVars, lease, terminating, events, dlq, monitored, hit>>

\* Mutant: the agent expects one delivery more than the consumer makes.
IsTerminalTooLate(g, permanent) == permanent \/ att[g] > AgentDeliveries

\* What executeCommand does with an error of handleCreateJob: a permanent error,
\* and any error of the last delivery, is terminal.
IsTerminal(g, permanent) == permanent \/ att[g] >= AgentDeliveries

AfterCreateError(g, permanent, fits) ==
  Call(g, IF IsTerminal(g, permanent) THEN "terminal-error" ELSE "retryable-error", fits)

\* An incomplete command fails before the API server is asked.  The API server
\* may refuse for good, fail, or create the Job and lose the answer.
CreateJobFails(g) ==
  /\ pc[g] = "execute"
  /\ kind[cur[g]] \in {"good", "incomplete"}
  /\ ~AgentExpired(cur[g])
  /\ \E fits \in IF LongReasons THEN BOOLEAN ELSE {TRUE} :
       \/ AfterCreateError(g, FALSE, fits) /\ UNCHANGED job
       \/ kind[cur[g]] = "good" /\ AfterCreateError(g, TRUE, fits) /\ UNCHANGED job
       \/ kind[cur[g]] = "good" /\ AfterCreateError(g, FALSE, fits) /\ job' = job \cup {cur[g]}
  /\ UNCHANGED <<streamVars, commandVars, lease, terminating, events, dlq, monitored, hit>>

\* Mutant: the command is acknowledged although its event was not stored.
AfterJobCreatedAckAnyway(g) ==
  /\ pc[g] = "job-created"
  /\ reply[g] # "none"
  /\ Call(g, "ack", TRUE)
  /\ UNCHANGED <<streamVars, commandVars, lease, terminating, events, dlq, job, monitored, hit>>

\* The job-created event must be stored before the command is acknowledged.
AfterJobCreated(g) ==
  /\ pc[g] = "job-created"
  /\ \/ reply[g] = "ok" /\ Call(g, "ack", TRUE)
     \/ reply[g] = "err" /\ Call(g, "retry", TRUE)
  /\ UNCHANGED <<streamVars, commandVars, lease, terminating, events, dlq, job, monitored, hit>>

\* Error reports are best effort: whatever the answer, the command is handed back.
AfterErrorReport(g) ==
  /\ reply[g] # "none"
  /\ \/ pc[g] \in {"terminal-error", "expired-error"} /\ Call(g, "reject", reasonFits[g])
     \/ pc[g] = "retryable-error" /\ Call(g, "retry", TRUE)
  /\ UNCHANGED <<streamVars, commandVars, lease, terminating, events, dlq, job, monitored, hit>>

\* Only a confirmed acknowledgement starts the scheduling monitor.
AfterSettlement(g) ==
  /\ reply[g] # "none"
  /\ pc[g] \in {"ack", "retry", "reject"}
  /\ monitored' = IF pc[g] = "ack" /\ reply[g] = "ok"
                  THEN [monitored EXCEPT ![g] = @ \cup {cur[g]}] ELSE monitored
  /\ Return(g)
  /\ UNCHANGED <<streamVars, commandVars, gatewayVars, job, hit>>

\* The HTTP client times out or loses the connection: the call is an error.
GiveUp(g) ==
  /\ pc[g] \in Ops
  /\ reply[g] = "none"
  /\ reply' = [reply EXCEPT ![g] = "err"]
  /\ Fault(cur[g], att[g])
  /\ UNCHANGED <<streamVars, commandVars, gatewayVars, job, pc, cur, att, reasonFits, monitored>>

\* The agent restarts: the delivery in hand and the monitors are forgotten.
Crash(g) ==
  /\ pc[g] # "poll" \/ monitored[g] # {}
  /\ Return(g)
  /\ monitored' = [monitored EXCEPT ![g] = {}]
  /\ IF pc[g] # "poll" THEN Fault(cur[g], att[g]) ELSE UNCHANGED hit
  /\ UNCHANGED <<streamVars, commandVars, gatewayVars, job>>

\* monitorJobScheduling saw scheduling warnings and stored its terminal error.
MonitorReport(g, c) ==
  /\ c \in monitored[g]
  /\ monitored' = [monitored EXCEPT ![g] = @ \ {c}]
  /\ StoreEvent(c, "terminal-error")
  /\ UNCHANGED <<streamVars, commandVars, lease, requests, terminating, dlq, job,
                 pc, cur, att, reply, reasonFits, hit>>

\* The Job started, or the hour of monitoring is over.
MonitorStop(g, c) ==
  /\ c \in monitored[g]
  /\ monitored' = [monitored EXCEPT ![g] = @ \ {c}]
  /\ UNCHANGED <<streamVars, commandVars, gatewayVars, job, pc, cur, att, reply, reasonFits, hit>>

-----------------------------------------------------------------------------
\* Someone still works on this delivery.
InProgress(c, a) ==
  \/ \E g \in Agents : cur[g] = c /\ att[g] = a
  \/ \E r \in requests : r.cmd = c /\ r.att = a
  \/ <<c, a>> \in terminating

\* A delivery whose lease or AckWait runs out under work is disturbed as well.
Overruns(c, a) ==
  /\ InProgress(c, a)
  /\ lease[c][a] = 1 \/ (a = delivered[c] /\ redeliverIn[c] = 1)

\* Mutant: the gateway keeps a delivery in progress (InProgress) for as long as
\* a call or a termination of it is open.
TickWhileIdle ==
  /\ redeliverIn' = [c \in Commands |->
                      IF InProgress(c, delivered[c]) THEN redeliverIn[c] ELSE Dec(redeliverIn[c])]
  /\ expireIn' = [c \in Commands |-> IF expireIn[c] >= 0 THEN expireIn[c] - 1 ELSE expireIn[c]]
  /\ lease' = [c \in Commands |-> [a \in Attempts |-> Dec(lease[c][a])]]
  /\ <<redeliverIn, expireIn, lease>>' # <<redeliverIn, expireIn, lease>>
  /\ hit' = [c \in Commands |-> hit[c] \cup {a \in Attempts : Overruns(c, a)}]
  /\ UNCHANGED <<msg, delivered, kind, requests, terminating, events, dlq, job, agentVars>>

Tick ==
  /\ redeliverIn' = [c \in Commands |-> Dec(redeliverIn[c])]
  /\ expireIn' = [c \in Commands |-> IF expireIn[c] >= 0 THEN expireIn[c] - 1 ELSE expireIn[c]]
  /\ lease' = [c \in Commands |-> [a \in Attempts |-> Dec(lease[c][a])]]
  /\ <<redeliverIn, expireIn, lease>>' # <<redeliverIn, expireIn, lease>>
  /\ hit' = [c \in Commands |-> hit[c] \cup {a \in Attempts : Overruns(c, a)}]
  /\ UNCHANGED <<msg, delivered, kind, requests, terminating, events, dlq, job, agentVars>>

AgentStep(g) ==
  \/ RejectUnsupported(g) \/ ReportExpired(g) \/ CreateJob(g) \/ CreateJobFails(g)
  \/ AfterJobCreated(g) \/ AfterErrorReport(g) \/ AfterSettlement(g)

Poll(g, c) == NextCommandDeliver(g, c) \/ NextCommandReject(g, c)

GatewayStep ==
  \/ \E r \in requests : \/ PostEvent(r) \/ AcknowledgeCommand(r)
                         \/ RetryCommand(r) \/ RejectCommand(r) \/ DropRequest(r)
  \/ \E c \in Commands, a \in Attempts : Terminate(c, a)

Next ==
  \/ \E g \in Agents : \/ NextCommandEmpty(g) \/ AgentStep(g) \/ GiveUp(g) \/ Crash(g)
                       \/ \E c \in Commands : Poll(g, c) \/ MonitorReport(g, c) \/ MonitorStop(g, c)
  \/ \E c \in Commands : Exhaust(c)
  \/ GatewayStep
  \/ Tick

Spec == Init /\ [][Next]_vars

(***************************************************************************)
(* Fairness.  The clock runs; an agent's loop is sequential code that      *)
(* never blocks outside its HTTP calls, which its client bounds by a       *)
(* timeout; a polling agent is eventually offered a deliverable message.   *)
(* Nothing is assumed of the gateway or of the network.                    *)
(***************************************************************************)
Fairness ==
  /\ WF_vars(Tick)
  /\ \A g \in Agents : WF_vars(AgentStep(g)) /\ WF_vars(GiveUp(g))
  /\ \A c \in Commands : WF_vars(Exhaust(c)) /\ WF_vars(\E g \in Agents : Poll(g, c))

FairSpec == Spec /\ Fairness

-----------------------------------------------------------------------------
(* Properties *)

\* Type invariant: every message, receipt, call and agent is in a state the code
\* knows, and the consumer never delivers a message more than MaxDeliver times.
TypeOK ==
  /\ msg \in [Commands -> {"pending", "acked", "termed", "exhausted"}]
  /\ delivered \in [Commands -> 0 .. MaxDeliver]
  /\ redeliverIn \in [Commands -> Nat]
  /\ kind \in [Commands -> AllKinds]
  /\ expireIn \in [Commands -> Nat \cup {-1, NoExpiry}]
  /\ lease \in [Commands -> [Attempts -> Nat]]
  /\ requests \subseteq Requests
  /\ terminating \subseteq Commands \X Attempts
  /\ events \in [Commands -> [EventIDs -> EventOps \cup {"none"}]]
  /\ dlq \subseteq Commands
  /\ job \subseteq Commands
  /\ pc \in [Agents -> {"poll", "execute"} \cup Ops]
  /\ cur \in [Agents -> Commands \cup {NoCommand}]
  /\ att \in [Agents -> 0 .. MaxDeliver]
  /\ reply \in [Agents -> {"none", "ok", "err"}]
  /\ reasonFits \in [Agents -> BOOLEAN]
  /\ monitored \in [Agents -> SUBSET Commands]
  /\ hit \in [Commands -> SUBSET Attempts]

\* An agent that is not polling holds a delivery.
Holding == \A g \in Agents : pc[g] # "poll" => cur[g] \in Commands /\ att[g] \in Attempts

\* The job-created event of the command is stored.
Announced(c) == events[c]["job-created"] # "none"

\* The inductive invariant behind the properties below: what is stored, what is
\* under way and what an agent was told is backed by what happened before it.
DeliveryInv ==
  /\ Holding
  /\ \A c \in Commands : Announced(c) => c \in job
  /\ \A g \in Agents : pc[g] = "job-created" => cur[g] \in job
  /\ \A g \in Agents : pc[g] = "job-created" /\ reply[g] = "ok" => Announced(cur[g])
  /\ \A r \in requests : r.op = "job-created" => r.cmd \in job
  /\ \A r \in requests : r.op = "ack" => Announced(r.cmd)
  /\ \A c \in Commands : msg[c] = "acked" => Announced(c)
  /\ \A c \in Commands, a \in Attempts : <<c, a>> \in terminating => c \in dlq
  /\ \A c \in Commands : msg[c] = "termed" => c \in dlq

\* The outcome the control plane sees of a message's state.
OutcomeOf(state) ==
  CASE state = "pending"   -> "open"
    [] state = "acked"     -> "accepted"
    [] state = "termed"    -> "rejected"
    [] state = "exhausted" -> "dropped"

Outcome == INSTANCE CommandOutcome WITH
  outcome      <- [c \in Commands |-> OutcomeOf(msg[c])],
  executed     <- job,
  announced    <- {c \in Commands : Announced(c)},
  deadLettered <- dlq

\* Consumer, gateway replicas and agents together keep the promise of
\* CommandOutcome: executed before announced before accepted, dead lettered
\* before rejected, and decided once, whatever calls are lost, late or repeated.
ImplementsOutcome == Outcome!Spec

\* A command leaves the stream as acknowledged only after its Job exists and the
\* job-created event is stored, whatever calls were lost, late or repeated.
AckedMeansAnnounced ==
  \A c \in Commands : msg[c] = "acked" => c \in job /\ Announced(c)

\* A command is terminated only after its copy is on the dead letter subject.
TermedMeansDeadLettered ==
  \A c \in Commands : msg[c] = "termed" => c \in dlq

\* A receipt that still opens belongs to the latest delivery, for an agent at work
\* and for an acknowledgement or rejection under way: the lease lies within the
\* AckWait, so no stale delivery settles a command another agent was handed.
LeaseExclusive ==
  /\ \A g \in Agents :
       pc[g] \notin {"poll", "retry"} /\ lease[cur[g]][att[g]] > 0
         => delivered[cur[g]] = att[g]
  /\ \A r \in requests :
       r.op \in {"ack", "reject"} /\ ReceiptOpens(r) => delivered[r.cmd] = r.att

\* The consumer drops a command for good only if its last delivery was disturbed:
\* left alone, that delivery is acknowledged or dead lettered.
DroppedOnlyAfterFault ==
  \A c \in Commands : msg[c] = "exhausted" => MaxDeliver \in hit[c]

\* The retry endpoint accepts every delay the agent asks for.
RetryDelayAccepted ==
  \A r \in requests : r.op = "retry" => retryDelay(r.att) <= MaxRetryDelay

\* "command expired before execution" is only reported of commands not executed.
ExpiredMeansNotExecuted ==
  \A c \in Commands : events[c]["runner-error-terminal"] = "expired-error" => c \notin job

\* Every command eventually leaves the pending state, whatever fails.
EventuallySettled == \A c \in Commands : <>(msg[c] # "pending")
=============================================================================
