----------------------- MODULE CommandDeliveryProofs -----------------------
(***************************************************************************)
(* Proofs about CommandDelivery, for any number of commands and agents and *)
(* any values of the limits and timers.                                    *)
(*                                                                         *)
(* The first part follows a command's message and its events, the second   *)
(* the timers and limits: the lease of a receipt against the AckWait, and  *)
(* the last delivery of a command.                                         *)
(***************************************************************************)
EXTENDS CommandDelivery, TLAPS

\* A countdown timer stays a natural number.
LEMMA DecNat == ASSUME NEW t \in Nat PROVE Dec(t) \in Nat
  BY SMTT(40) DEF Dec

\* Converting seconds to ticks yields a natural number.
LEMMA TicksNat == ASSUME NEW s \in Nat PROVE Ticks(s) \in Nat
  BY SMTT(40), DeliveryAssumption DEF Ticks

\* The lease of a fresh receipt and the AckWait of a fresh delivery are timers.
LEMMA TimersNat == LeaseTicks \in Nat /\ AckWaitTicks \in Nat
  BY ZenonT(40), DeliveryAssumption, TicksNat DEF LeaseTicks, AckWaitTicks

\* Every operation that stores an event has an event ID.
LEMMA EventIDType == ASSUME NEW op \in EventOps PROVE EventID(op) \in EventIDs
  BY ZenonT(40) DEF EventOps, EventIDs, EventID

\* Storing an event keeps the type of the store and touches one event ID, and
\* that one only if it was free.
LEMMA StoreEffect ==
  ASSUME TypeOK, NEW c \in Commands, NEW op \in EventOps, StoreEvent(c, op)
  PROVE  /\ events' \in [Commands -> [EventIDs -> EventOps \cup {"none"}]]
         /\ \A d \in Commands, id \in EventIDs :
              events'[d][id] = IF d = c /\ id = EventID(op) /\ events[d][id] = "none"
                               THEN op ELSE events[d][id]
<1> DEFINE id0 == EventID(op)
           row == [events[c] EXCEPT ![id0] = IF @ = "none" THEN op ELSE @]
<1>1. events[c] \in [EventIDs -> EventOps \cup {"none"}] /\ id0 \in EventIDs
  BY ZenonT(40), EventIDType DEF TypeOK
<1>2. events' = [events EXCEPT ![c] = row]
  BY ZenonT(40) DEF StoreEvent
<1>3. row \in [EventIDs -> EventOps \cup {"none"}]
  BY ZenonT(40), <1>1
<1>4. \A id \in EventIDs : row[id] = IF id = id0 /\ events[c][id] = "none" THEN op ELSE events[c][id]
  BY ZenonT(40), <1>1
<1> HIDE DEF row
<1>5. QED
  BY ZenonT(40), <1>2, <1>3, <1>4 DEF TypeOK

\* The initial state is well typed.
LEMMA InitType == Init => TypeOK /\ Holding
<1> SUFFICES ASSUME Init PROVE TypeOK /\ Holding
  OBVIOUS
<1>1. kind \in [Commands -> AllKinds] /\ expireIn \in [Commands -> Nat \cup {-1, NoExpiry}]
  <2>1. kind \in [Commands -> Kinds] /\ expireIn \in [Commands -> Expiries]
    BY ZenonT(40) DEF Init
  <2>2. Kinds \subseteq AllKinds /\ Expiries \subseteq Nat \cup {-1, NoExpiry}
    BY ZenonT(40), DeliveryAssumption
  <2>3. QED
    BY ZenonT(40), <2>1, <2>2
<1>2. events \in [Commands -> [EventIDs -> EventOps \cup {"none"}]]
  BY ZenonT(40) DEF Init
<1>3. QED
  BY SMTT(40), <1>1, <1>2, DeliveryAssumption DEF Init, TypeOK, Holding

\* A call of a delivery in hand adds a well typed request and keeps the types
\* of the agents' variables.
LEMMA CallType ==
  ASSUME TypeOK, Holding, NEW g \in Agents, pc[g] # "poll",
         NEW op \in Ops, NEW fits \in BOOLEAN, Call(g, op, fits)
  PROVE  /\ requests' \subseteq Requests
         /\ pc' \in [Agents -> {"poll", "execute"} \cup Ops]
         /\ reply' \in [Agents -> {"none", "ok", "err"}]
         /\ reasonFits' \in [Agents -> BOOLEAN]
         /\ Holding'
  BY SMTT(40) DEF TypeOK, Holding, Call, Requests

\* A response keeps the type of the agents' variables.
LEMMA RespondType ==
  ASSUME TypeOK, Holding, NEW op, NEW c, NEW a, NEW answer \in {"ok", "err"},
         Respond(op, c, a, answer)
  PROVE  reply' \in [Agents -> {"none", "ok", "err"}] /\ Holding'
  BY ZenonT(40) DEF TypeOK, Holding, Respond

\* A fault only ever adds a delivery to the history.
LEMMA FaultType ==
  ASSUME TypeOK, NEW c \in Commands, NEW a \in Attempts, Fault(c, a)
  PROVE  hit' \in [Commands -> SUBSET Attempts]
  BY ZenonT(40) DEF TypeOK, Fault

\* Every step of the system keeps the types.
LEMMA NextType == TypeOK /\ Holding /\ [Next]_vars => TypeOK' /\ Holding'
<1> SUFFICES ASSUME TypeOK, Holding, [Next]_vars PROVE TypeOK' /\ Holding'
  OBVIOUS
<1> USE DEF streamVars, commandVars, gatewayVars, agentVars
<1>1. ASSUME NEW g \in Agents, NEW c \in Commands, NextCommandDeliver(g, c)
      PROVE  TypeOK' /\ Holding'
  <2>1. delivered[c] + 1 \in Attempts /\ delivered' \in [Commands -> 0 .. MaxDeliver]
    BY SMTT(40), <1>1, DeliveryAssumption DEF NextCommandDeliver, Fetch, Deliverable, TypeOK, Attempts
  <2>2. lease' \in [Commands -> [Attempts -> Nat]] /\ redeliverIn' \in [Commands -> Nat]
    BY ZenonT(40), <1>1, <2>1, TimersNat DEF NextCommandDeliver, Fetch, TypeOK
  <2>3. CASE Fault(c, delivered[c] + 1) /\ UNCHANGED <<pc, cur, att>>
    BY ZenonT(40), <1>1, <2>1, <2>2, <2>3, FaultType DEF NextCommandDeliver, Fetch, TypeOK, Holding
  <2>4. CASE /\ pc' = [pc EXCEPT ![g] = "execute"]
             /\ cur' = [cur EXCEPT ![g] = c]
             /\ att' = [att EXCEPT ![g] = delivered[c] + 1]
             /\ UNCHANGED hit
    <3>1. att' \in [Agents -> 0 .. MaxDeliver]
      BY SMTT(40), <2>1, <2>4 DEF TypeOK, Attempts
    <3>2. QED
      BY ZenonT(40), <1>1, <2>1, <2>2, <2>4, <3>1 DEF NextCommandDeliver, Fetch, TypeOK, Holding
  <2>5. QED
    BY ZenonT(40), <1>1, <2>3, <2>4 DEF NextCommandDeliver
<1>2. ASSUME NEW g \in Agents, NEW c \in Commands, NextCommandReject(g, c)
      PROVE  TypeOK' /\ Holding'
  <2>1. delivered[c] + 1 \in Attempts /\ delivered' \in [Commands -> 0 .. MaxDeliver]
    BY SMTT(40), <1>2, DeliveryAssumption DEF NextCommandReject, Fetch, Deliverable, TypeOK, Attempts
  <2>2. redeliverIn' \in [Commands -> Nat]
    BY ZenonT(40), <1>2, TimersNat DEF NextCommandReject, Fetch, TypeOK
  <2>3. QED
    BY SMTT(40), <1>2, <2>1, <2>2, FaultType DEF NextCommandReject, Fetch, TypeOK, Holding
<1>3. ASSUME NEW g \in Agents, NextCommandEmpty(g)
      PROVE  TypeOK' /\ Holding'
  BY ZenonT(40), <1>3 DEF NextCommandEmpty, TypeOK, Holding, vars
<1>4. ASSUME NEW g \in Agents, RejectUnsupported(g) \/ ReportExpired(g)
      PROVE  TypeOK' /\ Holding'
  <2>1. PICK op \in Ops : Call(g, op, TRUE)
    BY ZenonT(40), <1>4 DEF RejectUnsupported, ReportExpired, Ops, EventOps
  <2>2. QED
    BY ZenonT(40), <1>4, <2>1, CallType DEF RejectUnsupported, ReportExpired, Call, TypeOK
<1>5. ASSUME NEW g \in Agents, CreateJob(g)
      PROVE  TypeOK' /\ Holding'
  <2>1. job' \subseteq Commands /\ Call(g, "job-created", TRUE) /\ pc[g] # "poll"
    BY ZenonT(40), <1>5 DEF CreateJob, TypeOK, Holding
  <2>2. QED
    BY ZenonT(40), <1>5, <2>1, CallType DEF CreateJob, Call, TypeOK, Ops, EventOps
<1>6. ASSUME NEW g \in Agents, CreateJobFails(g)
      PROVE  TypeOK' /\ Holding'
  <2>1. PICK op \in Ops, fits \in BOOLEAN : Call(g, op, fits)
    BY ZenonT(40), <1>6 DEF CreateJobFails, AfterCreateError, Ops, EventOps
  <2>2. job' \subseteq Commands
    <3>1. job' = job \/ job' = job \cup {cur[g]}
      BY ZenonT(40), <1>6 DEF CreateJobFails
    <3>2. QED
      BY SMTT(40), <1>6, <3>1 DEF CreateJobFails, TypeOK, Holding
  <2>3. QED
    BY ZenonT(40), <1>6, <2>1, <2>2, CallType DEF CreateJobFails, Call, TypeOK
<1>7. ASSUME NEW g \in Agents, AfterJobCreated(g) \/ AfterErrorReport(g)
      PROVE  TypeOK' /\ Holding'
  <2>1. PICK op \in Ops, fits \in BOOLEAN : pc[g] # "poll" /\ Call(g, op, fits)
    BY ZenonT(40), <1>7 DEF AfterJobCreated, AfterErrorReport, Ops, EventOps, TypeOK
  <2>2. QED
    BY ZenonT(40), <1>7, <2>1, CallType DEF AfterJobCreated, AfterErrorReport, Call, TypeOK
<1>8. ASSUME NEW g \in Agents, AfterSettlement(g)
      PROVE  TypeOK' /\ Holding'
  <2>1. monitored' \in [Agents -> SUBSET Commands]
    BY ZenonT(40), <1>8 DEF AfterSettlement, TypeOK, Holding
  <2>2. QED
    BY SMTT(40), <1>8, <2>1, DeliveryAssumption DEF AfterSettlement, Return, TypeOK, Holding
<1>9. ASSUME NEW g \in Agents, GiveUp(g)
      PROVE  TypeOK' /\ Holding'
  <2>1. hit' \in [Commands -> SUBSET Attempts]
    BY ZenonT(40), <1>9, FaultType DEF GiveUp, Holding, TypeOK, Ops, EventOps
  <2>2. QED
    BY ZenonT(40), <1>9, <2>1 DEF GiveUp, TypeOK, Holding
<1>10. ASSUME NEW g \in Agents, Crash(g)
       PROVE  TypeOK' /\ Holding'
  <2>1. hit' \in [Commands -> SUBSET Attempts]
    BY ZenonT(40), <1>10, FaultType DEF Crash, Holding, TypeOK
  <2>2. QED
    BY SMTT(40), <1>10, <2>1, DeliveryAssumption DEF Crash, Return, TypeOK, Holding
<1>11. ASSUME NEW g \in Agents, NEW c \in Commands, MonitorReport(g, c) \/ MonitorStop(g, c)
       PROVE  TypeOK' /\ Holding'
  <2>1. events' \in [Commands -> [EventIDs -> EventOps \cup {"none"}]]
    <3>1. "terminal-error" \in EventOps
      BY ZenonT(40) DEF EventOps
    <3>2. QED
      BY ZenonT(40), <1>11, <3>1, StoreEffect DEF MonitorReport, MonitorStop, TypeOK
  <2>2. QED
    BY ZenonT(40), <1>11, <2>1 DEF MonitorReport, MonitorStop, TypeOK, Holding
<1>12. ASSUME NEW c \in Commands, Exhaust(c)
       PROVE  TypeOK' /\ Holding'
  BY ZenonT(40), <1>12 DEF Exhaust, TypeOK, Holding
<1>13. ASSUME NEW r \in requests, PostEvent(r)
       PROVE  TypeOK' /\ Holding'
  <2>1. r.cmd \in Commands /\ r.att \in Attempts /\ requests' \subseteq Requests
    BY ZenonT(40), <1>13 DEF PostEvent, Answer, TypeOK, Requests
  <2>2. events' \in [Commands -> [EventIDs -> EventOps \cup {"none"}]]
    BY ZenonT(40), <1>13, <2>1, StoreEffect DEF PostEvent, TypeOK
  <2>3. reply' \in [Agents -> {"none", "ok", "err"}] /\ Holding'
    BY ZenonT(40), <1>13, RespondType DEF PostEvent, Answer
  <2>4. hit' \in [Commands -> SUBSET Attempts]
    BY ZenonT(40), <1>13, <2>1, FaultType DEF PostEvent, TypeOK
  <2>5. QED
    BY ZenonT(40), <1>13, <2>1, <2>2, <2>3, <2>4 DEF PostEvent, Answer, Respond, TypeOK
<1>14. ASSUME NEW r \in requests, AcknowledgeCommand(r)
       PROVE  TypeOK' /\ Holding'
  <2>1. r.cmd \in Commands /\ r.att \in Attempts /\ requests' \subseteq Requests
    BY ZenonT(40), <1>14 DEF AcknowledgeCommand, Answer, TypeOK, Requests
  <2>2. reply' \in [Agents -> {"none", "ok", "err"}] /\ Holding'
    BY ZenonT(40), <1>14, RespondType DEF AcknowledgeCommand, Answer
  <2>3. hit' \in [Commands -> SUBSET Attempts]
    BY ZenonT(40), <1>14, <2>1, FaultType DEF AcknowledgeCommand, TypeOK
  <2>4. QED
    BY ZenonT(40), <1>14, <2>1, <2>2, <2>3 DEF AcknowledgeCommand, Answer, Respond, Settle, TypeOK
<1>15. ASSUME NEW r \in requests, RetryCommand(r)
       PROVE  TypeOK' /\ Holding'
  <2>1. r.cmd \in Commands /\ r.att \in Attempts /\ requests' \subseteq Requests
    BY ZenonT(40), <1>15 DEF RetryCommand, Answer, TypeOK, Requests
  <2>2. reply' \in [Agents -> {"none", "ok", "err"}] /\ Holding'
    BY ZenonT(40), <1>15, RespondType DEF RetryCommand, Answer
  <2>3. hit' \in [Commands -> SUBSET Attempts]
    BY ZenonT(40), <1>15, <2>1, FaultType DEF RetryCommand, TypeOK
  <2>4. redeliverIn' \in [Commands -> Nat]
    <3>1. RetryAccepted(r) => Ticks(retryDelay(r.att)) \in Nat
      BY SMTT(40), DeliveryAssumption, TicksNat DEF RetryAccepted
    <3>2. QED
      BY ZenonT(40), <1>15, <2>1, <3>1 DEF RetryCommand, Nak, TypeOK
  <2>5. QED
    BY ZenonT(40), <1>15, <2>1, <2>2, <2>3, <2>4 DEF RetryCommand, Answer, Respond, Nak, TypeOK
<1>16. ASSUME NEW r \in requests, RejectCommand(r)
       PROVE  TypeOK' /\ Holding'
  <2>1. r.cmd \in Commands /\ r.att \in Attempts /\ requests' \subseteq Requests
    BY ZenonT(40), <1>16 DEF RejectCommand, Answer, TypeOK, Requests
  <2>2. reply' \in [Agents -> {"none", "ok", "err"}] /\ Holding'
    BY ZenonT(40), <1>16, RespondType DEF RejectCommand, Answer, TypeOK, Holding
  <2>3. hit' \in [Commands -> SUBSET Attempts]
    BY ZenonT(40), <1>16, <2>1, FaultType DEF RejectCommand, TypeOK
  <2>4. QED
    BY SMTT(40), <1>16, <2>1, <2>2, <2>3 DEF RejectCommand, Answer, Respond, TypeOK
<1>17. ASSUME NEW r \in requests, DropRequest(r)
       PROVE  TypeOK' /\ Holding'
  <2>1. hit' \in [Commands -> SUBSET Attempts]
    BY ZenonT(40), <1>17, FaultType DEF DropRequest, TypeOK, Requests
  <2>2. QED
    BY ZenonT(40), <1>17, <2>1 DEF DropRequest, TypeOK, Holding
<1>18. ASSUME NEW c \in Commands, NEW a \in Attempts, Terminate(c, a)
       PROVE  TypeOK' /\ Holding'
  <2>1. reply' \in [Agents -> {"none", "ok", "err"}] /\ Holding'
    BY ZenonT(40), <1>18, RespondType DEF Terminate
  <2>2. hit' \in [Commands -> SUBSET Attempts]
    BY ZenonT(40), <1>18, FaultType DEF Terminate, TypeOK
  <2>3. /\ msg' \in [Commands -> {"pending", "acked", "termed", "exhausted"}]
        /\ UNCHANGED <<delivered, redeliverIn>>
    BY ZenonT(40), <1>18 DEF Terminate, Settle, TypeOK
  <2>4. UNCHANGED <<pc, cur, att, reasonFits, monitored>>
    BY ZenonT(40), <1>18 DEF Terminate, Respond
  <2>5. QED
    BY ZenonT(40), <1>18, <2>1, <2>2, <2>3, <2>4 DEF Terminate, TypeOK
<1>19. CASE Tick
  <2>1. redeliverIn' \in [Commands -> Nat] /\ lease' \in [Commands -> [Attempts -> Nat]]
    BY ZenonT(40), <1>19, DecNat DEF Tick, TypeOK
  <2>2. expireIn' \in [Commands -> Nat \cup {-1, NoExpiry}]
    BY SMTT(40), <1>19 DEF Tick, TypeOK, NoExpiry
  <2>3. hit' \in [Commands -> SUBSET Attempts]
    BY ZenonT(40), <1>19 DEF Tick, TypeOK
  <2>4. QED
    BY ZenonT(40), <1>19, <2>1, <2>2, <2>3 DEF Tick, TypeOK, Holding
<1>20. CASE UNCHANGED vars
  BY ZenonT(40), <1>20 DEF vars, TypeOK, Holding
<1>21. QED
  BY ZenonT(40), <1>1, <1>2, <1>3, <1>4, <1>5, <1>6, <1>7, <1>8, <1>9, <1>10, <1>11, <1>12, <1>13,
     <1>14, <1>15, <1>16, <1>17, <1>18, <1>19, <1>20 DEF Next, AgentStep, GatewayStep, Poll

\* Every variable keeps its type in every reachable state, and an agent that is
\* not polling holds a delivery: executeCommand never runs without one.
THEOREM TypeCorrect == Spec => [](TypeOK /\ Holding)
<1>1. QED
  BY InitType, NextType, PTL DEF Spec

-----------------------------------------------------------------------------
(* The inductive invariant *)

\* Storing an event never withdraws an announcement, and makes one only for the
\* command of a job-created event.
LEMMA StoreAnnounces ==
  ASSUME TypeOK, NEW c \in Commands, NEW op \in EventOps, StoreEvent(c, op)
  PROVE  \A d \in Commands :
           Announced(d)' <=> Announced(d) \/ (d = c /\ op = "job-created")
<1>1. "job-created" \in EventIDs /\ (EventID(op) = "job-created" <=> op = "job-created")
  BY ZenonT(40) DEF EventIDs, EventID, EventOps
<1>2. op # "none"
  BY ZenonT(40) DEF EventOps
<1>3. QED
  BY ZenonT(40), <1>1, <1>2, StoreEffect DEF Announced

\* A step that leaves the event store alone leaves the announcements alone.
LEMMA SameAnnounced ==
  ASSUME UNCHANGED events PROVE \A c : Announced(c)' <=> Announced(c)
  BY ZenonT(40) DEF Announced

\* DeliveryInv holds initially.
LEMMA InitInv == Init => DeliveryInv
  BY SMTT(40) DEF Init, DeliveryInv, Holding, Announced, EventIDs

\* Every step keeps DeliveryInv.
LEMMA NextInv == TypeOK /\ DeliveryInv /\ [Next]_vars => DeliveryInv'
<1> SUFFICES ASSUME TypeOK, DeliveryInv, [Next]_vars PROVE DeliveryInv'
  OBVIOUS
<1> USE DEF streamVars, commandVars, gatewayVars, agentVars
<1>0. Holding /\ Holding'
  BY ZenonT(40), NextType DEF DeliveryInv
<1>1. ASSUME NEW g \in Agents, NEW c \in Commands, NextCommandDeliver(g, c)
      PROVE  DeliveryInv'
  BY ZenonT(40), <1>0, <1>1, SameAnnounced DEF NextCommandDeliver, Fetch, DeliveryInv, TypeOK
<1>2. ASSUME NEW g \in Agents, NEW c \in Commands, NextCommandReject(g, c)
      PROVE  DeliveryInv'
  BY ZenonT(40), <1>0, <1>2, SameAnnounced DEF NextCommandReject, Fetch, DeliveryInv
<1>3. ASSUME NEW g \in Agents, NextCommandEmpty(g)
      PROVE  DeliveryInv'
  BY ZenonT(40), <1>0, <1>3, SameAnnounced DEF NextCommandEmpty, DeliveryInv, vars
<1>4. ASSUME NEW g \in Agents,
             RejectUnsupported(g) \/ ReportExpired(g) \/ AfterErrorReport(g)
      PROVE  DeliveryInv'
  BY SMTT(40), <1>0, <1>4, SameAnnounced
     DEF RejectUnsupported, ReportExpired, AfterErrorReport, Call, DeliveryInv, TypeOK
<1>5. ASSUME NEW g \in Agents, CreateJob(g)
      PROVE  DeliveryInv'
  BY SMTT(40), <1>0, <1>5, SameAnnounced DEF CreateJob, Call, DeliveryInv, TypeOK
<1>6. ASSUME NEW g \in Agents, CreateJobFails(g)
      PROVE  DeliveryInv'
  <2>1. PICK op \in {"terminal-error", "retryable-error"}, fits \in BOOLEAN : Call(g, op, fits)
    BY ZenonT(40), <1>6 DEF CreateJobFails, AfterCreateError
  <2>2. job \subseteq job'
    BY ZenonT(40), <1>6 DEF CreateJobFails
  <2>3. QED
    BY SMTT(40), <1>0, <1>6, <2>1, <2>2, SameAnnounced DEF CreateJobFails, Call, DeliveryInv, TypeOK
<1>7. ASSUME NEW g \in Agents, AfterJobCreated(g)
      PROVE  DeliveryInv'
  <2>1. \A c : Announced(c)' <=> Announced(c)
    BY ZenonT(40), <1>7, SameAnnounced DEF AfterJobCreated
  <2>2. \A r \in requests' : r.op = "ack" => Announced(r.cmd)
    BY SMTT(40), <1>7 DEF AfterJobCreated, Call, DeliveryInv
  <2>3. \A r \in requests' : r.op = "job-created" => r.cmd \in job
    BY SMTT(40), <1>7 DEF AfterJobCreated, Call, DeliveryInv
  <2>4. \A h \in Agents : pc'[h] = "job-created" =>
          pc[h] = "job-created" /\ reply'[h] = reply[h] /\ cur'[h] = cur[h]
    BY ZenonT(40), <1>7 DEF AfterJobCreated, Call, TypeOK
  <2>5. QED
    BY ZenonT(40), <1>0, <1>7, <2>1, <2>2, <2>3, <2>4 DEF AfterJobCreated, DeliveryInv
<1>8. ASSUME NEW g \in Agents, AfterSettlement(g) \/ Crash(g)
      PROVE  DeliveryInv'
  BY ZenonT(40), <1>0, <1>8, SameAnnounced DEF AfterSettlement, Crash, Return, DeliveryInv, TypeOK
<1>9. ASSUME NEW g \in Agents, GiveUp(g)
      PROVE  DeliveryInv'
  BY ZenonT(40), <1>0, <1>9, SameAnnounced DEF GiveUp, DeliveryInv, TypeOK
<1>10. ASSUME NEW g \in Agents, NEW c \in Commands, MonitorReport(g, c)
       PROVE  DeliveryInv'
  <2>1. "terminal-error" \in EventOps
    BY ZenonT(40) DEF EventOps
  <2>2. \A d \in Commands : Announced(d)' <=> Announced(d)
    BY ZenonT(40), <1>10, <2>1, StoreAnnounces DEF MonitorReport
  <2>3. QED
    BY ZenonT(40), <1>0, <1>10, <2>2 DEF MonitorReport, DeliveryInv, TypeOK, Requests, Holding
<1>11. ASSUME NEW g \in Agents, NEW c \in Commands, MonitorStop(g, c)
       PROVE  DeliveryInv'
  BY ZenonT(40), <1>0, <1>11, SameAnnounced DEF MonitorStop, DeliveryInv
<1>12. ASSUME NEW c \in Commands, Exhaust(c)
       PROVE  DeliveryInv'
  BY ZenonT(40), <1>0, <1>12, SameAnnounced DEF Exhaust, DeliveryInv, TypeOK
<1>13. ASSUME NEW r \in requests, PostEvent(r)
       PROVE  DeliveryInv'
  <2>1. r.cmd \in Commands /\ r.op \in EventOps /\ \A q \in requests : q.cmd \in Commands
    BY ZenonT(40), <1>13 DEF PostEvent, TypeOK, Requests
  <2>2. CASE StoreEvent(r.cmd, r.op) /\ Answer(r, "ok") /\ UNCHANGED hit
    <3>1. \A d \in Commands :
            Announced(d)' <=> Announced(d) \/ (d = r.cmd /\ r.op = "job-created")
      BY ZenonT(40), <2>1, <2>2, StoreAnnounces
    <3>2. QED
      BY ZenonT(40), <1>0, <1>13, <2>1, <2>2, <3>1
         DEF PostEvent, Answer, Respond, Awaits, DeliveryInv, TypeOK, Holding
  <2>3. CASE Answer(r, "err") /\ Fault(r.cmd, r.att) /\ UNCHANGED events
    BY ZenonT(40), <1>0, <1>13, <2>3, SameAnnounced DEF PostEvent, Answer, Respond, DeliveryInv, TypeOK
  <2>4. QED
    BY ZenonT(40), <1>13, <2>2, <2>3 DEF PostEvent
<1>14. ASSUME NEW r \in requests, AcknowledgeCommand(r)
       PROVE  DeliveryInv'
  <2>1. \A c \in Commands : msg'[c] = "acked" => msg[c] = "acked" \/ c = r.cmd
    BY ZenonT(40), <1>14 DEF AcknowledgeCommand, Settle, TypeOK
  <2>2. \A c \in Commands : msg'[c] = "termed" => msg[c] = "termed"
    BY ZenonT(40), <1>14 DEF AcknowledgeCommand, Settle, TypeOK
  <2>3. \A g \in Agents : pc[g] = "job-created" => reply'[g] = reply[g]
    BY ZenonT(40), <1>14 DEF AcknowledgeCommand, Answer, Respond, Awaits, TypeOK
  <2>4. requests' \subseteq requests /\ UNCHANGED <<pc, cur>>
    BY ZenonT(40), <1>14 DEF AcknowledgeCommand, Answer, Respond
  <2>5. Announced(r.cmd)
    BY ZenonT(40), <1>14 DEF AcknowledgeCommand, DeliveryInv
  <2>6. QED
    BY ZenonT(40), <1>0, <1>14, <2>1, <2>2, <2>3, <2>4, <2>5, SameAnnounced DEF AcknowledgeCommand, DeliveryInv
<1>15. ASSUME NEW r \in requests, RetryCommand(r)
       PROVE  DeliveryInv'
  BY SMTT(40), <1>0, <1>15, SameAnnounced
     DEF RetryCommand, Answer, Respond, Awaits, Nak, DeliveryInv, TypeOK
<1>16. ASSUME NEW r \in requests, RejectCommand(r)
       PROVE  DeliveryInv'
  BY ZenonT(40), <1>0, <1>16, SameAnnounced
     DEF RejectCommand, Answer, Respond, Awaits, DeliveryInv, TypeOK
<1>17. ASSUME NEW r \in requests, DropRequest(r)
       PROVE  DeliveryInv'
  BY ZenonT(40), <1>0, <1>17, SameAnnounced DEF DropRequest, DeliveryInv
<1>18. ASSUME NEW c \in Commands, NEW a \in Attempts, Terminate(c, a)
       PROVE  DeliveryInv'
  BY ZenonT(40), <1>0, <1>18, SameAnnounced DEF Terminate, Respond, Awaits, Settle, DeliveryInv, TypeOK
<1>19. CASE Tick
  BY ZenonT(40), <1>0, <1>19, SameAnnounced DEF Tick, DeliveryInv
<1>20. CASE UNCHANGED vars
  BY ZenonT(40), <1>0, <1>20, SameAnnounced DEF vars, DeliveryInv
<1>21. QED
  BY ZenonT(40), <1>1, <1>2, <1>3, <1>4, <1>5, <1>6, <1>7, <1>8, <1>9, <1>10, <1>11, <1>12, <1>13,
     <1>14, <1>15, <1>16, <1>17, <1>18, <1>19, <1>20 DEF Next, AgentStep, GatewayStep, Poll

\* DeliveryInv holds in every reachable state.
THEOREM Invariance == Spec => []DeliveryInv
<1>1. QED
  BY InitInv, InitType, NextType, NextInv, PTL DEF Spec

\* An acknowledged command has its Job and its job-created event, for any number
\* of commands, agents, deliveries and lost, late or repeated calls: executeCommand
\* acknowledges only after publishEvent succeeded.
THEOREM AckSafety == Spec => []AckedMeansAnnounced
<1>1. DeliveryInv => AckedMeansAnnounced
  BY ZenonT(40) DEF DeliveryInv, AckedMeansAnnounced
<1>2. QED
  BY <1>1, Invariance, PTL

\* A terminated command is on the dead letter subject: backend.Reject sends +TERM
\* only after the copy is stored.
THEOREM TermSafety == Spec => []TermedMeansDeadLettered
<1>1. DeliveryInv => TermedMeansDeadLettered
  BY ZenonT(40) DEF DeliveryInv, TermedMeansDeadLettered
<1>2. QED
  BY <1>1, Invariance, PTL

-----------------------------------------------------------------------------
(* Refinement *)

\* Initial states map to initial states of CommandOutcome.
LEMMA InitRefines == Init => Outcome!Init
  BY SMTT(40) DEF Init, Outcome!Init, OutcomeOf, Announced, EventIDs

\* Deciding a pending message is a decision of the abstract outcome.
LEMMA DecideRefines ==
  ASSUME TypeOK, NEW c \in Commands, NEW state \in {"acked", "termed", "exhausted"},
         msg[c] = "pending", msg' = [msg EXCEPT ![c] = state], UNCHANGED <<job, events, dlq>>
  PROVE  Outcome!Decide(c, OutcomeOf(state))
<1>1. \A d \in Commands : Announced(d)' <=> Announced(d)
  BY ZenonT(40), SameAnnounced
<1>2. [d \in Commands |-> OutcomeOf(msg'[d])] =
        [[d \in Commands |-> OutcomeOf(msg[d])] EXCEPT ![c] = OutcomeOf(state)]
  BY ZenonT(40) DEF TypeOK
<1>3. OutcomeOf(msg[c]) = "open"
  BY ZenonT(40) DEF OutcomeOf
<1>4. QED
  BY ZenonT(40), <1>1, <1>2, <1>3 DEF Outcome!Decide

\* A step that touches neither the messages' states, the Jobs, the events nor the
\* dead letters is a stutter of CommandOutcome.
LEMMA StutterRefines ==
  ASSUME UNCHANGED <<msg, job, events, dlq>> PROVE UNCHANGED Outcome!vars
  BY ZenonT(40), SameAnnounced DEF Outcome!vars

\* Every step maps to a step of CommandOutcome or to a stutter.
LEMMA NextRefines ==
  TypeOK /\ DeliveryInv /\ [Next]_vars => [Outcome!Next]_(Outcome!vars)
<1> SUFFICES ASSUME TypeOK, DeliveryInv, [Next]_vars
             PROVE  Outcome!Next \/ UNCHANGED Outcome!vars
  OBVIOUS
<1> USE DEF streamVars, commandVars, gatewayVars, agentVars
<1> DEFINE Goal == Outcome!Next \/ UNCHANGED Outcome!vars
<1>1. ASSUME NEW g \in Agents, NEW c \in Commands, NextCommandDeliver(g, c) PROVE Goal
  BY ZenonT(40), <1>1, StutterRefines DEF NextCommandDeliver, Fetch
<1>2. ASSUME NEW g \in Agents, NEW c \in Commands, NextCommandReject(g, c) PROVE Goal
  <2>1. CASE dlq' = dlq \cup {c}
    <3>1. Outcome!DeadLetter(c)
      BY ZenonT(40), <1>2, <2>1, SameAnnounced DEF NextCommandReject, Fetch, Outcome!DeadLetter
    <3>2. QED
      BY ZenonT(40), <3>1 DEF Outcome!Next
  <2>2. QED
    BY ZenonT(40), <1>2, <2>1, StutterRefines DEF NextCommandReject, Fetch
<1>3. ASSUME NEW g \in Agents, NextCommandEmpty(g) PROVE Goal
  BY ZenonT(40), <1>3, StutterRefines DEF NextCommandEmpty, vars
<1>4. ASSUME NEW g \in Agents,
             \/ RejectUnsupported(g) \/ ReportExpired(g) \/ AfterJobCreated(g)
             \/ AfterErrorReport(g) \/ AfterSettlement(g) \/ GiveUp(g) \/ Crash(g)
      PROVE  Goal
  BY ZenonT(40), <1>4, StutterRefines
     DEF RejectUnsupported, ReportExpired, AfterJobCreated, AfterErrorReport,
         AfterSettlement, GiveUp, Crash
<1>5. ASSUME NEW g \in Agents, CreateJob(g) \/ CreateJobFails(g) PROVE Goal
  <2>1. cur[g] \in Commands /\ UNCHANGED <<msg, events, dlq>>
    BY ZenonT(40), <1>5 DEF CreateJob, CreateJobFails, DeliveryInv, Holding
  <2>2. CASE job' = job \cup {cur[g]}
    <3>1. Outcome!Execute(cur[g])
      BY ZenonT(40), <2>1, <2>2, SameAnnounced DEF Outcome!Execute
    <3>2. QED
      BY ZenonT(40), <2>1, <3>1 DEF Outcome!Next
  <2>3. CASE UNCHANGED job
    BY ZenonT(40), <2>1, <2>3, StutterRefines
  <2>4. QED
    BY ZenonT(40), <1>5, <2>2, <2>3 DEF CreateJob, CreateJobFails
<1>6. ASSUME NEW g \in Agents, NEW c \in Commands, MonitorReport(g, c) PROVE Goal
  <2>1. "terminal-error" \in EventOps
    BY ZenonT(40) DEF EventOps
  <2>2. \A d \in Commands : Announced(d)' <=> Announced(d)
    BY ZenonT(40), <1>6, <2>1, StoreAnnounces DEF MonitorReport
  <2>3. QED
    BY ZenonT(40), <1>6, <2>2 DEF MonitorReport, Outcome!vars
<1>7. ASSUME NEW g \in Agents, NEW c \in Commands, MonitorStop(g, c) PROVE Goal
  BY ZenonT(40), <1>7, StutterRefines DEF MonitorStop
<1>8. ASSUME NEW c \in Commands, Exhaust(c) PROVE Goal
  <2>1. Outcome!Decide(c, OutcomeOf("exhausted"))
    BY ZenonT(40), <1>8, DecideRefines DEF Exhaust
  <2>2. QED
    BY ZenonT(40), <2>1 DEF OutcomeOf, Outcome!Drop, Outcome!Next
<1>9. ASSUME NEW r \in requests, PostEvent(r) PROVE Goal
  <2>1. r.cmd \in Commands /\ r.op \in EventOps /\ UNCHANGED <<msg, job, dlq>>
    BY ZenonT(40), <1>9 DEF PostEvent, TypeOK, Requests
  <2>2. CASE StoreEvent(r.cmd, r.op)
    <3>1. \A d \in Commands :
            Announced(d)' <=> Announced(d) \/ (d = r.cmd /\ r.op = "job-created")
      BY ZenonT(40), <2>1, <2>2, StoreAnnounces
    <3>2. CASE r.op = "job-created"
      <4>1. Outcome!Announce(r.cmd)
        BY ZenonT(40), <1>9, <2>1, <3>1, <3>2 DEF Outcome!Announce, DeliveryInv
      <4>2. QED
        BY ZenonT(40), <2>1, <4>1 DEF Outcome!Next
    <3>3. CASE r.op # "job-created"
      BY ZenonT(40), <2>1, <3>1, <3>3 DEF Outcome!vars
    <3>4. QED
      BY ZenonT(40), <3>2, <3>3
  <2>3. QED
    BY ZenonT(40), <1>9, <2>1, <2>2, StutterRefines DEF PostEvent
<1>10. ASSUME NEW r \in requests, AcknowledgeCommand(r) PROVE Goal
  <2>1. r.cmd \in Commands /\ Announced(r.cmd) /\ UNCHANGED <<job, events, dlq>>
    BY ZenonT(40), <1>10 DEF AcknowledgeCommand, DeliveryInv, TypeOK, Requests
  <2>2. CASE msg[r.cmd] = "pending" /\ Settle(r.cmd, "acked")
    <3>1. Outcome!Decide(r.cmd, OutcomeOf("acked"))
      BY ZenonT(40), <2>1, <2>2, DecideRefines DEF Settle
    <3>2. QED
      BY ZenonT(40), <2>1, <3>1 DEF OutcomeOf, Outcome!Accept, Outcome!Next
  <2>3. CASE UNCHANGED msg
    BY ZenonT(40), <2>1, <2>3, StutterRefines
  <2>4. QED
    BY ZenonT(40), <1>10, <2>1, <2>2, <2>3 DEF AcknowledgeCommand, Settle, TypeOK
<1>11. ASSUME NEW r \in requests, RetryCommand(r) \/ DropRequest(r) PROVE Goal
  BY ZenonT(40), <1>11, StutterRefines DEF RetryCommand, DropRequest, Nak
<1>12. ASSUME NEW r \in requests, RejectCommand(r) PROVE Goal
  <2>1. r.cmd \in Commands /\ UNCHANGED <<msg, job, events>>
    BY ZenonT(40), <1>12 DEF RejectCommand, TypeOK, Requests
  <2>2. CASE dlq' = dlq \cup {r.cmd}
    <3>1. Outcome!DeadLetter(r.cmd)
      BY ZenonT(40), <2>1, <2>2, SameAnnounced DEF Outcome!DeadLetter
    <3>2. QED
      BY ZenonT(40), <2>1, <3>1 DEF Outcome!Next
  <2>3. QED
    BY ZenonT(40), <1>12, <2>1, <2>2, StutterRefines DEF RejectCommand
<1>13. ASSUME NEW c \in Commands, NEW a \in Attempts, Terminate(c, a) PROVE Goal
  <2>1. c \in dlq /\ UNCHANGED <<job, events, dlq>>
    BY ZenonT(40), <1>13 DEF Terminate, DeliveryInv
  <2>2. CASE msg[c] = "pending" /\ Settle(c, "termed")
    <3>1. Outcome!Decide(c, OutcomeOf("termed"))
      BY ZenonT(40), <2>1, <2>2, DecideRefines DEF Settle
    <3>2. QED
      BY ZenonT(40), <2>1, <3>1 DEF OutcomeOf, Outcome!Reject, Outcome!Next
  <2>3. CASE UNCHANGED msg
    BY ZenonT(40), <2>1, <2>3, StutterRefines
  <2>4. QED
    BY ZenonT(40), <1>13, <2>1, <2>2, <2>3 DEF Terminate, Settle, TypeOK
<1>14. CASE Tick
  BY ZenonT(40), <1>14, StutterRefines DEF Tick
<1>15. CASE UNCHANGED vars
  BY ZenonT(40), <1>15, StutterRefines DEF vars
<1>16. QED
  BY ZenonT(40), <1>1, <1>2, <1>3, <1>4, <1>5, <1>6, <1>7, <1>8, <1>9, <1>10, <1>11, <1>12, <1>13,
     <1>14, <1>15 DEF Next, AgentStep, GatewayStep, Poll

\* The consumer, the gateway replicas and the agents implement CommandOutcome, for
\* any number of each: nothing acknowledge, reject, retry, a crash or a late call
\* does breaks the order executed, announced, accepted or changes an outcome.
THEOREM Refinement == Spec => ImplementsOutcome
<1>1. QED
  BY InitRefines, NextRefines, TypeCorrect, Invariance, PTL DEF Spec, ImplementsOutcome, Outcome!Spec

-----------------------------------------------------------------------------
(* Timers *)

\* A longer time is at least as many ticks.
LEMMA TicksMonotone ==
  ASSUME NEW s \in Nat, NEW t \in Nat, s <= t PROVE Ticks(s) <= Ticks(t)
<1> DEFINE n == SecondsPerTick
           x == s + n - 1
           y == t + n - 1
           p == x \div n
           q == y \div n
<1>1. n \in Nat /\ n > 0 /\ x \in Nat /\ y \in Nat /\ x <= y
  BY SMTT(40), DeliveryAssumption
<1>2. p \in Nat /\ q \in Nat /\ n * p <= x /\ y < n * q + n
  BY SMTT(40), <1>1
<1> HIDE DEF n, x, y, p, q
<1>3. SUFFICES ASSUME q + 1 <= p PROVE FALSE
  BY SMTT(40), <1>2 DEF Ticks, n, x, y, p, q
<1>4. n * (q + 1) <= n * p
  BY SMTT(40), <1>1, <1>2, <1>3
<1>5. n * (q + 1) = n * q + n
  BY SMTT(40), <1>1, <1>2
<1>6. QED
  BY SMTT(40), <1>1, <1>2, <1>4, <1>5

\* A time that is not zero is at least one tick.
LEMMA TicksPositive == ASSUME NEW s \in Nat, s > 0 PROVE Ticks(s) > 0
<1> DEFINE n == SecondsPerTick
           x == s + n - 1
           p == x \div n
<1>1. n \in Nat /\ n > 0 /\ x \in Nat /\ x >= n
  BY SMTT(40), DeliveryAssumption
<1>2. p \in Nat /\ x < n * p + n
  BY SMTT(40), <1>1
<1> HIDE DEF n, x, p
<1>3. p # 0
  BY SMTT(40), <1>1, <1>2
<1>4. QED
  BY SMTT(40), <1>2, <1>3 DEF Ticks, n, x, p

\* The lease of a fresh receipt is positive and ends no later than its AckWait.
LEMMA LeaseWithinAckWait ==
  /\ LeaseTicks \in Nat /\ AckWaitTicks \in Nat
  /\ 0 < LeaseTicks /\ LeaseTicks <= AckWaitTicks
  BY ZenonT(40), DeliveryAssumption, LimitAssumption, TimersNat, TicksMonotone, TicksPositive
     DEF LeaseTicks, AckWaitTicks

-----------------------------------------------------------------------------
(* Who holds a delivery *)

Settling == {"ack", "retry", "reject"}

\* Deliveries that agents hold and calls name were made; no two agents hold the
\* same one; the only settlement under way is the one its holder waits for, and
\* there is one kind of it.
HeldInv ==
  /\ \A g \in Agents : pc[g] # "poll" => att[g] <= delivered[cur[g]]
  /\ \A r \in requests : r.att <= delivered[r.cmd]
  /\ \A g, h \in Agents :
       pc[g] # "poll" /\ pc[h] # "poll" /\ cur[g] = cur[h] /\ att[g] = att[h] => g = h
  /\ \A g \in Agents, r \in requests :
       pc[g] # "poll" /\ r.cmd = cur[g] /\ r.att = att[g] /\ r.op \in Settling => r.op = pc[g]
  /\ \A r, s \in requests :
       r.cmd = s.cmd /\ r.att = s.att /\ r.op \in Settling /\ s.op \in Settling => r.op = s.op

\* The delivery may still be acknowledged or rejected.
Undecided(c, a) ==
  \/ \E g \in Agents : pc[g] \notin {"poll", "retry"} /\ cur[g] = c /\ att[g] = a
  \/ \E r \in requests : r.op \in {"ack", "reject"} /\ r.cmd = c /\ r.att = a

\* While such a delivery's receipt opens it is the latest one, and the consumer
\* waits for it at least as long as the receipt lasts.
LeaseInv ==
  \A c \in Commands, a \in Attempts :
    Undecided(c, a) /\ lease[c][a] > 0 => delivered[c] = a /\ lease[c][a] <= redeliverIn[c]

\* A step that serves or loses calls and hands deliveries back, at most.
Releases ==
  /\ requests' \subseteq requests
  /\ \A g \in Agents : \/ pc'[g] = "poll"
                       \/ pc'[g] = pc[g] /\ cur'[g] = cur[g] /\ att'[g] = att[g]

\* A step in which an agent goes on with its delivery and calls the gateway.
Advances ==
  \E g \in Agents, op \in Ops, fits \in BOOLEAN :
    pc[g] \notin Settling \cup {"poll"} /\ Call(g, op, fits)

\* Every step has one of six shapes, as far as deliveries and timers go.
StepShape ==
  \/ \E g \in Agents, c \in Commands : NextCommandDeliver(g, c) \/ NextCommandReject(g, c)
  \/ Advances /\ UNCHANGED <<msg, delivered, redeliverIn, lease>>
  \/ \E r \in requests : RetryCommand(r)
  \/ Releases /\ UNCHANGED <<delivered, redeliverIn, lease>>
  \/ Tick

\* Each action of executeCommand, of the gateway and of the consumer has its shape.
LEMMA NextShape == TypeOK /\ Holding /\ [Next]_vars => StepShape
<1> SUFFICES ASSUME TypeOK, Holding, [Next]_vars PROVE StepShape
  OBVIOUS
<1> USE DEF streamVars, commandVars, gatewayVars, agentVars
<1>1. ASSUME NEW g \in Agents, RejectUnsupported(g) \/ ReportExpired(g) \/ CreateJob(g)
      PROVE  StepShape
  <2>1. PICK op \in Ops : Call(g, op, TRUE)
    BY ZenonT(40), <1>1 DEF RejectUnsupported, ReportExpired, CreateJob, Ops, EventOps
  <2>2. pc[g] \notin Settling \cup {"poll"} /\ UNCHANGED <<msg, delivered, redeliverIn, lease>>
    BY ZenonT(40), <1>1 DEF RejectUnsupported, ReportExpired, CreateJob, Settling
  <2>3. QED
    BY ZenonT(40), <2>1, <2>2 DEF StepShape, Advances
<1>2. ASSUME NEW g \in Agents, CreateJobFails(g)
      PROVE  StepShape
  <2>1. PICK op \in Ops, fits \in BOOLEAN : Call(g, op, fits)
    BY ZenonT(40), <1>2 DEF CreateJobFails, AfterCreateError, Ops, EventOps
  <2>2. pc[g] \notin Settling \cup {"poll"} /\ UNCHANGED <<msg, delivered, redeliverIn, lease>>
    BY ZenonT(40), <1>2 DEF CreateJobFails, Settling
  <2>3. QED
    BY ZenonT(40), <2>1, <2>2 DEF StepShape, Advances
<1>3. ASSUME NEW g \in Agents, AfterJobCreated(g) \/ AfterErrorReport(g)
      PROVE  StepShape
  <2>1. PICK op \in Ops, fits \in BOOLEAN : Call(g, op, fits)
    BY ZenonT(40), <1>3 DEF AfterJobCreated, AfterErrorReport, Ops, EventOps, TypeOK
  <2>2. pc[g] \notin Settling \cup {"poll"} /\ UNCHANGED <<msg, delivered, redeliverIn, lease>>
    BY ZenonT(40), <1>3 DEF AfterJobCreated, AfterErrorReport, Settling
  <2>3. QED
    BY ZenonT(40), <2>1, <2>2 DEF StepShape, Advances
<1>4. ASSUME NEW g \in Agents, AfterSettlement(g) \/ Crash(g)
      PROVE  StepShape
  BY ZenonT(40), <1>4 DEF AfterSettlement, Crash, Return, StepShape, Releases, TypeOK
<1>5. ASSUME NEW g \in Agents, GiveUp(g)
      PROVE  StepShape
  BY ZenonT(40), <1>5 DEF GiveUp, StepShape, Releases
<1>6. ASSUME NEW g \in Agents, NEW c \in Commands, MonitorReport(g, c) \/ MonitorStop(g, c)
      PROVE  StepShape
  BY ZenonT(40), <1>6 DEF MonitorReport, MonitorStop, StepShape, Releases
<1>7. ASSUME NEW c \in Commands, Exhaust(c)
      PROVE  StepShape
  BY ZenonT(40), <1>7 DEF Exhaust, StepShape, Releases
<1>8. ASSUME NEW r \in requests, PostEvent(r) \/ AcknowledgeCommand(r) \/ DropRequest(r)
      PROVE  StepShape
  BY ZenonT(40), <1>8 DEF PostEvent, AcknowledgeCommand, DropRequest, Answer, Respond, Settle, StepShape, Releases
<1>9. ASSUME NEW r \in requests, RejectCommand(r)
      PROVE  StepShape
  BY ZenonT(40), <1>9 DEF RejectCommand, Answer, Respond, StepShape, Releases
<1>10. ASSUME NEW c \in Commands, NEW a \in Attempts, Terminate(c, a)
       PROVE  StepShape
  BY ZenonT(40), <1>10 DEF Terminate, Respond, Settle, StepShape, Releases
<1>11. CASE UNCHANGED vars
  BY ZenonT(40), <1>11 DEF vars, StepShape, Releases
<1>12. ASSUME NEW g \in Agents, NextCommandEmpty(g)
       PROVE  StepShape
  BY ZenonT(40), <1>12, <1>11 DEF NextCommandEmpty
<1>13. QED
  BY ZenonT(40), <1>1, <1>2, <1>3, <1>4, <1>5, <1>6, <1>7, <1>8, <1>9, <1>10, <1>11, <1>12
     DEF Next, AgentStep, GatewayStep, Poll, StepShape

\* A step that only releases keeps what HeldInv says.
LEMMA ReleasesHeld ==
  ASSUME TypeOK, Holding, HeldInv, Releases, UNCHANGED delivered PROVE HeldInv'
<1>1. \A g \in Agents : pc'[g] # "poll" => pc'[g] = pc[g] /\ cur'[g] = cur[g] /\ att'[g] = att[g]
  BY ZenonT(40) DEF Releases
<1>2. requests' \subseteq requests
  BY ZenonT(40) DEF Releases
<1>3. QED
  BY ZenonT(40), <1>1, <1>2 DEF HeldInv

\* A call keeps what HeldInv says: its agent had no settlement under way.
LEMMA CallHeld ==
  ASSUME TypeOK, Holding, HeldInv, NEW g \in Agents, NEW op \in Ops, NEW fits \in BOOLEAN,
         pc[g] \notin Settling \cup {"poll"}, Call(g, op, fits), UNCHANGED delivered
  PROVE  HeldInv'
<1> DEFINE q == [op |-> op, cmd |-> cur[g], att |-> att[g], fits |-> fits]
<1>1. /\ requests' = requests \cup {q} /\ cur' = cur /\ att' = att
      /\ pc'[g] = op /\ \A h \in Agents : h # g => pc'[h] = pc[h]
      /\ delivered' = delivered /\ pc[g] # "poll" /\ pc[g] \notin Settling
  BY ZenonT(40) DEF Call, TypeOK
<1>2. q.op = op /\ q.cmd = cur[g] /\ q.att = att[g]
  OBVIOUS
<1> HIDE DEF q
<1>3. \A r \in requests : r.cmd = cur[g] /\ r.att = att[g] => r.op \notin Settling
  BY ZenonT(40), <1>1 DEF HeldInv
<1>4. \A h \in Agents : pc'[h] # "poll" => pc[h] # "poll"
  BY ZenonT(40), <1>1
<1>5. \A h \in Agents : pc'[h] # "poll" => att'[h] <= delivered'[cur'[h]]
  BY ZenonT(40), <1>1, <1>4 DEF HeldInv
<1>6. \A r \in requests' : r.att <= delivered'[r.cmd]
  BY ZenonT(40), <1>1, <1>2 DEF HeldInv
<1>7. \A h, i \in Agents :
        pc'[h] # "poll" /\ pc'[i] # "poll" /\ cur'[h] = cur'[i] /\ att'[h] = att'[i] => h = i
  BY ZenonT(40), <1>1, <1>4 DEF HeldInv
<1>8. \A h \in Agents, r \in requests' :
        pc'[h] # "poll" /\ r.cmd = cur'[h] /\ r.att = att'[h] /\ r.op \in Settling => r.op = pc'[h]
  <2> SUFFICES ASSUME NEW h \in Agents, NEW r \in requests', pc'[h] # "poll",
                      r.cmd = cur'[h], r.att = att'[h], r.op \in Settling
               PROVE  r.op = pc'[h]
    OBVIOUS
  <2>1. CASE r = q
    <3>1. h = g
      BY ZenonT(40), <1>1, <1>2, <1>4, <2>1 DEF HeldInv
    <3>2. QED
      BY ZenonT(40), <1>1, <1>2, <2>1, <3>1
  <2>2. CASE r \in requests
    <3>1. h # g
      BY ZenonT(40), <1>1, <1>3, <2>2
    <3>2. QED
      BY ZenonT(40), <1>1, <2>2, <3>1 DEF HeldInv
  <2>3. QED
    BY ZenonT(40), <1>1, <2>1, <2>2
<1>9. \A r, s \in requests' :
        r.cmd = s.cmd /\ r.att = s.att /\ r.op \in Settling /\ s.op \in Settling => r.op = s.op
  BY SMTT(40), <1>1, <1>2, <1>3 DEF HeldInv
<1>10. QED
  BY ZenonT(40), <1>5, <1>6, <1>7, <1>8, <1>9 DEF HeldInv

\* What a fetch does to the counters and timers.
LEMMA FetchEffect ==
  ASSUME TypeOK, NEW c \in Commands, Fetch(c)
  PROVE  /\ delivered[c] \in Nat /\ delivered[c] + 1 \in Attempts
         /\ delivered'[c] = delivered[c] + 1 /\ redeliverIn'[c] = AckWaitTicks
         /\ \A d \in Commands : d # c => delivered'[d] = delivered[d] /\ redeliverIn'[d] = redeliverIn[d]
         /\ \A d \in Commands, n \in Int : n <= delivered[d] => n <= delivered'[d]
         /\ redeliverIn[c] = 0 /\ msg[c] = "pending" /\ msg' = msg
<1>1. delivered[c] \in 0 .. MaxDeliver /\ delivered[c] < MaxDeliver /\ redeliverIn[c] = 0 /\ msg[c] = "pending"
  BY ZenonT(40) DEF Fetch, Deliverable, TypeOK
<1>2. delivered[c] \in Nat /\ delivered[c] + 1 \in Attempts
  BY SMTT(40), <1>1, DeliveryAssumption DEF Attempts
<1>3. /\ delivered'[c] = delivered[c] + 1 /\ redeliverIn'[c] = AckWaitTicks
      /\ \A d \in Commands : d # c => delivered'[d] = delivered[d] /\ redeliverIn'[d] = redeliverIn[d]
      /\ msg' = msg
  BY ZenonT(40) DEF Fetch, TypeOK
<1>4. \A d \in Commands, n \in Int : n <= delivered[d] => n <= delivered'[d]
  BY SMTT(40), <1>2, <1>3
<1>5. QED
  BY ZenonT(40), <1>1, <1>2, <1>3, <1>4

\* The commands and deliveries of calls and of working agents.
LEMMA HeldTypes ==
  ASSUME TypeOK, Holding
  PROVE  /\ \A g \in Agents : pc[g] # "poll" => cur[g] \in Commands /\ att[g] \in Attempts /\ att[g] \in Int
         /\ \A r \in requests : r \in Requests /\ r.op \in Ops /\ r.cmd \in Commands
                                /\ r.att \in Attempts /\ r.att \in Int
<1>1. \A a \in Attempts : a \in Int
  BY SMTT(40) DEF Attempts
<1>2. QED
  BY ZenonT(40), <1>1 DEF TypeOK, Holding, Requests

\* A fetched command that reaches no agent keeps what HeldInv says.
LEMMA FetchHeld ==
  ASSUME TypeOK, Holding, HeldInv, NEW c \in Commands, Fetch(c), UNCHANGED <<requests, pc, cur, att>>
  PROVE  HeldInv'
  BY ZenonT(40), FetchEffect, HeldTypes DEF HeldInv

\* A delivery handed to an agent is a new one.
LEMMA DeliverHeld ==
  ASSUME TypeOK, Holding, HeldInv, NEW g \in Agents, NEW c \in Commands, Fetch(c),
         pc' = [pc EXCEPT ![g] = "execute"], cur' = [cur EXCEPT ![g] = c],
         att' = [att EXCEPT ![g] = delivered[c] + 1], UNCHANGED requests
  PROVE  HeldInv'
<1>1. /\ pc'[g] = "execute" /\ cur'[g] = c /\ att'[g] = delivered'[c]
      /\ \A h \in Agents : h # g => pc'[h] = pc[h] /\ cur'[h] = cur[h] /\ att'[h] = att[h]
  BY ZenonT(40), FetchEffect DEF TypeOK
<1>2. delivered'[c] = delivered[c] + 1 /\ delivered[c] \in Nat
  BY ZenonT(40), FetchEffect
<1>3. \A h \in Agents : h # g /\ pc[h] # "poll" /\ cur[h] = c => att[h] # delivered'[c]
  BY SMTT(40), <1>2, HeldTypes DEF HeldInv
<1>4. \A r \in requests : r.cmd = c => r.att # delivered'[c]
  BY SMTT(40), <1>2, HeldTypes DEF HeldInv
<1>5. \A h \in Agents : pc'[h] # "poll" => att'[h] <= delivered'[cur'[h]]
  <2>1. att'[g] <= delivered'[cur'[g]]
    BY SMTT(40), <1>1, <1>2
  <2>2. ASSUME NEW h \in Agents, h # g, pc[h] # "poll" PROVE att[h] <= delivered'[cur[h]]
    BY ZenonT(40), <2>2, FetchEffect, HeldTypes DEF HeldInv
  <2>3. QED
    BY ZenonT(40), <1>1, <2>1, <2>2
<1>6. \A r \in requests : r.att <= delivered'[r.cmd]
  BY ZenonT(40), FetchEffect, HeldTypes DEF HeldInv
<1>7. \A h, i \in Agents :
        pc'[h] # "poll" /\ pc'[i] # "poll" /\ cur'[h] = cur'[i] /\ att'[h] = att'[i] => h = i
  BY SMTT(40), <1>1, <1>3 DEF HeldInv
<1>8. \A h \in Agents, r \in requests :
        pc'[h] # "poll" /\ r.cmd = cur'[h] /\ r.att = att'[h] /\ r.op \in Settling => r.op = pc'[h]
  BY SMTT(40), <1>1, <1>4 DEF HeldInv
<1>9. QED
  BY ZenonT(40), <1>5, <1>6, <1>7, <1>8 DEF HeldInv

\* Every step keeps HeldInv.
LEMMA NextHeld == TypeOK /\ Holding /\ HeldInv /\ [Next]_vars => HeldInv'
<1> SUFFICES ASSUME TypeOK, Holding, HeldInv, [Next]_vars PROVE HeldInv'
  OBVIOUS
<1> USE DEF streamVars, commandVars, gatewayVars, agentVars
<1>1. ASSUME NEW g \in Agents, NEW c \in Commands, NextCommandDeliver(g, c)
      PROVE  HeldInv'
  <2>1. Fetch(c) /\ UNCHANGED requests
    BY ZenonT(40), <1>1 DEF NextCommandDeliver
  <2>2. CASE UNCHANGED <<pc, cur, att>>
    BY ZenonT(40), <2>1, <2>2, FetchHeld
  <2>3. CASE /\ pc' = [pc EXCEPT ![g] = "execute"]
             /\ cur' = [cur EXCEPT ![g] = c]
             /\ att' = [att EXCEPT ![g] = delivered[c] + 1]
    BY ZenonT(40), <2>1, <2>3, DeliverHeld
  <2>4. QED
    BY ZenonT(40), <1>1, <2>2, <2>3 DEF NextCommandDeliver
<1>2. ASSUME NEW g \in Agents, NEW c \in Commands, NextCommandReject(g, c)
      PROVE  HeldInv'
  <2>1. Fetch(c) /\ UNCHANGED <<requests, pc, cur, att>>
    BY ZenonT(40), <1>2 DEF NextCommandReject
  <2>2. QED
    BY ZenonT(40), <2>1, FetchHeld
<1>3. CASE Advances /\ UNCHANGED <<msg, delivered, redeliverIn, lease>>
  <2>1. UNCHANGED delivered
    BY ZenonT(40), <1>3
  <2>2. QED
    BY ZenonT(40), <1>3, <2>1, CallHeld DEF Advances
<1>4. ASSUME NEW r \in requests, RetryCommand(r)
      PROVE  HeldInv'
  <2>1. Releases /\ UNCHANGED delivered
    BY ZenonT(40), <1>4 DEF RetryCommand, Nak, Answer, Respond, Releases
  <2>2. QED
    BY ZenonT(40), <2>1, ReleasesHeld
<1>5. CASE Releases /\ UNCHANGED <<delivered, redeliverIn, lease>>
  <2>1. UNCHANGED delivered
    BY ZenonT(40), <1>5
  <2>2. QED
    BY ZenonT(40), <1>5, <2>1, ReleasesHeld
<1>6. CASE Tick
  <2>1. Releases /\ UNCHANGED delivered
    BY ZenonT(40), <1>6 DEF Tick, Releases
  <2>2. QED
    BY ZenonT(40), <2>1, ReleasesHeld
<1>7. QED
  BY ZenonT(40), <1>1, <1>2, <1>3, <1>4, <1>5, <1>6, NextShape DEF StepShape

-----------------------------------------------------------------------------
(* The lease *)

\* Releasing makes no settled delivery undecided again.
LEMMA ReleasesUndecided ==
  ASSUME Releases, NEW c, NEW a PROVE Undecided(c, a)' => Undecided(c, a)
<1>1. ASSUME NEW g \in Agents, pc'[g] \notin {"poll", "retry"}, cur'[g] = c, att'[g] = a
      PROVE  Undecided(c, a)
  BY ZenonT(40), <1>1 DEF Releases, Undecided
<1>2. ASSUME NEW r \in requests', r.op \in {"ack", "reject"}, r.cmd = c, r.att = a
      PROVE  Undecided(c, a)
  BY ZenonT(40), <1>2 DEF Releases, Undecided
<1>3. QED
  BY ZenonT(40), <1>1, <1>2 DEF Undecided

\* Neither does a call: its delivery was undecided before.
LEMMA CallUndecided ==
  ASSUME TypeOK, NEW g \in Agents, NEW op \in Ops, NEW fits \in BOOLEAN,
         pc[g] \notin Settling \cup {"poll"}, Call(g, op, fits), NEW c, NEW a
  PROVE  Undecided(c, a)' => Undecided(c, a)
<1> DEFINE q == [op |-> op, cmd |-> cur[g], att |-> att[g], fits |-> fits]
<1>1. /\ requests' = requests \cup {q} /\ cur' = cur /\ att' = att
      /\ \A h \in Agents : h # g => pc'[h] = pc[h]
      /\ pc[g] \notin {"poll", "retry"}
  BY ZenonT(40) DEF Call, TypeOK, Settling
<1>2. q.cmd = cur[g] /\ q.att = att[g]
  OBVIOUS
<1> HIDE DEF q
<1>3. cur[g] = c /\ att[g] = a => Undecided(c, a)
  BY ZenonT(40), <1>1 DEF Undecided
<1>4. ASSUME NEW h \in Agents, pc'[h] \notin {"poll", "retry"}, cur'[h] = c, att'[h] = a
      PROVE  Undecided(c, a)
  BY ZenonT(40), <1>1, <1>3, <1>4 DEF Undecided
<1>5. ASSUME NEW r \in requests', r.op \in {"ack", "reject"}, r.cmd = c, r.att = a
      PROVE  Undecided(c, a)
  BY ZenonT(40), <1>1, <1>2, <1>3, <1>5 DEF Undecided
<1>6. QED
  BY ZenonT(40), <1>4, <1>5 DEF Undecided

\* A step under which deliveries are only decided and timers stand keeps LeaseInv.
LEMMA TimersStand ==
  ASSUME LeaseInv, UNCHANGED <<delivered, redeliverIn, lease>>,
         \A c \in Commands, a \in Attempts : Undecided(c, a)' => Undecided(c, a)
  PROVE  LeaseInv'
  BY ZenonT(40) DEF LeaseInv

\* A fetch happens when the latest delivery's AckWait is over, so by then no
\* undecided delivery of the command has a receipt that opens.
LEMMA FetchLease ==
  ASSUME TypeOK, LeaseInv, NEW c \in Commands, Fetch(c), NEW a \in Attempts, Undecided(c, a)
  PROVE  ~(lease[c][a] > 0)
<1>1. redeliverIn[c] = 0 /\ lease[c][a] \in Nat
  BY SMTT(40), FetchEffect DEF TypeOK
<1>2. QED
  BY SMTT(40), <1>1 DEF LeaseInv

\* A delivery for which the retry endpoint is asked can no longer be acknowledged
\* or rejected.
LEMMA RetryDecides ==
  ASSUME TypeOK, Holding, HeldInv, NEW r \in requests, r.op = "retry"
  PROVE  ~Undecided(r.cmd, r.att)
  BY ZenonT(40) DEF HeldInv, Undecided, Settling

\* Every step keeps LeaseInv.
LEMMA NextLease == TypeOK /\ Holding /\ HeldInv /\ LeaseInv /\ [Next]_vars => LeaseInv'
<1> SUFFICES ASSUME TypeOK, Holding, HeldInv, LeaseInv, [Next]_vars PROVE LeaseInv'
  OBVIOUS
<1> USE DEF streamVars, commandVars, gatewayVars, agentVars
<1>1. ASSUME NEW g \in Agents, NEW c \in Commands, NextCommandDeliver(g, c)
      PROVE  LeaseInv'
  <2> DEFINE b == delivered[c] + 1
  <2>1. Fetch(c) /\ UNCHANGED requests /\ lease' = [lease EXCEPT ![c][b] = LeaseTicks]
    BY ZenonT(40), <1>1 DEF NextCommandDeliver
  <2>2. /\ b \in Attempts /\ delivered'[c] = b /\ redeliverIn'[c] = AckWaitTicks
        /\ \A d \in Commands : d # c => delivered'[d] = delivered[d] /\ redeliverIn'[d] = redeliverIn[d]
    BY ZenonT(40), <2>1, FetchEffect
  <2> HIDE DEF b
  <2>3. /\ lease'[c][b] = LeaseTicks
        /\ \A d \in Commands, a \in Attempts : <<d, a>> # <<c, b>> => lease'[d][a] = lease[d][a]
    <3>1. lease[c] \in [Attempts -> Nat] /\ lease'[c] = [lease[c] EXCEPT ![b] = LeaseTicks]
      BY ZenonT(40), <2>1 DEF TypeOK
    <3>2. \A d \in Commands : d # c => lease'[d] = lease[d]
      BY ZenonT(40), <2>1 DEF TypeOK
    <3>3. QED
      BY ZenonT(40), <2>2, <3>1, <3>2
  <2>4. \A d \in Commands, a \in Attempts :
          <<d, a>> # <<c, b>> /\ Undecided(d, a)' => Undecided(d, a)
    <3> SUFFICES ASSUME NEW d \in Commands, NEW a \in Attempts, <<d, a>> # <<c, b>>, Undecided(d, a)'
                 PROVE  Undecided(d, a)
      OBVIOUS
    <3>1. \A h \in Agents : \/ pc'[h] = pc[h] /\ cur'[h] = cur[h] /\ att'[h] = att[h]
                            \/ cur'[h] = c /\ att'[h] = b
      BY ZenonT(40), <1>1 DEF NextCommandDeliver, TypeOK, b
    <3>2. QED
      BY ZenonT(40), <2>1, <3>1 DEF Undecided
  <2> SUFFICES ASSUME NEW d \in Commands, NEW a \in Attempts, Undecided(d, a)', lease'[d][a] > 0
               PROVE  delivered'[d] = a /\ lease'[d][a] <= redeliverIn'[d]
    BY ZenonT(40) DEF LeaseInv
  <2>5. CASE <<d, a>> = <<c, b>>
    BY ZenonT(40), <2>2, <2>3, <2>5, LeaseWithinAckWait
  <2>6. CASE <<d, a>> # <<c, b>>
    <3>1. Undecided(d, a) /\ lease[d][a] > 0
      BY ZenonT(40), <2>3, <2>4, <2>6
    <3>2. d # c
      BY ZenonT(40), <2>1, <3>1, FetchLease
    <3>3. QED
      BY ZenonT(40), <2>2, <2>3, <2>6, <3>1, <3>2 DEF LeaseInv
  <2>7. QED
    BY ZenonT(40), <2>5, <2>6
<1>2. ASSUME NEW g \in Agents, NEW c \in Commands, NextCommandReject(g, c)
      PROVE  LeaseInv'
  <2>1. Fetch(c) /\ UNCHANGED <<requests, pc, cur, att, lease>>
    BY ZenonT(40), <1>2 DEF NextCommandReject
  <2> SUFFICES ASSUME NEW d \in Commands, NEW a \in Attempts, Undecided(d, a)', lease'[d][a] > 0
               PROVE  delivered'[d] = a /\ lease'[d][a] <= redeliverIn'[d]
    BY ZenonT(40) DEF LeaseInv
  <2>2. Undecided(d, a) /\ lease[d][a] > 0
    BY ZenonT(40), <2>1 DEF Undecided
  <2>3. d # c
    BY ZenonT(40), <2>1, <2>2, FetchLease
  <2>4. QED
    BY ZenonT(40), <2>1, <2>2, <2>3, FetchEffect DEF LeaseInv
<1>3. CASE Advances /\ UNCHANGED <<msg, delivered, redeliverIn, lease>>
  <2>1. \A c \in Commands, a \in Attempts : Undecided(c, a)' => Undecided(c, a)
    BY ZenonT(40), <1>3, CallUndecided DEF Advances
  <2>2. QED
    BY ZenonT(40), <1>3, <2>1, TimersStand
<1>4. ASSUME NEW r \in requests, RetryCommand(r)
      PROVE  LeaseInv'
  <2>1. Releases /\ UNCHANGED <<delivered, lease>> /\ r.op = "retry"
    BY ZenonT(40), <1>4 DEF RetryCommand, Nak, Answer, Respond, Releases
  <2>2. \A d \in Commands : redeliverIn'[d] # redeliverIn[d] => d = r.cmd /\ delivered[d] = r.att
    BY ZenonT(40), <1>4 DEF RetryCommand, Nak, TypeOK
  <2>3. ~Undecided(r.cmd, r.att)
    BY ZenonT(40), <2>1, RetryDecides
  <2> SUFFICES ASSUME NEW d \in Commands, NEW a \in Attempts, Undecided(d, a)', lease'[d][a] > 0
               PROVE  delivered'[d] = a /\ lease'[d][a] <= redeliverIn'[d]
    BY ZenonT(40) DEF LeaseInv
  <2>4. Undecided(d, a) /\ lease[d][a] > 0
    BY ZenonT(40), <2>1, ReleasesUndecided
  <2>5. delivered[d] = a /\ lease[d][a] <= redeliverIn[d]
    BY ZenonT(40), <2>4 DEF LeaseInv
  <2>6. redeliverIn'[d] = redeliverIn[d]
    BY ZenonT(40), <2>2, <2>3, <2>4, <2>5
  <2>7. QED
    BY ZenonT(40), <2>1, <2>5, <2>6
<1>5. CASE Releases /\ UNCHANGED <<delivered, redeliverIn, lease>>
  <2>1. \A c \in Commands, a \in Attempts : Undecided(c, a)' => Undecided(c, a)
    BY ZenonT(40), <1>5, ReleasesUndecided
  <2>2. QED
    BY ZenonT(40), <1>5, <2>1, TimersStand
<1>6. CASE Tick
  <2>1. UNCHANGED <<requests, pc, cur, att, delivered>>
    BY ZenonT(40), <1>6 DEF Tick
  <2> SUFFICES ASSUME NEW d \in Commands, NEW a \in Attempts, Undecided(d, a)', lease'[d][a] > 0
               PROVE  delivered'[d] = a /\ lease'[d][a] <= redeliverIn'[d]
    BY ZenonT(40) DEF LeaseInv
  <2>2. Undecided(d, a)
    BY ZenonT(40), <2>1 DEF Undecided
  <2>3. lease'[d][a] = Dec(lease[d][a]) /\ redeliverIn'[d] = Dec(redeliverIn[d])
    BY ZenonT(40), <1>6 DEF Tick
  <2>4. lease[d][a] \in Nat /\ redeliverIn[d] \in Nat
    BY ZenonT(40) DEF TypeOK
  <2>5. lease[d][a] > 0
    BY ZenonT(40), <2>3, <2>4 DEF Dec
  <2>6. delivered[d] = a /\ lease[d][a] <= redeliverIn[d]
    BY ZenonT(40), <2>2, <2>5 DEF LeaseInv
  <2>7. QED
    BY SMTT(40), <2>1, <2>3, <2>4, <2>6 DEF Dec
<1>7. QED
  BY ZenonT(40), <1>1, <1>2, <1>3, <1>4, <1>5, <1>6, NextShape DEF StepShape

\* Nobody holds a delivery initially.
LEMMA InitLease == Init => HeldInv /\ LeaseInv
  BY ZenonT(40) DEF Init, HeldInv, LeaseInv, Undecided

\* A receipt that still opens belongs to the latest delivery, for every number of
\* agents and commands and for every lease within the AckWait: a holder that was
\* overtaken finds its receipt expired, in AckReceipt as in RejectReceipt.
THEOREM LeaseIsExclusive == Spec => []LeaseExclusive
<1>1. TypeOK /\ Holding /\ LeaseInv => LeaseExclusive
  <2> SUFFICES ASSUME TypeOK, Holding, LeaseInv PROVE LeaseExclusive
    OBVIOUS
  <2>1. ASSUME NEW g \in Agents, pc[g] \notin {"poll", "retry"}, lease[cur[g]][att[g]] > 0
        PROVE  delivered[cur[g]] = att[g]
    BY ZenonT(40), <2>1 DEF LeaseInv, Undecided, Holding
  <2>2. ASSUME NEW r \in requests, r.op \in {"ack", "reject"}, ReceiptOpens(r)
        PROVE  delivered[r.cmd] = r.att
    BY ZenonT(40), <2>2, HeldTypes DEF LeaseInv, Undecided, ReceiptOpens
  <2>3. QED
    BY ZenonT(40), <2>1, <2>2 DEF LeaseExclusive
<1>2. QED
  BY <1>1, InitType, InitLease, NextType, NextHeld, NextLease, PTL DEF Spec

-----------------------------------------------------------------------------
(* The last delivery *)

Held(c, a) == \E g \in Agents : pc[g] # "poll" /\ cur[g] = c /\ att[g] = a

\* No rejection reason is too long for the endpoint.
FitsInv ==
  /\ \A r \in requests : r.fits
  /\ \A g \in Agents : reasonFits[g]

\* The receipt of an undisturbed delivery opens as long as it is held or named by
\* a call.
OpenInv ==
  /\ \A g \in Agents : pc[g] # "poll" /\ att[g] \notin hit[cur[g]] => lease[cur[g]][att[g]] > 0
  /\ \A r \in requests : r.att \notin hit[r.cmd] => lease[r.cmd][r.att] > 0

\* The last delivery is handed back for another one only if it was disturbed.
RetryInv ==
  /\ \A g \in Agents : pc[g] = "job-created" /\ reply[g] = "err" => att[g] \in hit[cur[g]]
  /\ \A g \in Agents : pc[g] = "retryable-error" => att[g] < AgentDeliveries
  /\ \A g \in Agents : pc[g] = "retry" => att[g] < AgentDeliveries \/ att[g] \in hit[cur[g]]
  /\ \A r \in requests : r.op = "retry" => r.att < AgentDeliveries \/ r.att \in hit[r.cmd]

\* An undisturbed acknowledgement or rejection that was answered was carried out.
SettledInv ==
  \A g \in Agents :
    pc[g] \in {"ack", "reject"} /\ reply[g] # "none" /\ att[g] \notin hit[cur[g]]
      => msg[cur[g]] # "pending"

\* The consumer still waits for an undisturbed last delivery, and someone is at
\* work on it.
LastInv ==
  \A c \in Commands :
    msg[c] = "pending" /\ delivered[c] = MaxDeliver /\ MaxDeliver \notin hit[c]
      => redeliverIn[c] > 0 /\ (Held(c, MaxDeliver) \/ <<c, MaxDeliver>> \in terminating)

DropInv ==
  FitsInv /\ OpenInv /\ RetryInv /\ SettledInv /\ LastInv /\ DroppedOnlyAfterFault

\* What a step does that hands no delivery out and makes no call.

\* Disturbances are remembered, a settled message stays settled, and a message is
\* dropped only after its last delivery was disturbed.
HistoryKept ==
  /\ \A c \in Commands : hit[c] \subseteq hit'[c]
  /\ \A c \in Commands : msg'[c] = "pending" => msg[c] = "pending"
  /\ \A c \in Commands : msg'[c] = "exhausted" => msg[c] = "exhausted" \/ MaxDeliver \in hit'[c]

\* A receipt in use expires only under a disturbance.
LeaseKept ==
  \A c \in Commands, a \in Attempts :
    InProgress(c, a) /\ a \notin hit'[c] /\ lease[c][a] > 0 => lease'[c][a] > 0

\* An answer that reaches an agent is due to a disturbance or tells what happened.
ReplyBacked ==
  \A g \in Agents : pc'[g] # "poll" =>
    \/ reply'[g] = reply[g]
    \/ att[g] \in hit'[cur[g]]
    \/ /\ pc[g] = "job-created" => reply'[g] = "ok"
       /\ pc[g] \in {"ack", "reject"} => msg'[cur[g]] # "pending"

\* Work on an undisturbed last delivery goes on until the message is settled.
LastKept ==
  /\ UNCHANGED delivered
  /\ \A c \in Commands :
       msg'[c] = "pending" /\ delivered[c] = MaxDeliver /\ MaxDeliver \notin hit'[c] =>
         /\ redeliverIn[c] > 0 /\ InProgress(c, MaxDeliver) => redeliverIn'[c] > 0
         /\ Held(c, MaxDeliver) => Held(c, MaxDeliver)'
         /\ <<c, MaxDeliver>> \in terminating => <<c, MaxDeliver>> \in terminating'

\* Such a step keeps the invariant.
LEMMA QuietDrop ==
  ASSUME TypeOK, Holding, Holding', DropInv, Releases, HistoryKept, LeaseKept, ReplyBacked, LastKept,
         \A g \in Agents : reasonFits'[g] = reasonFits[g] \/ reasonFits'[g] = TRUE
  PROVE  DropInv'
<1>0. MaxDeliver \in Attempts
  BY SMTT(40), DeliveryAssumption DEF Attempts
<1>1. /\ requests' \subseteq requests
      /\ \A g \in Agents : pc'[g] # "poll" => pc'[g] = pc[g] /\ cur'[g] = cur[g] /\ att'[g] = att[g]
  BY ZenonT(40) DEF Releases
<1>2. /\ \A g \in Agents : pc[g] # "poll" => cur[g] \in Commands /\ att[g] \in Attempts
      /\ \A r \in requests : r.cmd \in Commands /\ r.att \in Attempts
  BY ZenonT(40), HeldTypes
<1>3. FitsInv'
  BY ZenonT(40), <1>1 DEF DropInv, FitsInv
<1>4. OpenInv'
  <2>1. ASSUME NEW g \in Agents, pc'[g] # "poll", att'[g] \notin hit'[cur'[g]]
        PROVE  lease'[cur'[g]][att'[g]] > 0
    <3>1. pc[g] # "poll" /\ cur'[g] = cur[g] /\ att'[g] = att[g]
      BY ZenonT(40), <1>1, <2>1
    <3>2. att[g] \notin hit[cur[g]] /\ InProgress(cur[g], att[g])
      BY ZenonT(40), <1>2, <2>1, <3>1 DEF HistoryKept, InProgress
    <3>3. lease[cur[g]][att[g]] > 0
      BY ZenonT(40), <3>1, <3>2 DEF DropInv, OpenInv
    <3>4. QED
      BY ZenonT(40), <1>2, <2>1, <3>1, <3>2, <3>3 DEF LeaseKept
  <2>2. ASSUME NEW r \in requests', r.att \notin hit'[r.cmd]
        PROVE  lease'[r.cmd][r.att] > 0
    <3>1. r \in requests /\ r.att \notin hit[r.cmd] /\ InProgress(r.cmd, r.att)
      BY ZenonT(40), <1>1, <1>2, <2>2 DEF HistoryKept, InProgress
    <3>2. lease[r.cmd][r.att] > 0
      BY ZenonT(40), <3>1 DEF DropInv, OpenInv
    <3>3. QED
      BY ZenonT(40), <1>2, <2>2, <3>1, <3>2 DEF LeaseKept
  <2>3. QED
    BY ZenonT(40), <2>1, <2>2 DEF OpenInv
<1>5. RetryInv'
  <2>1. ASSUME NEW g \in Agents, pc'[g] = "job-created", reply'[g] = "err"
        PROVE  att'[g] \in hit'[cur'[g]]
    <3>1. pc[g] = "job-created" /\ cur'[g] = cur[g] /\ att'[g] = att[g] /\ cur[g] \in Commands
      BY ZenonT(40), <1>1, <1>2, <2>1
    <3>2. reply[g] = "err" \/ att[g] \in hit'[cur[g]]
      BY ZenonT(40), <2>1, <3>1 DEF ReplyBacked
    <3>3. QED
      BY ZenonT(40), <3>1, <3>2 DEF DropInv, RetryInv, HistoryKept
  <2>2. \A g \in Agents : pc'[g] = "retryable-error" => att'[g] < AgentDeliveries
    BY ZenonT(40), <1>1 DEF DropInv, RetryInv
  <2>3. \A g \in Agents : pc'[g] = "retry" => att'[g] < AgentDeliveries \/ att'[g] \in hit'[cur'[g]]
    BY ZenonT(40), <1>1, <1>2 DEF DropInv, RetryInv, HistoryKept
  <2>4. \A r \in requests' : r.op = "retry" => r.att < AgentDeliveries \/ r.att \in hit'[r.cmd]
    BY ZenonT(40), <1>1, <1>2 DEF DropInv, RetryInv, HistoryKept
  <2>5. QED
    BY ZenonT(40), <2>1, <2>2, <2>3, <2>4 DEF RetryInv
<1>6. SettledInv'
  <2> SUFFICES ASSUME NEW g \in Agents, pc'[g] \in {"ack", "reject"}, reply'[g] # "none",
                      att'[g] \notin hit'[cur'[g]]
               PROVE  msg'[cur'[g]] # "pending"
    BY ZenonT(40) DEF SettledInv
  <2>1. /\ pc[g] \in {"ack", "reject"} /\ pc'[g] # "poll"
        /\ cur'[g] = cur[g] /\ att'[g] = att[g] /\ cur[g] \in Commands
    BY ZenonT(40), <1>1, <1>2
  <2>2. att[g] \notin hit[cur[g]]
    BY ZenonT(40), <2>1 DEF HistoryKept
  <2>3. reply[g] # "none" => msg[cur[g]] # "pending"
    BY ZenonT(40), <2>1, <2>2 DEF DropInv, SettledInv
  <2>4. reply'[g] = reply[g] \/ msg'[cur[g]] # "pending"
    BY ZenonT(40), <2>1 DEF ReplyBacked
  <2>5. QED
    BY ZenonT(40), <2>1, <2>3, <2>4 DEF HistoryKept
<1>7. LastInv'
  <2> SUFFICES ASSUME NEW c \in Commands, msg'[c] = "pending", delivered'[c] = MaxDeliver,
                      MaxDeliver \notin hit'[c]
               PROVE  /\ redeliverIn'[c] > 0
                      /\ Held(c, MaxDeliver)' \/ <<c, MaxDeliver>> \in terminating'
    BY ZenonT(40) DEF LastInv
  <2>1. delivered[c] = MaxDeliver /\ msg[c] = "pending" /\ MaxDeliver \notin hit[c]
    BY ZenonT(40) DEF LastKept, HistoryKept
  <2>2. redeliverIn[c] > 0 /\ (Held(c, MaxDeliver) \/ <<c, MaxDeliver>> \in terminating)
    BY ZenonT(40), <2>1 DEF DropInv, LastInv
  <2>3. InProgress(c, MaxDeliver)
    BY ZenonT(40), <2>2 DEF Held, InProgress
  <2>4. QED
    BY ZenonT(40), <2>1, <2>2, <2>3 DEF LastKept
<1>8. DroppedOnlyAfterFault'
  BY ZenonT(40), <1>0 DEF DropInv, DroppedOnlyAfterFault, HistoryKept
<1>9. QED
  BY ZenonT(40), <1>3, <1>4, <1>5, <1>6, <1>7, <1>8 DEF DropInv

\* A call keeps the invariant if its reason fits and, for a delivery handed back,
\* if another delivery follows or this one was disturbed.
LEMMA CallDrop ==
  ASSUME TypeOK, Holding, DropInv, NEW g \in Agents, NEW op \in Ops, pc[g] # "poll",
         Call(g, op, TRUE), UNCHANGED <<msg, delivered, redeliverIn, lease, terminating, hit>>,
         op = "retryable-error" => att[g] < AgentDeliveries,
         op = "retry" => att[g] < AgentDeliveries \/ att[g] \in hit[cur[g]]
  PROVE  DropInv'
<1> DEFINE q == [op |-> op, cmd |-> cur[g], att |-> att[g], fits |-> TRUE]
<1>1. /\ requests' = requests \cup {q} /\ cur' = cur /\ att' = att
      /\ pc'[g] = op /\ reply'[g] = "none" /\ reasonFits'[g] = TRUE
      /\ \A h \in Agents : h # g => pc'[h] = pc[h] /\ reply'[h] = reply[h] /\ reasonFits'[h] = reasonFits[h]
  BY ZenonT(40) DEF Call, TypeOK
<1>2. q.op = op /\ q.cmd = cur[g] /\ q.att = att[g] /\ q.fits = TRUE
  OBVIOUS
<1>3. op # "poll"
  BY ZenonT(40) DEF Ops, EventOps
<1> HIDE DEF q
<1>4. FitsInv'
  BY ZenonT(40), <1>1, <1>2 DEF DropInv, FitsInv
<1>5. OpenInv'
  <2>1. \A h \in Agents : pc'[h] # "poll" => pc[h] # "poll"
    BY ZenonT(40), <1>1
  <2>2. QED
    BY ZenonT(40), <1>1, <1>2, <2>1 DEF DropInv, OpenInv
<1>6. RetryInv'
  BY ZenonT(40), <1>1, <1>2 DEF DropInv, RetryInv
<1>7. SettledInv'
  BY ZenonT(40), <1>1 DEF DropInv, SettledInv
<1>8. LastInv'
  <2>1. \A c \in Commands : Held(c, MaxDeliver) => Held(c, MaxDeliver)'
    BY ZenonT(40), <1>1, <1>3 DEF Held
  <2>2. QED
    BY ZenonT(40), <2>1 DEF DropInv, LastInv
<1>9. DroppedOnlyAfterFault'
  BY ZenonT(40) DEF DropInv, DroppedOnlyAfterFault
<1>10. QED
  BY ZenonT(40), <1>4, <1>5, <1>6, <1>7, <1>8, <1>9 DEF DropInv

\* A fault disturbs one delivery and forgets no other.
LEMMA FaultEffect ==
  ASSUME TypeOK, NEW c \in Commands, NEW a, Fault(c, a)
  PROVE  a \in hit'[c] /\ \A d \in Commands : hit[d] \subseteq hit'[d]
  BY ZenonT(40) DEF Fault, TypeOK

\* A new delivery finds the invariant's agents and calls at older deliveries, and
\* is itself held, being terminated, or disturbed.
LEMMA FetchDrop ==
  ASSUME TypeOK, Holding, HeldInv, DropInv, NEW c \in Commands, Fetch(c),
         NEW a, a = delivered[c] + 1,
         UNCHANGED <<requests, reply, reasonFits>>,
         \A d \in Commands : hit[d] \subseteq hit'[d],
         \A d \in Commands, b \in Attempts : <<d, b>> # <<c, a>> => lease'[d][b] = lease[d][b],
         \A g \in Agents : \/ pc'[g] = pc[g] /\ cur'[g] = cur[g] /\ att'[g] = att[g]
                           \/ /\ pc[g] = "poll" /\ pc'[g] = "execute"
                              /\ cur'[g] = c /\ att'[g] = a /\ lease'[c][a] > 0,
         terminating \subseteq terminating',
         Held(c, a)' \/ <<c, a>> \in terminating' \/ a \in hit'[c]
  PROVE  DropInv'
<1>1. /\ delivered[c] \in Nat /\ a \in Attempts /\ delivered'[c] = a
      /\ redeliverIn'[c] = AckWaitTicks /\ msg' = msg /\ msg[c] = "pending"
      /\ \A d \in Commands : d # c => delivered'[d] = delivered[d] /\ redeliverIn'[d] = redeliverIn[d]
  BY ZenonT(40), FetchEffect
<1>2. AckWaitTicks > 0
  BY SMTT(40), LeaseWithinAckWait
<1>3. \A g \in Agents : pc[g] # "poll" => <<cur[g], att[g]>> # <<c, a>>
  BY SMTT(40), <1>1, HeldTypes DEF HeldInv
<1>4. \A r \in requests : <<r.cmd, r.att>> # <<c, a>>
  BY SMTT(40), <1>1, HeldTypes DEF HeldInv
<1>5. /\ \A g \in Agents : pc[g] # "poll" => cur[g] \in Commands /\ att[g] \in Attempts
      /\ \A r \in requests : r.cmd \in Commands /\ r.att \in Attempts
  BY ZenonT(40), HeldTypes
<1>6. \A g \in Agents : pc'[g] # "poll" /\ pc'[g] # "execute" =>
        pc'[g] = pc[g] /\ cur'[g] = cur[g] /\ att'[g] = att[g]
  OBVIOUS
<1>7. FitsInv'
  BY ZenonT(40) DEF DropInv, FitsInv
<1>8. OpenInv'
  <2>1. ASSUME NEW g \in Agents, pc'[g] # "poll", att'[g] \notin hit'[cur'[g]]
        PROVE  lease'[cur'[g]][att'[g]] > 0
    <3>1. CASE pc'[g] = pc[g] /\ cur'[g] = cur[g] /\ att'[g] = att[g]
      <4>1. pc[g] # "poll" /\ att[g] \notin hit[cur[g]]
        BY ZenonT(40), <1>5, <2>1, <3>1
      <4>2. QED
        BY ZenonT(40), <1>3, <1>5, <3>1, <4>1 DEF DropInv, OpenInv
    <3>2. CASE cur'[g] = c /\ att'[g] = a /\ lease'[c][a] > 0
      BY ZenonT(40), <3>2
    <3>3. QED
      BY ZenonT(40), <3>1, <3>2
  <2>2. ASSUME NEW r \in requests, r.att \notin hit'[r.cmd]
        PROVE  lease'[r.cmd][r.att] > 0
    <3>1. r.att \notin hit[r.cmd]
      BY ZenonT(40), <1>5, <2>2
    <3>2. QED
      BY ZenonT(40), <1>4, <1>5, <3>1 DEF DropInv, OpenInv
  <2>3. QED
    BY ZenonT(40), <2>1, <2>2 DEF OpenInv
<1>9. RetryInv'
  <2>1. \A g \in Agents : pc'[g] = "job-created" /\ reply'[g] = "err" => att'[g] \in hit'[cur'[g]]
    BY ZenonT(40), <1>5, <1>6 DEF DropInv, RetryInv
  <2>2. \A g \in Agents : pc'[g] = "retryable-error" => att'[g] < AgentDeliveries
    BY ZenonT(40), <1>6 DEF DropInv, RetryInv
  <2>3. \A g \in Agents : pc'[g] = "retry" => att'[g] < AgentDeliveries \/ att'[g] \in hit'[cur'[g]]
    BY ZenonT(40), <1>5, <1>6 DEF DropInv, RetryInv
  <2>4. \A r \in requests' : r.op = "retry" => r.att < AgentDeliveries \/ r.att \in hit'[r.cmd]
    BY ZenonT(40), <1>5 DEF DropInv, RetryInv
  <2>5. QED
    BY ZenonT(40), <2>1, <2>2, <2>3, <2>4 DEF RetryInv
<1>10. SettledInv'
  BY SMTT(40), <1>1, <1>5, <1>6 DEF DropInv, SettledInv
<1>11. LastInv'
  <2> SUFFICES ASSUME NEW d \in Commands, msg'[d] = "pending", delivered'[d] = MaxDeliver,
                      MaxDeliver \notin hit'[d]
               PROVE  /\ redeliverIn'[d] > 0
                      /\ Held(d, MaxDeliver)' \/ <<d, MaxDeliver>> \in terminating'
    BY ZenonT(40) DEF LastInv
  <2>1. CASE d = c
    BY ZenonT(40), <1>1, <1>2, <2>1
  <2>2. CASE d # c
    <3>1. redeliverIn[d] > 0 /\ (Held(d, MaxDeliver) \/ <<d, MaxDeliver>> \in terminating)
      BY ZenonT(40), <1>1, <2>2 DEF DropInv, LastInv
    <3>2. Held(d, MaxDeliver) => Held(d, MaxDeliver)'
      BY ZenonT(40) DEF Held
    <3>3. QED
      BY ZenonT(40), <1>1, <2>2, <3>1, <3>2
  <2>3. QED
    BY ZenonT(40), <2>1, <2>2
<1>12. DroppedOnlyAfterFault'
  BY ZenonT(40), <1>1 DEF DropInv, DroppedOnlyAfterFault
<1>13. QED
  BY ZenonT(40), <1>7, <1>8, <1>9, <1>10, <1>11, <1>12 DEF DropInv

\* A step that leaves the timers and the receipts alone lets no lease run out.
LEMMA LeaseStands == ASSUME UNCHANGED lease PROVE LeaseKept
  BY ZenonT(40) DEF LeaseKept

\* A step that leaves the timers alone and takes the last delivery from an agent or
\* a termination only if it was disturbed or the message is settled keeps the work
\* on it going.
LEMMA LastStands ==
  ASSUME UNCHANGED <<delivered, redeliverIn>>,
         \A g \in Agents : pc[g] # "poll" =>
           \/ pc'[g] # "poll" /\ cur'[g] = cur[g] /\ att'[g] = att[g]
           \/ cur[g] \in Commands /\ att[g] = MaxDeliver =>
                MaxDeliver \in hit'[cur[g]] \/ msg'[cur[g]] # "pending",
         \A c \in Commands : <<c, MaxDeliver>> \in terminating =>
           <<c, MaxDeliver>> \in terminating' \/ MaxDeliver \in hit'[c] \/ msg'[c] # "pending"
  PROVE  LastKept
<1>1. ASSUME NEW c \in Commands, msg'[c] = "pending", MaxDeliver \notin hit'[c], Held(c, MaxDeliver)
      PROVE  Held(c, MaxDeliver)'
  <2>1. PICK g \in Agents : pc[g] # "poll" /\ cur[g] = c /\ att[g] = MaxDeliver
    BY ZenonT(40), <1>1 DEF Held
  <2>2. pc'[g] # "poll" /\ cur'[g] = c /\ att'[g] = MaxDeliver
    BY ZenonT(40), <1>1, <2>1
  <2>3. QED
    BY ZenonT(40), <2>2 DEF Held
<1>2. QED
  BY ZenonT(40), <1>1 DEF LastKept

\* A response changes the answer of the agents that wait for this call only.
LEMMA RespondEffect ==
  ASSUME TypeOK, NEW op, NEW c, NEW a, NEW answer, Respond(op, c, a, answer)
  PROVE  /\ UNCHANGED <<pc, cur, att, reasonFits>>
         /\ \A g \in Agents : \/ reply'[g] = reply[g]
                              \/ pc[g] = op /\ cur[g] = c /\ att[g] = a /\ reply'[g] = answer
  BY ZenonT(40) DEF Respond, Awaits

\* Serving a call keeps the invariant: it is answered for a disturbance, or the
\* answer is backed, and neither timers nor receipts move.
LEMMA ServeDrop ==
  ASSUME TypeOK, Holding, Holding', DropInv, Releases, UNCHANGED <<delivered, redeliverIn, lease>>,
         UNCHANGED <<pc, cur, att, reasonFits>>,
         HistoryKept, ReplyBacked,
         \A c \in Commands : <<c, MaxDeliver>> \in terminating =>
           <<c, MaxDeliver>> \in terminating' \/ MaxDeliver \in hit'[c] \/ msg'[c] # "pending"
  PROVE  DropInv'
<1>1. LeaseKept
  BY ZenonT(40), LeaseStands
<1>2. LastKept
  BY ZenonT(40), LastStands
<1>3. QED
  BY ZenonT(40), <1>1, <1>2, QuietDrop

\* Every step keeps the invariant, as long as the agent's reasons are short.
LEMMA NextDrop ==
  ASSUME LongReasons = FALSE
  PROVE  TypeOK /\ Holding /\ HeldInv /\ DropInv /\ [Next]_vars => DropInv'
<1> SUFFICES ASSUME TypeOK, Holding, HeldInv, DropInv, [Next]_vars PROVE DropInv'
  OBVIOUS
<1> USE DEF streamVars, commandVars, gatewayVars, agentVars
<1>0. Holding' /\ TypeOK'
  BY ZenonT(40), NextType
<1>1. ASSUME NEW g \in Agents, NEW c \in Commands, NextCommandDeliver(g, c)
      PROVE  DropInv'
  <2>0. PICK a : a = delivered[c] + 1
    OBVIOUS
  <2>1. /\ pc[g] = "poll" /\ Fetch(c) /\ UNCHANGED <<requests, reply, reasonFits, terminating>>
        /\ lease' = [lease EXCEPT ![c][a] = LeaseTicks]
    BY ZenonT(40), <1>1, <2>0 DEF NextCommandDeliver
  <2>2. a \in Attempts
    BY ZenonT(40), <2>0, <2>1, FetchEffect
  <2>3. \/ /\ pc' = [pc EXCEPT ![g] = "execute"]
           /\ cur' = [cur EXCEPT ![g] = c]
           /\ att' = [att EXCEPT ![g] = a]
           /\ UNCHANGED hit
        \/ Fault(c, a) /\ UNCHANGED <<pc, cur, att>>
    BY ZenonT(40), <1>1, <2>0 DEF NextCommandDeliver
  <2>4. /\ lease'[c][a] = LeaseTicks
        /\ \A d \in Commands, b \in Attempts : <<d, b>> # <<c, a>> => lease'[d][b] = lease[d][b]
    <3>1. lease[c] \in [Attempts -> Nat] /\ lease'[c] = [lease[c] EXCEPT ![a] = LeaseTicks]
      BY ZenonT(40), <2>1 DEF TypeOK
    <3>2. \A d \in Commands : d # c => lease'[d] = lease[d]
      BY ZenonT(40), <2>1 DEF TypeOK
    <3>3. QED
      BY ZenonT(40), <2>2, <3>1, <3>2
  <2>5. lease'[c][a] > 0
    BY ZenonT(40), <2>4, LeaseWithinAckWait
  <2>6. \A d \in Commands : hit[d] \subseteq hit'[d]
    BY ZenonT(40), <2>3, FaultEffect
  <2>7. \A h \in Agents : \/ pc'[h] = pc[h] /\ cur'[h] = cur[h] /\ att'[h] = att[h]
                          \/ /\ pc[h] = "poll" /\ pc'[h] = "execute"
                             /\ cur'[h] = c /\ att'[h] = a /\ lease'[c][a] > 0
    BY ZenonT(40), <2>1, <2>3, <2>5 DEF TypeOK
  <2>8. Held(c, a)' \/ a \in hit'[c]
    <3>1. CASE Fault(c, a)
      BY ZenonT(40), <3>1, FaultEffect
    <3>2. CASE /\ pc' = [pc EXCEPT ![g] = "execute"]
               /\ cur' = [cur EXCEPT ![g] = c]
               /\ att' = [att EXCEPT ![g] = a]
      <4>1. pc'[g] = "execute" /\ cur'[g] = c /\ att'[g] = a
        BY ZenonT(40), <3>2 DEF TypeOK
      <4>2. QED
        BY ZenonT(40), <4>1 DEF Held
    <3>3. QED
      BY ZenonT(40), <2>3, <3>1, <3>2
  <2>9. QED
    <3>1. terminating \subseteq terminating' /\ UNCHANGED <<requests, reply, reasonFits>>
      BY ZenonT(40), <2>1
    <3>2. Held(c, a)' \/ <<c, a>> \in terminating' \/ a \in hit'[c]
      BY ZenonT(40), <2>8
    <3>3. Fetch(c)
      BY ZenonT(40), <2>1
    <3>4. QED
      BY SMTT(40), <2>0, <2>4, <2>6, <2>7, <3>1, <3>2, <3>3, FetchDrop
<1>2. ASSUME NEW g \in Agents, NEW c \in Commands, NextCommandReject(g, c)
      PROVE  DropInv'
  <2> DEFINE a == delivered[c] + 1
  <2>1. Fetch(c) /\ UNCHANGED <<requests, reply, reasonFits, lease, pc, cur, att>>
    BY ZenonT(40), <1>2 DEF NextCommandReject
  <2>2. \/ terminating' = terminating \cup {<<c, a>>} /\ UNCHANGED hit
        \/ Fault(c, a) /\ UNCHANGED terminating
    BY ZenonT(40), <1>2 DEF NextCommandReject
  <2>3. \A d \in Commands : hit[d] \subseteq hit'[d]
    BY ZenonT(40), <2>2, FaultEffect
  <2>4. terminating \subseteq terminating' /\ (<<c, a>> \in terminating' \/ a \in hit'[c])
    BY ZenonT(40), <2>2, FaultEffect
  <2>5. QED
    BY ZenonT(40), <2>1, <2>3, <2>4, FetchDrop
<1>3. ASSUME NEW g \in Agents, NextCommandEmpty(g)
      PROVE  DropInv'
  BY ZenonT(40), <1>3 DEF NextCommandEmpty, vars, DropInv, FitsInv, OpenInv, RetryInv, SettledInv, LastInv,
              DroppedOnlyAfterFault, Held
<1>4. ASSUME NEW g \in Agents, RejectUnsupported(g) \/ ReportExpired(g) \/ CreateJob(g)
      PROVE  DropInv'
  <2>1. PICK op \in {"reject", "expired-error", "job-created"} : Call(g, op, TRUE)
    BY ZenonT(40), <1>4 DEF RejectUnsupported, ReportExpired, CreateJob
  <2>2. pc[g] # "poll" /\ UNCHANGED <<msg, delivered, redeliverIn, lease, terminating, hit>>
    BY ZenonT(40), <1>4 DEF RejectUnsupported, ReportExpired, CreateJob
  <2>3. op \in Ops /\ op # "retry" /\ op # "retryable-error"
    BY ZenonT(40) DEF Ops, EventOps
  <2>4. QED
    BY ZenonT(40), <2>1, <2>2, <2>3, CallDrop
<1>5. ASSUME NEW g \in Agents, CreateJobFails(g)
      PROVE  DropInv'
  <2>1. PICK permanent \in BOOLEAN : AfterCreateError(g, permanent, TRUE)
    BY ZenonT(40), <1>5 DEF CreateJobFails
  <2>2. PICK op \in {"terminal-error", "retryable-error"} :
          Call(g, op, TRUE) /\ (op = "retryable-error" => ~(att[g] >= AgentDeliveries))
    BY ZenonT(40), <2>1 DEF AfterCreateError, IsTerminal
  <2>3. pc[g] # "poll" /\ UNCHANGED <<msg, delivered, redeliverIn, lease, terminating, hit>>
    BY ZenonT(40), <1>5 DEF CreateJobFails
  <2>4. att[g] \in Int /\ AgentDeliveries \in Int
    BY SMTT(40), <2>3, HeldTypes, DeliveryAssumption
  <2>5. op = "retryable-error" => att[g] < AgentDeliveries
    BY SMTT(40), <2>2, <2>4
  <2>6. op \in Ops /\ op # "retry"
    BY ZenonT(40) DEF Ops, EventOps
  <2>7. QED
    BY ZenonT(40), <2>2, <2>3, <2>5, <2>6, CallDrop
<1>6. ASSUME NEW g \in Agents, AfterJobCreated(g) \/ AfterErrorReport(g)
      PROVE  DropInv'
  <2>1. UNCHANGED <<msg, delivered, redeliverIn, lease, terminating, hit>>
    BY ZenonT(40), <1>6 DEF AfterJobCreated, AfterErrorReport
  <2>2. pc[g] # "poll" /\ "ack" \in Ops /\ "retry" \in Ops /\ "reject" \in Ops
    BY ZenonT(40), <1>6 DEF AfterJobCreated, AfterErrorReport, Ops
  <2>3. reasonFits[g] = TRUE
    BY ZenonT(40) DEF DropInv, FitsInv, TypeOK
  <2>4. CASE Call(g, "ack", TRUE)
    BY ZenonT(40), <2>1, <2>2, <2>4, CallDrop
  <2>5. CASE Call(g, "reject", reasonFits[g])
    BY ZenonT(40), <2>1, <2>2, <2>3, <2>5, CallDrop
  <2>6. CASE pc[g] = "job-created" /\ reply[g] = "err" /\ Call(g, "retry", TRUE)
    <3>1. att[g] \in hit[cur[g]]
      BY ZenonT(40), <2>6 DEF DropInv, RetryInv
    <3>2. QED
      BY ZenonT(40), <2>1, <2>2, <2>6, <3>1, CallDrop
  <2>7. CASE pc[g] = "retryable-error" /\ Call(g, "retry", TRUE)
    <3>1. att[g] < AgentDeliveries
      BY ZenonT(40), <2>7 DEF DropInv, RetryInv
    <3>2. QED
      BY ZenonT(40), <2>1, <2>2, <2>7, <3>1, CallDrop
  <2>8. QED
    BY ZenonT(40), <1>6, <2>4, <2>5, <2>6, <2>7 DEF AfterJobCreated, AfterErrorReport
<1>7. ASSUME NEW g \in Agents, AfterSettlement(g)
      PROVE  DropInv'
  <2>1. /\ UNCHANGED <<msg, delivered, redeliverIn, lease, requests, terminating, hit>>
        /\ reply[g] # "none" /\ pc[g] \in Settling
    BY ZenonT(40), <1>7 DEF AfterSettlement, Settling
  <2>2. /\ pc'[g] = "poll" /\ reasonFits'[g] = TRUE
        /\ \A h \in Agents : h # g => /\ pc'[h] = pc[h] /\ cur'[h] = cur[h] /\ att'[h] = att[h]
                                      /\ reply'[h] = reply[h] /\ reasonFits'[h] = reasonFits[h]
    BY ZenonT(40), <1>7 DEF AfterSettlement, Return, TypeOK
  <2>3. Releases /\ HistoryKept /\ ReplyBacked
    BY ZenonT(40), <2>1, <2>2 DEF Releases, HistoryKept, ReplyBacked
  <2>4. att[g] = MaxDeliver => MaxDeliver \in hit[cur[g]] \/ msg[cur[g]] # "pending"
    <3>1. CASE pc[g] \in {"ack", "reject"}
      BY ZenonT(40), <2>1, <3>1 DEF DropInv, SettledInv
    <3>2. CASE pc[g] = "retry"
      <4>1. att[g] = MaxDeliver => ~(att[g] < AgentDeliveries)
        BY SMTT(40), DeliveryAssumption, LimitAssumption
      <4>2. QED
        BY ZenonT(40), <3>2, <4>1 DEF DropInv, RetryInv
    <3>3. QED
      BY ZenonT(40), <2>1, <3>1, <3>2 DEF Settling
  <2>5. LastKept
    <3>1. \A h \in Agents : pc[h] # "poll" =>
            \/ pc'[h] # "poll" /\ cur'[h] = cur[h] /\ att'[h] = att[h]
            \/ cur[h] \in Commands /\ att[h] = MaxDeliver =>
                 MaxDeliver \in hit'[cur[h]] \/ msg'[cur[h]] # "pending"
      BY ZenonT(40), <2>1, <2>2, <2>4
    <3>2. QED
      BY ZenonT(40), <2>1, <3>1, LastStands
  <2>6. \A h \in Agents : reasonFits'[h] = reasonFits[h] \/ reasonFits'[h] = TRUE
    BY ZenonT(40), <2>2
  <2>7. QED
    BY ZenonT(40), <1>0, <2>1, <2>3, <2>5, <2>6, LeaseStands, QuietDrop
<1>8. ASSUME NEW g \in Agents, GiveUp(g)
      PROVE  DropInv'
  <2>1. /\ UNCHANGED <<msg, delivered, redeliverIn, lease, requests, terminating, pc, cur, att, reasonFits>>
        /\ pc[g] # "poll" /\ Fault(cur[g], att[g]) /\ reply' = [reply EXCEPT ![g] = "err"]
    BY ZenonT(40), <1>8 DEF GiveUp, Ops, EventOps
  <2>2. cur[g] \in Commands
    BY ZenonT(40), <2>1, HeldTypes
  <2>3. att[g] \in hit'[cur[g]] /\ \A d \in Commands : hit[d] \subseteq hit'[d]
    BY ZenonT(40), <2>1, <2>2, FaultEffect
  <2>4. \A h \in Agents : h # g => reply'[h] = reply[h]
    BY ZenonT(40), <2>1 DEF TypeOK
  <2>5. Releases /\ HistoryKept /\ ReplyBacked
    BY ZenonT(40), <2>1, <2>3, <2>4 DEF Releases, HistoryKept, ReplyBacked
  <2>6. QED
    BY ZenonT(40), <1>0, <2>1, <2>5, ServeDrop
<1>9. ASSUME NEW g \in Agents, Crash(g)
      PROVE  DropInv'
  <2>1. /\ UNCHANGED <<msg, delivered, redeliverIn, lease, requests, terminating>>
        /\ IF pc[g] # "poll" THEN Fault(cur[g], att[g]) ELSE UNCHANGED hit
    BY ZenonT(40), <1>9 DEF Crash
  <2>2. /\ pc'[g] = "poll" /\ reasonFits'[g] = TRUE
        /\ \A h \in Agents : h # g => /\ pc'[h] = pc[h] /\ cur'[h] = cur[h] /\ att'[h] = att[h]
                                      /\ reply'[h] = reply[h] /\ reasonFits'[h] = reasonFits[h]
    BY ZenonT(40), <1>9 DEF Crash, Return, TypeOK
  <2>3. pc[g] # "poll" => cur[g] \in Commands /\ att[g] \in hit'[cur[g]]
    BY ZenonT(40), <2>1, HeldTypes, FaultEffect
  <2>4. \A d \in Commands : hit[d] \subseteq hit'[d]
    BY ZenonT(40), <2>1, HeldTypes, FaultEffect
  <2>5. Releases /\ HistoryKept /\ ReplyBacked
    BY ZenonT(40), <2>1, <2>2, <2>4 DEF Releases, HistoryKept, ReplyBacked
  <2>6. LastKept
    <3>1. \A h \in Agents : pc[h] # "poll" =>
            \/ pc'[h] # "poll" /\ cur'[h] = cur[h] /\ att'[h] = att[h]
            \/ cur[h] \in Commands /\ att[h] = MaxDeliver =>
                 MaxDeliver \in hit'[cur[h]] \/ msg'[cur[h]] # "pending"
      BY ZenonT(40), <2>2, <2>3
    <3>2. QED
      BY ZenonT(40), <2>1, <3>1, LastStands
  <2>7. \A h \in Agents : reasonFits'[h] = reasonFits[h] \/ reasonFits'[h] = TRUE
    BY ZenonT(40), <2>2
  <2>8. QED
    BY ZenonT(40), <1>0, <2>1, <2>5, <2>6, <2>7, LeaseStands, QuietDrop
<1>10. ASSUME NEW g \in Agents, NEW c \in Commands, MonitorReport(g, c) \/ MonitorStop(g, c)
       PROVE  DropInv'
  <2>1. UNCHANGED <<msg, delivered, redeliverIn, lease, requests, terminating, pc, cur, att, reply,
                    reasonFits, hit>>
    BY ZenonT(40), <1>10 DEF MonitorReport, MonitorStop
  <2>2. Releases /\ HistoryKept /\ ReplyBacked
    BY ZenonT(40), <2>1 DEF Releases, HistoryKept, ReplyBacked
  <2>3. QED
    BY ZenonT(40), <1>0, <2>1, <2>2, ServeDrop
<1>11. ASSUME NEW c \in Commands, Exhaust(c)
       PROVE  DropInv'
  <2>1. /\ UNCHANGED <<delivered, redeliverIn, lease, requests, terminating, pc, cur, att, reply,
                       reasonFits, hit>>
        /\ msg[c] = "pending" /\ delivered[c] = MaxDeliver /\ redeliverIn[c] = 0
        /\ msg' = [msg EXCEPT ![c] = "exhausted"]
    BY ZenonT(40), <1>11 DEF Exhaust
  <2>2. MaxDeliver \in hit[c]
    <3>1. ~(redeliverIn[c] > 0)
      BY SMTT(40), <2>1
    <3>2. QED
      BY ZenonT(40), <2>1, <3>1 DEF DropInv, LastInv
  <2>3. msg'[c] = "exhausted" /\ \A d \in Commands : d # c => msg'[d] = msg[d]
    BY ZenonT(40), <2>1 DEF TypeOK
  <2>4. Releases /\ HistoryKept /\ ReplyBacked
    BY ZenonT(40), <2>1, <2>2, <2>3 DEF Releases, HistoryKept, ReplyBacked
  <2>5. QED
    BY ZenonT(40), <1>0, <2>1, <2>4, ServeDrop
<1>12. ASSUME NEW r \in requests, PostEvent(r)
       PROVE  DropInv'
  <2>1. UNCHANGED <<msg, delivered, redeliverIn, lease, terminating>> /\ r.op \in EventOps
    BY ZenonT(40), <1>12 DEF PostEvent
  <2>2. r.cmd \in Commands
    BY ZenonT(40), HeldTypes
  <2>3. PICK answer \in {"ok", "err"} :
          /\ Answer(r, answer)
          /\ \/ answer = "ok" /\ UNCHANGED hit
             \/ Fault(r.cmd, r.att)
    BY ZenonT(40), <1>12 DEF PostEvent
  <2>4. /\ UNCHANGED <<pc, cur, att, reasonFits>> /\ requests' \subseteq requests
        /\ \A g \in Agents : \/ reply'[g] = reply[g]
                             \/ /\ pc[g] = r.op /\ cur[g] = r.cmd /\ att[g] = r.att
                                /\ reply'[g] = answer
    BY ZenonT(40), <2>3, RespondEffect DEF Answer
  <2>5. /\ \A d \in Commands : hit[d] \subseteq hit'[d]
        /\ answer = "ok" \/ r.att \in hit'[r.cmd]
    BY ZenonT(40), <2>2, <2>3, FaultEffect
  <2>6. r.op \notin {"ack", "reject"}
    BY ZenonT(40), <2>1 DEF EventOps
  <2>7. Releases /\ HistoryKept
    BY ZenonT(40), <2>1, <2>4, <2>5 DEF Releases, HistoryKept
  <2>8. ReplyBacked
    BY ZenonT(40), <2>4, <2>5, <2>6 DEF ReplyBacked
  <2>9. QED
    BY ZenonT(40), <1>0, <2>1, <2>4, <2>7, <2>8, ServeDrop
<1>13. ASSUME NEW r \in requests, AcknowledgeCommand(r)
       PROVE  DropInv'
  <2>1. UNCHANGED <<lease, terminating>> /\ r.op = "ack"
    BY ZenonT(40), <1>13 DEF AcknowledgeCommand
  <2>2. r.cmd \in Commands
    BY ZenonT(40), HeldTypes
  <2>3. PICK answer : Answer(r, answer)
    BY ZenonT(40), <1>13 DEF AcknowledgeCommand
  <2>4. /\ UNCHANGED <<pc, cur, att, reasonFits>> /\ requests' \subseteq requests
        /\ \A g \in Agents : \/ reply'[g] = reply[g]
                             \/ pc[g] = r.op /\ cur[g] = r.cmd /\ att[g] = r.att
    BY SMTT(40), <2>3, RespondEffect DEF Answer
  <2>5. \/ Settle(r.cmd, "acked") /\ UNCHANGED hit
        \/ Fault(r.cmd, r.att) /\ UNCHANGED streamVars
        \/ ~ReceiptOpens(r) /\ UNCHANGED <<streamVars, hit>>
    BY ZenonT(40), <1>13 DEF AcknowledgeCommand
  <2>6. ~ReceiptOpens(r) => r.att \in hit[r.cmd]
    BY ZenonT(40) DEF ReceiptOpens, DropInv, OpenInv
  <2>7. /\ UNCHANGED <<delivered, redeliverIn>>
        /\ \A d \in Commands : msg'[d] \in {msg[d], "acked"}
    BY ZenonT(40), <2>5 DEF Settle, TypeOK
  <2>8. \A d \in Commands : hit[d] \subseteq hit'[d]
    BY ZenonT(40), <2>2, <2>5, FaultEffect
  <2>9. r.att \in hit'[r.cmd] \/ msg'[r.cmd] # "pending"
    <3>1. CASE Settle(r.cmd, "acked")
      BY ZenonT(40), <2>2, <3>1 DEF Settle, TypeOK
    <3>2. CASE Fault(r.cmd, r.att)
      BY ZenonT(40), <2>2, <3>2, FaultEffect
    <3>3. QED
      BY ZenonT(40), <2>2, <2>5, <2>6, <3>1, <3>2
  <2>10. Releases /\ HistoryKept
    BY ZenonT(40), <2>4, <2>7, <2>8 DEF Releases, HistoryKept
  <2>11. ReplyBacked
    BY ZenonT(40), <2>1, <2>4, <2>9 DEF ReplyBacked
  <2>12. QED
    BY ZenonT(40), <1>0, <2>1, <2>4, <2>7, <2>10, <2>11, ServeDrop
<1>14. ASSUME NEW r \in requests, RetryCommand(r)
       PROVE  DropInv'
  <2>1. UNCHANGED <<lease, terminating>> /\ r.op = "retry"
    BY ZenonT(40), <1>14 DEF RetryCommand
  <2>2. r.cmd \in Commands
    BY ZenonT(40), HeldTypes
  <2>3. PICK answer : Answer(r, answer)
    BY ZenonT(40), <1>14 DEF RetryCommand
  <2>4. /\ UNCHANGED <<pc, cur, att, reasonFits>> /\ requests' \subseteq requests
        /\ \A g \in Agents : \/ reply'[g] = reply[g]
                             \/ pc[g] = r.op /\ cur[g] = r.cmd /\ att[g] = r.att
    BY SMTT(40), <2>3, RespondEffect DEF Answer
  <2>5. /\ UNCHANGED <<msg, delivered>>
        /\ \A d \in Commands : redeliverIn'[d] # redeliverIn[d] => d = r.cmd /\ delivered[d] = r.att
    BY ZenonT(40), <1>14 DEF RetryCommand, Nak, TypeOK
  <2>6. \A d \in Commands : hit[d] \subseteq hit'[d]
    BY ZenonT(40), <1>14, <2>2, FaultEffect DEF RetryCommand
  <2>7. r.att = MaxDeliver => MaxDeliver \in hit[r.cmd]
    <3>1. r.att = MaxDeliver => ~(r.att < AgentDeliveries)
      BY SMTT(40), DeliveryAssumption, LimitAssumption
    <3>2. QED
      BY ZenonT(40), <2>1, <3>1 DEF DropInv, RetryInv
  <2>8. Releases /\ HistoryKept
    BY ZenonT(40), <2>4, <2>5, <2>6 DEF Releases, HistoryKept
  <2>9. ReplyBacked
    BY ZenonT(40), <2>1, <2>4 DEF ReplyBacked
  <2>10. LastKept
    <3>1. \A c \in Commands : Held(c, MaxDeliver) => Held(c, MaxDeliver)'
      BY ZenonT(40), <2>4 DEF Held
    <3>2. \A c \in Commands : delivered[c] = MaxDeliver /\ MaxDeliver \notin hit'[c]
            => redeliverIn'[c] = redeliverIn[c]
      BY ZenonT(40), <2>5, <2>6, <2>7
    <3>3. QED
      BY ZenonT(40), <2>1, <2>5, <3>1, <3>2 DEF LastKept
  <2>11. QED
    BY ZenonT(40), <1>0, <2>1, <2>4, <2>8, <2>9, <2>10, LeaseStands, QuietDrop
<1>15. ASSUME NEW r \in requests, RejectCommand(r)
       PROVE  DropInv'
  <2>1. UNCHANGED <<msg, delivered, redeliverIn, lease>> /\ r.op = "reject"
    BY ZenonT(40), <1>15 DEF RejectCommand
  <2>2. r.cmd \in Commands
    BY ZenonT(40), HeldTypes
  <2>3. CASE /\ terminating' = terminating \cup {<<r.cmd, r.att>>}
             /\ requests' = requests \ {r}
             /\ UNCHANGED <<pc, cur, att, reply, reasonFits, hit>>
    <3>1. UNCHANGED <<pc, cur, att, reply, reasonFits, hit>> /\ terminating \subseteq terminating'
      BY ZenonT(40), <2>3
    <3>2. Releases /\ HistoryKept /\ ReplyBacked
      BY ZenonT(40), <2>1, <2>3, <3>1 DEF Releases, HistoryKept, ReplyBacked
    <3>3. QED
      BY ZenonT(40), <1>0, <2>1, <3>1, <3>2, ServeDrop
  <2>4. ASSUME Answer(r, "err"), UNCHANGED terminating,
               \A d \in Commands : hit[d] \subseteq hit'[d],
               r.att \in hit'[r.cmd] \/ msg[r.cmd] # "pending"
        PROVE  DropInv'
    <3>1. /\ UNCHANGED <<pc, cur, att, reasonFits>> /\ requests' \subseteq requests
          /\ \A g \in Agents : \/ reply'[g] = reply[g]
                               \/ pc[g] = r.op /\ cur[g] = r.cmd /\ att[g] = r.att
      BY SMTT(40), <2>4, RespondEffect DEF Answer
    <3>2. Releases /\ HistoryKept
      BY ZenonT(40), <2>1, <2>4, <3>1 DEF Releases, HistoryKept
    <3>3. ReplyBacked
      BY ZenonT(40), <2>1, <2>4, <3>1 DEF ReplyBacked
    <3>4. QED
      BY ZenonT(40), <1>0, <2>1, <2>4, <3>1, <3>2, <3>3, ServeDrop
  <2>5. CASE Answer(r, "err") /\ Fault(r.cmd, r.att) /\ UNCHANGED <<dlq, terminating>>
    BY ZenonT(40), <2>2, <2>4, <2>5, FaultEffect
  <2>6. CASE ~RejectAccepted(r) /\ Answer(r, "err") /\ UNCHANGED <<dlq, terminating, hit>>
    <3>1. r.att \in hit[r.cmd] \/ msg[r.cmd] # "pending"
      BY ZenonT(40), <2>2, <2>6 DEF RejectAccepted, ReceiptOpens, DropInv, OpenInv, FitsInv
    <3>2. QED
      BY ZenonT(40), <2>4, <2>6, <3>1
  <2>7. QED
    BY ZenonT(40), <1>15, <2>3, <2>5, <2>6 DEF RejectCommand
<1>16. ASSUME NEW r \in requests, DropRequest(r)
       PROVE  DropInv'
  <2>1. /\ UNCHANGED <<msg, delivered, redeliverIn, lease, terminating, pc, cur, att, reply, reasonFits>>
        /\ requests' \subseteq requests /\ Fault(r.cmd, r.att)
    BY ZenonT(40), <1>16 DEF DropRequest
  <2>2. \A d \in Commands : hit[d] \subseteq hit'[d]
    BY ZenonT(40), <2>1, HeldTypes, FaultEffect
  <2>3. Releases /\ HistoryKept /\ ReplyBacked
    BY ZenonT(40), <2>1, <2>2 DEF Releases, HistoryKept, ReplyBacked
  <2>4. QED
    BY ZenonT(40), <1>0, <2>1, <2>3, ServeDrop
<1>17. ASSUME NEW c \in Commands, NEW a \in Attempts, Terminate(c, a)
       PROVE  DropInv'
  <2>1. UNCHANGED <<lease, requests>> /\ terminating' = terminating \ {<<c, a>>}
    BY ZenonT(40), <1>17 DEF Terminate
  <2>2. PICK answer : Respond("reject", c, a, answer)
    BY ZenonT(40), <1>17 DEF Terminate
  <2>3. /\ UNCHANGED <<pc, cur, att, reasonFits>>
        /\ \A g \in Agents : \/ reply'[g] = reply[g]
                             \/ pc[g] = "reject" /\ cur[g] = c /\ att[g] = a
    BY SMTT(40), <2>2, RespondEffect
  <2>4. \/ Settle(c, "termed") /\ UNCHANGED hit
        \/ Fault(c, a) /\ UNCHANGED <<msg, delivered, redeliverIn>>
    BY ZenonT(40), <1>17 DEF Terminate
  <2>5. /\ UNCHANGED <<delivered, redeliverIn>>
        /\ \A d \in Commands : msg'[d] \in {msg[d], "termed"}
    BY ZenonT(40), <2>4 DEF Settle, TypeOK
  <2>6. \A d \in Commands : hit[d] \subseteq hit'[d]
    BY ZenonT(40), <2>4, FaultEffect
  <2>7. a \in hit'[c] \/ msg'[c] # "pending"
    <3>1. CASE Settle(c, "termed")
      BY ZenonT(40), <3>1 DEF Settle, TypeOK
    <3>2. CASE Fault(c, a)
      BY ZenonT(40), <3>2, FaultEffect
    <3>3. QED
      BY ZenonT(40), <2>4, <3>1, <3>2
  <2>8. Releases /\ HistoryKept
    BY ZenonT(40), <2>1, <2>3, <2>5, <2>6 DEF Releases, HistoryKept
  <2>9. ReplyBacked
    BY ZenonT(40), <2>3, <2>7 DEF ReplyBacked
  <2>10. \A d \in Commands : <<d, MaxDeliver>> \in terminating =>
           <<d, MaxDeliver>> \in terminating' \/ MaxDeliver \in hit'[d] \/ msg'[d] # "pending"
    BY ZenonT(40), <2>1, <2>7
  <2>11. QED
    BY ZenonT(40), <1>0, <2>1, <2>3, <2>5, <2>8, <2>9, <2>10, ServeDrop
<1>18. CASE Tick
  <2>1. UNCHANGED <<msg, delivered, requests, terminating, pc, cur, att, reply, reasonFits>>
    BY ZenonT(40), <1>18 DEF Tick
  <2>2. /\ \A c \in Commands : redeliverIn'[c] = Dec(redeliverIn[c])
        /\ \A c \in Commands, a \in Attempts : lease'[c][a] = Dec(lease[c][a])
        /\ \A c \in Commands : hit'[c] = hit[c] \cup {a \in Attempts : Overruns(c, a)}
    BY ZenonT(40), <1>18 DEF Tick
  <2>3. Releases /\ HistoryKept /\ ReplyBacked
    BY ZenonT(40), <2>1, <2>2 DEF Releases, HistoryKept, ReplyBacked
  <2>4. ASSUME NEW n \in Nat, n > 0, n # 1 PROVE Dec(n) > 0
    BY SMTT(40), <2>4 DEF Dec
  <2>5. LeaseKept
    <3> SUFFICES ASSUME NEW c \in Commands, NEW a \in Attempts,
                        InProgress(c, a), a \notin hit'[c], lease[c][a] > 0
                 PROVE  lease'[c][a] > 0
      BY ZenonT(40) DEF LeaseKept
    <3>1. lease[c][a] # 1
      BY ZenonT(40), <2>2 DEF Overruns
    <3>2. lease[c][a] \in Nat
      BY SMTT(40) DEF TypeOK
    <3>3. QED
      BY ZenonT(40), <2>2, <2>4, <3>1, <3>2
  <2>6. LastKept
    <3>1. \A c \in Commands : Held(c, MaxDeliver) => Held(c, MaxDeliver)'
      BY ZenonT(40), <2>1 DEF Held
    <3>2. ASSUME NEW c \in Commands, delivered[c] = MaxDeliver, MaxDeliver \notin hit'[c],
                 redeliverIn[c] > 0, InProgress(c, MaxDeliver)
          PROVE  redeliverIn'[c] > 0
      <4>1. MaxDeliver \in Attempts
        BY SMTT(40), DeliveryAssumption DEF Attempts
      <4>2. redeliverIn[c] # 1
        BY ZenonT(40), <2>2, <3>2, <4>1 DEF Overruns
      <4>3. redeliverIn[c] \in Nat
        BY ZenonT(40) DEF TypeOK
      <4>4. QED
        BY ZenonT(40), <2>2, <2>4, <3>2, <4>2, <4>3
    <3>3. QED
      BY ZenonT(40), <2>1, <3>1, <3>2 DEF LastKept
  <2>7. QED
    BY ZenonT(40), <1>0, <2>1, <2>3, <2>5, <2>6, QuietDrop
<1>19. CASE UNCHANGED vars
  BY ZenonT(40), <1>19 DEF vars, DropInv, FitsInv, OpenInv, RetryInv, SettledInv, LastInv,
               DroppedOnlyAfterFault, Held
<1>20. QED
  BY ZenonT(40), <1>1, <1>2, <1>3, <1>4, <1>5, <1>6, <1>7, <1>8, <1>9, <1>10, <1>11, <1>12, <1>13,
     <1>14, <1>15, <1>16, <1>17, <1>18, <1>19 DEF Next, AgentStep, GatewayStep, Poll

\* No delivery is made, held or disturbed initially.
LEMMA InitDrop == Init => DropInv
<1> SUFFICES ASSUME Init PROVE DropInv
  OBVIOUS
<1>1. MaxDeliver # 0
  BY ZenonT(40), DeliveryAssumption
<1>2. QED
  BY ZenonT(40), <1>1 DEF Init, DropInv, FitsInv, OpenInv, RetryInv, SettledInv, LastInv, DroppedOnlyAfterFault

\* If every rejection reason fits the endpoint, the consumer drops a command for
\* good only after a disturbance of its last delivery: left alone, executeCommand
\* acknowledges or rejects that delivery within its lease.  With longer reasons this
\* is false (RejectCommand refuses them), so the hypothesis cannot be removed.
THEOREM DroppedOnlyUnderFault ==
  ASSUME LongReasons = FALSE
  PROVE  Spec => []DroppedOnlyAfterFault
<1>1. DropInv => DroppedOnlyAfterFault
  BY ZenonT(40) DEF DropInv
<1>2. TypeOK /\ Holding /\ HeldInv /\ DropInv /\ [Next]_vars => DropInv'
  BY ZenonT(40), NextDrop
<1>3. QED
  BY <1>1, <1>2, InitType, InitLease, InitDrop, NextType, NextHeld, PTL DEF Spec
=============================================================================
