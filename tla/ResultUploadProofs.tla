------------------------- MODULE ResultUploadProofs -------------------------
(***************************************************************************)
(* Proofs about ResultUpload, for any number of runs, deployments and      *)
(* flushers, any choice of refused uploads and any number of faults.       *)
(*                                                                         *)
(* The last part proves that the log object of a deployment stays as       *)
(* announced (AnnouncedLogIntact). The property speaks of runs that have   *)
(* begun to upload their logs, so its invariant follows every log on its   *)
(* way, through the outbox, a request, the object store and the stream,    *)
(* back to such a run.                                                     *)
(***************************************************************************)
EXTENDS ResultUpload, FiniteSetTheorems, WellFoundedInduction, TLAPS

-----------------------------------------------------------------------------
(* The inductive invariant *)

\* A call that a client waits for is the one its program is at.
CallInv ==
  \A q \in requests :
    /\ q.from \in Runs =>
         pc[q.from] = "posting" /\ q.kind = doing[q.from] /\ q.run = q.from /\ reply[q.from] = "none"
    /\ q.from \in Flushers =>
         /\ fpc[q.from] = "posting" /\ reply[q.from] = "none"
         /\ NameOf(q.kind, q.run) = First(queue[q.from])

\* Only logs are stored, and only ones within the limit; a client waits for
\* one call at a time.
RequestInv ==
  /\ \A q \in requests : q.stage = "stored" => q.kind = "logs" /\ ~Refused(q)
  /\ \A p, q \in requests : p.from = q.from /\ p.from \in Clients => p = q

\* What the stream and the outbox hold under a name comes from runs of its
\* deployment, and the stream remembers the IDs of what it holds.
NamesInv ==
  /\ \A n \in window : events[n] # {}
  /\ \A n \in Names : events[n] \subseteq RunsOf(n[2]) /\ outbox[n] \in RunsOf(n[2]) \cup {NoRun}

\* A client that was told "ok" has its event in the stream.
ReplyInv ==
  /\ \A r \in Runs : pc[r] = "posting" /\ reply[r] = "ok" => events[NameOf(doing[r], r)] # {}
  /\ \A f \in Flushers :
       (fpc[f] = "posting" /\ reply[f] = "ok") \/ fpc[f] = "removing" =>
         First(queue[f]) \in Names /\ events[First(queue[f])] # {}

\* No refused upload is in the stream.
RefusedInv == \A u \in refused : u.run \notin events[NameOf(u.kind, u.run)]

\* A run begins with its result.
OrderInv == \A r \in Runs : pc[r] = "execute" => doing[r] = "result"

UploadInv == TypeOK /\ OrderInv /\ CallInv /\ RequestInv /\ NamesInv /\ ReplyInv /\ RefusedInv /\ AcceptedIsKept

-----------------------------------------------------------------------------
(* Operators *)

\* Every upload has a name, of its run's deployment.
LEMMA NameType ==
  ASSUME NEW k \in Kinds, NEW r \in Runs
  PROVE  NameOf(k, r) \in Names /\ NameOf(k, r)[1] = k /\ NameOf(k, r)[2] = DeploymentOf[r] /\ r \in RunsOf(NameOf(k, r)[2])
  BY ZenonT(40), UploadAssumption DEF NameOf, Names, RunsOf

\* Uploads of one run are told apart by their names.
LEMMA NameInjective ==
  ASSUME NEW k \in Kinds, NEW l \in Kinds, NEW r \in Runs, NameOf(k, r) = NameOf(l, r)
  PROVE  k = l
  BY SMTT(40), NameType

\* Writing the value that is there changes nothing.
LEMMA SameValue ==
  ASSUME NEW S, NEW T, NEW f \in [S -> T], NEW x \in S
  PROVE  [f EXCEPT ![x] = f[x]] = f
  OBVIOUS

\* The order of the natural numbers is well-founded.
LEMMA NatOrder == IsWellFoundedOn({p \in Nat \X Nat : p[1] < p[2]}, Nat)
  BY ZenonT(40), NatLessThanWellFounded DEF OpToRel

\* Flush begins with one of the names it has read.
LEMMA FirstIn ==
  ASSUME NEW names \in SUBSET Names, names # {}
  PROVE  First(names) \in names
<1> DEFINE orders == {NameOrder[n] : n \in names}
<1>1. orders \subseteq Nat /\ orders # {}
  BY SMTT(40), UploadAssumption
<1>2. PICK x \in orders : \A y \in orders : x <= y
  <2> DEFINE R == {p \in Nat \X Nat : p[1] < p[2]}
  <2>1. \A x, y \in Nat : x < y => <<x, y>> \in R
    OBVIOUS
  <2>2. IsWellFoundedOn(R, Nat)
    BY ZenonT(40), NatOrder
  <2> HIDE DEF orders, R
  <2>3. \E x \in orders : \A y \in orders : ~(<<y, x>> \in R)
    BY ZenonT(40), <1>1, <2>2, WFMin
  <2>4. PICK x \in orders : \A y \in orders : ~(<<y, x>> \in R)
    BY ZenonT(40), <2>3
  <2>5. ASSUME NEW y \in orders PROVE x <= y
    <3>1. x \in Nat /\ y \in Nat
      BY ZenonT(40), <1>1
    <3>2. ~(y < x)
      BY ZenonT(40), <2>1, <2>4, <3>1
    <3>3. QED
      BY SMTT(40), <3>1, <3>2
  <2>6. QED
    BY ZenonT(40), <2>5
<1>3. \E n \in names : \A m \in names : NameOrder[n] <= NameOrder[m]
  BY ZenonT(40), <1>2
<1>4. QED
  BY ZenonT(40), <1>3 DEF First

\* What sending a request changes.
LEMMA SendEffect ==
  ASSUME TypeOK, NEW c \in Clients, NEW k \in Kinds, NEW r \in Runs, Send(c, k, r)
  PROVE  /\ requests' \subseteq Requests /\ faults' \in Nat
         /\ reply' \in [Clients -> {"none", "ok", "error"}]
         /\ reply'[c] # "ok" /\ \A d \in Clients : d # c => reply'[d] = reply[d]
         /\ \A q \in requests' : q \in requests \/
              (q = [from |-> c, kind |-> k, run |-> r, stage |-> "received"] /\ reply'[c] = "none")
<1> DEFINE new == [from |-> c, kind |-> k, run |-> r, stage |-> "received"]
<1>1. new \in Requests
  BY ZenonT(40) DEF Requests
<1>2. requests \subseteq Requests /\ reply \in [Clients -> {"none", "ok", "error"}] /\ faults \in Nat
  BY ZenonT(40) DEF TypeOK
<1>3. \/ requests' = requests \cup {new} /\ reply' = [reply EXCEPT ![c] = "none"] /\ faults' = faults
      \/ faults' = faults + 1 /\ reply' = [reply EXCEPT ![c] = "error"] /\ requests' = requests
  BY ZenonT(40) DEF Send, Fault
<1> HIDE DEF new
<1>4. /\ requests' \subseteq Requests /\ faults' \in Nat
      /\ reply' \in [Clients -> {"none", "ok", "error"}]
      /\ reply'[c] # "ok" /\ \A d \in Clients : d # c => reply'[d] = reply[d]
  BY SMTT(40), <1>1, <1>2, <1>3
<1>5. \A q \in requests' : q \in requests \/ (q = new /\ reply'[c] = "none")
  BY ZenonT(40), <1>2, <1>3
<1>6. QED
  BY ZenonT(40), <1>4, <1>5 DEF new

\* What the end of a request changes.
LEMMA AnswerEffect ==
  ASSUME TypeOK, NEW q \in requests, NEW answer \in {"ok", "error"}, Answer(q, answer)
  PROVE  /\ requests' = requests \ {q}
         /\ reply' \in [Clients -> {"none", "ok", "error"}]
         /\ \A c \in Clients : reply'[c] = IF c = q.from THEN answer ELSE reply[c]
<1>1. q.from \in Clients \cup {NoClient} /\ NoClient \notin Clients
  BY ZenonT(40), UploadAssumption DEF TypeOK, Requests
<1>2. QED
  BY ZenonT(40), <1>1 DEF TypeOK, Answer

\* A client that leaves takes its name off its requests.
LEMMA OrphanEffect ==
  ASSUME TypeOK, NEW c \in Clients
  PROVE  /\ Orphan(c) \subseteq Requests
         /\ \A q \in Orphan(c) : q.from # c /\ \E p \in requests :
              /\ q.kind = p.kind /\ q.run = p.run /\ q.stage = p.stage
              /\ q.from = NoClient \/ q = p
<1> DEFINE Mark(p) == IF p.from = c THEN [p EXCEPT !.from = NoClient] ELSE p
<1>1. Orphan(c) = {Mark(p) : p \in requests}
  BY ZenonT(40) DEF Orphan
<1>2. ASSUME NEW p \in requests
      PROVE  /\ Mark(p) \in Requests /\ Mark(p).from # c
             /\ Mark(p).kind = p.kind /\ Mark(p).run = p.run /\ Mark(p).stage = p.stage
             /\ Mark(p).from = NoClient \/ Mark(p) = p
  <2>1. p \in Requests /\ NoClient # c
    BY ZenonT(40), UploadAssumption DEF TypeOK
  <2>2. QED
    BY ZenonT(40), <2>1 DEF Requests
<1> HIDE DEF Mark
<1>3. QED
  BY ZenonT(40), <1>1, <1>2

\* The stream adds at most the published content, under its name.
LEMMA PublishEffect ==
  ASSUME TypeOK, NamesInv, NEW n \in Names, NEW r \in RunsOf(n[2]), Publish(n, r)
  PROVE  /\ events' \in [Names -> SUBSET Runs] /\ window' \subseteq Names
         /\ events'[n] # {} /\ \A m \in window' : events'[m] # {}
         /\ \A m \in Names : events[m] \subseteq events'[m]
         /\ \A m \in Names : events'[m] = events[m] \/ (m = n /\ events'[m] = events[m] \cup {r})
<1>1. r \in Runs
  BY ZenonT(40) DEF RunsOf
<1>2. CASE n \in window
  BY ZenonT(40), <1>2 DEF TypeOK, NamesInv, Publish
<1>3. CASE n \notin window
  BY ZenonT(40), <1>1, <1>3 DEF TypeOK, NamesInv, Publish
<1>4. QED
  BY ZenonT(40), <1>2, <1>3

-----------------------------------------------------------------------------
(* Steps *)

\* The initial states satisfy the invariant.
LEMMA InitInv == Init => UploadInv
<1> SUFFICES ASSUME Init PROVE UploadInv
  OBVIOUS
<1>1. TypeOK
  BY ZenonT(40), UploadAssumption DEF Init, TypeOK, Kinds
<1>2. CallInv /\ RequestInv
  BY ZenonT(40) DEF Init, CallInv, RequestInv
<1>o. OrderInv
  BY ZenonT(40) DEF Init, OrderInv
<1>3. NamesInv /\ ReplyInv
  BY ZenonT(40) DEF Init, NamesInv, ReplyInv, Clients
<1>4. RefusedInv
  <2>1. ASSUME NEW u \in refused PROVE events[NameOf(u.kind, u.run)] = {}
    <3>1. u.kind \in Kinds /\ u.run \in Runs
      BY ZenonT(40), <1>1 DEF TypeOK, Uploads
    <3>2. QED
      BY ZenonT(40), <3>1, NameType DEF Init
  <2>2. QED
    BY ZenonT(40), <2>1 DEF RefusedInv
<1>5. AcceptedIsKept
  BY ZenonT(40) DEF Init, AcceptedIsKept
<1>6. QED
  BY ZenonT(40), <1>1, <1>2, <1>o, <1>3, <1>4, <1>5 DEF UploadInv

\* What the stream, the outbox and the accepted uploads promise stays when none
\* of them changes.
LEMMA StreamSame ==
  ASSUME UploadInv, UNCHANGED <<refused, accepted, outbox, events, window>>
  PROVE  NamesInv' /\ RefusedInv' /\ AcceptedIsKept'
  BY ZenonT(40) DEF UploadInv, NamesInv, RefusedInv, AcceptedIsKept, Kept

\* An upload is accepted when the stream or the outbox holds its name.
LEMMA AcceptKept ==
  ASSUME UploadInv, NEW r \in Runs, NEW k \in Kinds, Kept(NameOf(k, r)),
         \A p \in Runs : accepted'[p] \subseteq accepted[p] \cup (IF p = r THEN {k} ELSE {}),
         UNCHANGED <<outbox, events>>
  PROVE  AcceptedIsKept'
  BY ZenonT(40) DEF UploadInv, AcceptedIsKept, Kept

\* What the end of an upload changes of its run.
LEMMA FinishEffect ==
  ASSUME TypeOK, NEW r \in Runs, NEW ok \in BOOLEAN, Finish(r, ok)
  PROVE  /\ accepted' \in [Runs -> SUBSET Kinds]
         /\ pc' \in [Runs -> {"execute", "posting", "storing", "result done", "exited", "killed"}]
         /\ pc'[r] \in {"result done", "exited"} /\ \A p \in Runs : p # r => pc'[p] = pc[p]
         /\ \A p \in Runs : accepted'[p] = IF p = r /\ ok THEN accepted[p] \cup {doing[p]} ELSE accepted[p]
         /\ ~ok => accepted' = accepted
<1> DEFINE more == IF ok THEN accepted[r] \cup {doing[r]} ELSE accepted[r]
           next == IF doing[r] = "result" THEN "result done" ELSE "exited"
<1>1. accepted' = [accepted EXCEPT ![r] = more] /\ pc' = [pc EXCEPT ![r] = next]
  BY ZenonT(40) DEF Finish
<1>2. more \in SUBSET Kinds /\ next \in {"result done", "exited"}
  BY ZenonT(40) DEF TypeOK
<1>3. accepted \in [Runs -> SUBSET Kinds]
      /\ pc \in [Runs -> {"execute", "posting", "storing", "result done", "exited", "killed"}]
  BY ZenonT(40) DEF TypeOK
<1>4. \A p \in Runs : accepted'[p] = IF p = r THEN more ELSE accepted[p]
  <2> HIDE DEF more
  <2>1. QED
    BY ZenonT(40), <1>1, <1>3
<1>5. accepted' \in [Runs -> SUBSET Kinds]
      /\ pc' \in [Runs -> {"execute", "posting", "storing", "result done", "exited", "killed"}]
      /\ pc'[r] = next /\ \A p \in Runs : p # r => pc'[p] = pc[p]
  <2> HIDE DEF more, next
  <2>1. QED
    BY ZenonT(40), <1>1, <1>2, <1>3
<1>6. ~ok => accepted' = accepted
  BY ZenonT(40), <1>1, <1>3, SameValue
<1>7. QED
  BY ZenonT(40), <1>2, <1>4, <1>5, <1>6

\* Whoever leaves no request behind and has no answer keeps the calls in order.
LEMMA CallsSame ==
  ASSUME UploadInv, requests' \subseteq requests, UNCHANGED refused,
         \A c \in Clients : (\E q \in requests' : q.from = c) => reply'[c] = reply[c],
         \A r \in Runs : (\E q \in requests' : q.from = r) => pc'[r] = pc[r] /\ doing'[r] = doing[r],
         \A f \in Flushers : (\E q \in requests' : q.from = f) => fpc'[f] = fpc[f] /\ queue'[f] = queue[f]
  PROVE  CallInv' /\ RequestInv'
<1>1. CallInv'
  BY ZenonT(40) DEF UploadInv, CallInv, Clients
<1>2. RequestInv'
  BY ZenonT(40) DEF UploadInv, RequestInv, Refused, Upload
<1>3. QED
  BY ZenonT(40), <1>1, <1>2

\* publishDeploymentResultToGateway and uploadLogsToGateway keep the invariant.
LEMMA JobCallsInv ==
  ASSUME UploadInv, NEW r \in Runs, PostResults(r) \/ PutLogs(r)
  PROVE  UploadInv'
<1> USE DEF choiceVars, flusherVars, streamVars
<1>0. UNCHANGED <<edge, refused, outbox, fpc, queue, objects, events, window>> /\ pc[r] # "posting"
  BY ZenonT(40) DEF PostResults, PutLogs
<1>t. TypeOK /\ r \in Clients
  BY ZenonT(40) DEF UploadInv, Clients
<1>1. CASE \E k \in Kinds : Send(r, k, r) /\ doing' = [doing EXCEPT ![r] = k]
                           /\ pc' = [pc EXCEPT ![r] = "posting"] /\ accepted' = accepted
  <2> PICK k \in Kinds : Send(r, k, r) /\ doing' = [doing EXCEPT ![r] = k]
                         /\ pc' = [pc EXCEPT ![r] = "posting"] /\ accepted' = accepted
    BY ZenonT(40), <1>1
  <2> DEFINE new == [from |-> r, kind |-> k, run |-> r, stage |-> "received"]
  <2>1. /\ requests' \subseteq Requests /\ faults' \in Nat
        /\ reply' \in [Clients -> {"none", "ok", "error"}]
        /\ reply'[r] # "ok" /\ \A d \in Clients : d # r => reply'[d] = reply[d]
        /\ \A q \in requests' : q \in requests \/ (q = new /\ reply'[r] = "none")
    BY ZenonT(40), <1>t, SendEffect
  <2>2. TypeOK'
    BY ZenonT(40), <1>0, <1>t, <2>1 DEF TypeOK
  <2>n. new.from = r /\ new.kind = k /\ new.run = r /\ new.stage = "received"
    OBVIOUS
  <2> HIDE DEF new
  <2>3. CallInv'
    <3> SUFFICES ASSUME NEW q \in requests'
                 PROVE  /\ q.from \in Runs => pc'[q.from] = "posting" /\ q.kind = doing'[q.from]
                                               /\ q.run = q.from /\ reply'[q.from] = "none"
                        /\ q.from \in Flushers =>
                             /\ fpc'[q.from] = "posting" /\ reply'[q.from] = "none"
                             /\ NameOf(q.kind, q.run) = First(queue'[q.from])
      BY ZenonT(40) DEF CallInv
    <3>1. CASE q \notin requests
      <4>1. pc'[r] = "posting" /\ doing'[r] = k /\ r \notin Flushers
        BY ZenonT(40), <1>t, UploadAssumption DEF TypeOK
      <4>2. QED
        BY ZenonT(40), <2>1, <2>n, <3>1, <4>1
    <3>2. CASE q \in requests
      <4>1. q.from # r
        BY ZenonT(40), <1>0, <3>2 DEF UploadInv, CallInv
      <4>2. \A p \in Runs : p # r => pc'[p] = pc[p] /\ doing'[p] = doing[p]
        BY ZenonT(40), <1>t DEF TypeOK
      <4>3. QED
        BY ZenonT(40), <1>0, <2>1, <3>2, <4>1, <4>2 DEF UploadInv, CallInv, Clients
    <3>3. QED
      BY ZenonT(40), <2>1, <3>1, <3>2
  <2>4. RequestInv'
    <3>1. \A q \in requests : q.from # r
      BY ZenonT(40), <1>0 DEF UploadInv, CallInv
    <3>2. QED
      BY ZenonT(40), <1>0, <2>1, <2>n, <3>1 DEF UploadInv, RequestInv, Refused
  <2>5. ReplyInv'
    BY ZenonT(40), <1>0, <1>t, <2>1, UploadAssumption DEF UploadInv, ReplyInv, TypeOK, Clients
  <2>6. OrderInv'
    BY ZenonT(40), <1>t DEF UploadInv, OrderInv, TypeOK
  <2>7. QED
    BY ZenonT(40), <1>0, <2>2, <2>3, <2>4, <2>5, <2>6, StreamSame DEF UploadInv
<1>2. CASE pc'[r] \in {"result done", "exited"} /\ UNCHANGED <<doing, reply, requests>> /\ faults' \in Nat /\ accepted' = accepted
           /\ pc' \in [Runs -> {"execute", "posting", "storing", "result done", "exited", "killed"}]
           /\ \A p \in Runs : p # r => pc'[p] = pc[p]
  <2>1. TypeOK'
    BY ZenonT(40), <1>0, <1>t, <1>2 DEF TypeOK
  <2>2. \A q \in requests : q.from # r
    BY ZenonT(40), <1>0 DEF UploadInv, CallInv
  <2>3. CallInv' /\ RequestInv'
    BY ZenonT(40), <1>0, <1>2, <2>2, CallsSame
  <2>4. ReplyInv'
    BY ZenonT(40), <1>0, <1>2 DEF UploadInv, ReplyInv
  <2>5. OrderInv'
    BY ZenonT(40), <1>2 DEF UploadInv, OrderInv
  <2>6. QED
    BY ZenonT(40), <1>0, <1>2, <2>1, <2>3, <2>4, <2>5, StreamSame DEF UploadInv
<1>3. CASE PostResults(r)
  <2>1. CASE Fault /\ Finish(r, FALSE) /\ UNCHANGED <<reply, requests>>
    <3>0. faults \in Nat
      BY ZenonT(40), <1>t DEF TypeOK
    <3>1. doing' = doing /\ faults' \in Nat
      BY SMTT(40), <1>3, <2>1, <3>0 DEF PostResults, Fault
    <3>2. /\ accepted' \in [Runs -> SUBSET Kinds]
          /\ pc' \in [Runs -> {"execute", "posting", "storing", "result done", "exited", "killed"}]
          /\ pc'[r] \in {"result done", "exited"} /\ \A p \in Runs : p # r => pc'[p] = pc[p]
          /\ accepted' = accepted
      BY ZenonT(40), <1>t, <2>1, FinishEffect
    <3>3. QED
      BY ZenonT(40), <1>2, <2>1, <3>1, <3>2
  <2>2. CASE pc' = [pc EXCEPT ![r] = "posting"] /\ Send(r, "result", r) /\ UNCHANGED accepted
    <3>1. doing' = [doing EXCEPT ![r] = "result"]
      BY ZenonT(40), <1>3, <1>t DEF PostResults, UploadInv, OrderInv, TypeOK
    <3>2. QED
      BY ZenonT(40), <1>1, <2>2, <3>1 DEF Kinds
  <2>3. QED
    BY ZenonT(40), <1>3, <2>1, <2>2 DEF PostResults
<1>4. CASE PutLogs(r)
  <2>1. CASE pc' = [pc EXCEPT ![r] = "exited"] /\ UNCHANGED <<doing, reply, requests, faults>>
    <3>1. accepted' = accepted
      BY ZenonT(40), <1>4 DEF PutLogs
    <3>2. QED
      BY ZenonT(40), <1>2, <1>t, <2>1, <3>1 DEF TypeOK
  <2>2. QED
    BY ZenonT(40), <1>1, <1>4, <2>1 DEF PutLogs, Kinds
<1>5. QED
  BY ZenonT(40), <1>3, <1>4

\* What the stream holds is kept.
LEMMA StreamKeeps ==
  ASSUME UploadInv, NEW n \in Names, events[n] # {}
  PROVE  Kept(n)
  BY ZenonT(40) DEF UploadInv, NamesInv, Kept

\* The end of a direct call keeps the invariant: an accepted upload is in the
\* stream.
LEMMA DirectReturnsInv ==
  ASSUME UploadInv, NEW r \in Runs, DirectReturns(r)
  PROVE  UploadInv'
<1> USE DEF choiceVars, flusherVars, streamVars
<1>0. /\ UNCHANGED <<edge, refused, doing, outbox, fpc, queue, requests, objects, events, window, faults>>
      /\ pc[r] = "posting" /\ reply[r] # "none" /\ reply' = [reply EXCEPT ![r] = "none"]
  BY ZenonT(40) DEF DirectReturns
<1>t. TypeOK /\ r \in Clients /\ doing[r] \in Kinds
  BY ZenonT(40) DEF UploadInv, Clients, TypeOK
<1>1. reply' \in [Clients -> {"none", "ok", "error"}] /\ \A c \in Clients : c # r => reply'[c] = reply[c]
  BY ZenonT(40), <1>0, <1>t DEF TypeOK
<1>2. /\ accepted' \in [Runs -> SUBSET Kinds]
      /\ pc' \in [Runs -> {"execute", "posting", "storing", "result done", "exited", "killed"}]
      /\ pc'[r] \in {"storing", "result done", "exited"} /\ \A p \in Runs : p # r => pc'[p] = pc[p]
      /\ \A p \in Runs : accepted'[p] = IF p = r /\ reply[r] = "ok" THEN accepted[p] \cup {doing[p]} ELSE accepted[p]
  <2>1. CASE reply[r] = "error" /\ edge
    <3>1. pc' = [pc EXCEPT ![r] = "storing"] /\ accepted' = accepted
      BY ZenonT(40), <2>1 DEF DirectReturns
    <3>2. pc \in [Runs -> {"execute", "posting", "storing", "result done", "exited", "killed"}] /\ accepted \in [Runs -> SUBSET Kinds]
      BY ZenonT(40), <1>t DEF TypeOK
    <3>3. QED
      BY ZenonT(40), <2>1, <3>1, <3>2
  <2>2. CASE ~(reply[r] = "error" /\ edge)
    <3>1. Finish(r, reply[r] = "ok")
      BY ZenonT(40), <2>2 DEF DirectReturns
    <3>2. QED
      BY ZenonT(40), <1>t, <3>1, FinishEffect
  <2>3. QED
    BY ZenonT(40), <2>1, <2>2
<1>3. TypeOK'
  BY ZenonT(40), <1>0, <1>t, <1>1, <1>2 DEF TypeOK
<1>4. \A q \in requests : q.from # r
  BY ZenonT(40), <1>0 DEF UploadInv, CallInv
<1>5. CallInv' /\ RequestInv'
  BY ZenonT(40), <1>0, <1>1, <1>2, <1>4, CallsSame
<1>6. NamesInv' /\ RefusedInv'
  BY ZenonT(40), <1>0 DEF UploadInv, NamesInv, RefusedInv
<1>7. ReplyInv'
  BY ZenonT(40), <1>0, <1>1, <1>2, UploadAssumption DEF UploadInv, ReplyInv, Clients
<1>8. AcceptedIsKept'
  <2>1. CASE reply[r] = "ok"
    <3>1. Kept(NameOf(doing[r], r))
      BY ZenonT(40), <1>0, <1>t, <2>1, NameType, StreamKeeps DEF UploadInv, ReplyInv
    <3>2. QED
      BY ZenonT(40), <1>0, <1>t, <1>2, <3>1, AcceptKept
  <2>2. CASE reply[r] # "ok"
    BY ZenonT(40), <1>0, <1>2, <2>2 DEF UploadInv, AcceptedIsKept, Kept
  <2>3. QED
    BY ZenonT(40), <2>1, <2>2
<1>9. OrderInv'
  BY ZenonT(40), <1>0, <1>2 DEF UploadInv, OrderInv
<1>10. QED
  BY ZenonT(40), <1>3, <1>5, <1>6, <1>7, <1>8, <1>9 DEF UploadInv

\* Outbox.store keeps the invariant: the file that a rename replaces is one of
\* the same deployment.
LEMMA StoreInv ==
  ASSUME UploadInv, NEW r \in Runs, Store(r)
  PROVE  UploadInv'
<1> USE DEF choiceVars, flusherVars, streamVars
<1> DEFINE n == NameOf(doing[r], r)
           renamed == [outbox EXCEPT ![n] = r]
<1>0. /\ UNCHANGED <<edge, refused, doing, fpc, queue, reply, requests, objects, events, window>>
      /\ pc[r] = "storing"
  BY ZenonT(40) DEF Store
<1>t. TypeOK /\ doing[r] \in Kinds /\ faults \in Nat /\ outbox \in [Names -> Runs \cup {NoRun}]
  BY ZenonT(40) DEF UploadInv, TypeOK
<1>n. n \in Names /\ r \in RunsOf(n[2])
  BY ZenonT(40), <1>t, NameType
<1>1. PICK ok \in BOOLEAN : Finish(r, ok) /\ outbox' \in {outbox, renamed} /\ (ok => outbox' = renamed) /\ faults' \in Nat
  <2> HIDE DEF n
  <2>1. CASE outbox' = renamed /\ Finish(r, TRUE) /\ faults' = faults
    BY ZenonT(40), <1>t, <2>1
  <2>2. CASE faults' = faults + 1 /\ outbox' \in {outbox, renamed} /\ Finish(r, FALSE)
    <3>1. faults' \in Nat
      BY SMTT(40), <1>t, <2>2
    <3>2. QED
      BY ZenonT(40), <2>2, <3>1
  <2>3. QED
    BY ZenonT(40), <2>1, <2>2 DEF Store, Fault, n
<1>2. /\ accepted' \in [Runs -> SUBSET Kinds]
      /\ pc' \in [Runs -> {"execute", "posting", "storing", "result done", "exited", "killed"}]
      /\ pc'[r] \in {"result done", "exited"} /\ \A p \in Runs : p # r => pc'[p] = pc[p]
      /\ \A p \in Runs : accepted'[p] = IF p = r /\ ok THEN accepted[p] \cup {doing[p]} ELSE accepted[p]
  BY ZenonT(40), <1>1, <1>t, FinishEffect
<1>3. /\ outbox' \in [Names -> Runs \cup {NoRun}]
      /\ \A m \in Names : outbox'[m] = outbox[m] \/ (m = n /\ outbox'[m] = r)
      /\ ok => outbox'[n] = r
  <2> HIDE DEF n
  <2>1. QED
    BY ZenonT(40), <1>1, <1>n, <1>t
<1>4. TypeOK'
  BY ZenonT(40), <1>0, <1>t, <1>1, <1>2, <1>3 DEF TypeOK
<1>5. \A q \in requests : q.from # r
  BY ZenonT(40), <1>0 DEF UploadInv, CallInv
<1>6. CallInv' /\ RequestInv'
  BY ZenonT(40), <1>0, <1>2, <1>5, CallsSame
<1>7. NamesInv' /\ RefusedInv'
  <2> HIDE DEF n
  <2>1. QED
    BY ZenonT(40), <1>0, <1>n, <1>3 DEF UploadInv, NamesInv, RefusedInv
<1>8. ReplyInv'
  BY ZenonT(40), <1>0, <1>2 DEF UploadInv, ReplyInv
<1>9. AcceptedIsKept'
  <2>1. SUFFICES ASSUME NEW p \in Runs, NEW k \in accepted'[p] PROVE Kept(NameOf(k, p))'
    BY ZenonT(40) DEF AcceptedIsKept
  <2>2. k \in Kinds /\ NameOf(k, p) \in Names
    BY ZenonT(40), <1>2, NameType
  <2>3. CASE NameOf(k, p) = n /\ outbox'[n] = r
    BY ZenonT(40), <1>n, <2>3 DEF Kept
  <2>4. CASE ~(NameOf(k, p) = n /\ outbox'[n] = r)
    <3>1. k \in accepted[p]
      BY ZenonT(40), <1>2, <1>3, <2>4
    <3>2. Kept(NameOf(k, p)) /\ outbox'[NameOf(k, p)] = outbox[NameOf(k, p)]
      BY ZenonT(40), <1>3, <2>2, <2>4, <3>1 DEF UploadInv, AcceptedIsKept
    <3>3. QED
      BY ZenonT(40), <1>0, <3>2 DEF Kept
  <2>5. QED
    BY ZenonT(40), <2>3, <2>4
<1>10. OrderInv'
  BY ZenonT(40), <1>0, <1>2 DEF UploadInv, OrderInv
<1>11. QED
  BY ZenonT(40), <1>4, <1>6, <1>7, <1>8, <1>9, <1>10 DEF UploadInv
\* A client that leaves keeps the calls of the others in order.
LEMMA OrphanCalls ==
  ASSUME UploadInv, NEW c \in Clients, requests' = Orphan(c), UNCHANGED refused,
         \A d \in Clients : d # c => reply'[d] = reply[d],
         \A r \in Runs : r # c => pc'[r] = pc[r] /\ doing'[r] = doing[r],
         \A f \in Flushers : f # c => fpc'[f] = fpc[f] /\ queue'[f] = queue[f]
  PROVE  CallInv' /\ RequestInv' /\ requests' \subseteq Requests
<1>1. /\ requests' \subseteq Requests
      /\ \A q \in requests' : q.from # c /\ \E p \in requests :
           /\ q.kind = p.kind /\ q.run = p.run /\ q.stage = p.stage
           /\ q.from = NoClient \/ q = p
  BY ZenonT(40), OrphanEffect DEF UploadInv
<1>2. CallInv'
  <2> SUFFICES ASSUME NEW q \in requests'
               PROVE  /\ q.from \in Runs => pc'[q.from] = "posting" /\ q.kind = doing'[q.from]
                                             /\ q.run = q.from /\ reply'[q.from] = "none"
                      /\ q.from \in Flushers =>
                           /\ fpc'[q.from] = "posting" /\ reply'[q.from] = "none"
                           /\ NameOf(q.kind, q.run) = First(queue'[q.from])
    BY ZenonT(40) DEF CallInv
  <2>1. CASE q.from = NoClient
    BY ZenonT(40), <2>1, UploadAssumption DEF Clients
  <2>2. CASE q.from # NoClient
    <3>1. q \in requests /\ q.from # c
      BY ZenonT(40), <1>1, <2>2
    <3>2. QED
      BY ZenonT(40), <3>1 DEF UploadInv, CallInv, Clients
  <2>3. QED
    BY ZenonT(40), <2>1, <2>2
<1>3. RequestInv'
  <2>1. \A q \in requests' : q.from \in Clients => q \in requests
    BY ZenonT(40), <1>1, UploadAssumption
  <2>2. QED
    BY SMTT(40), <1>1, <2>1 DEF UploadInv, RequestInv, Refused, Upload
<1>4. QED
  BY ZenonT(40), <1>1, <1>2, <1>3

\* A killed Job keeps the invariant.
LEMMA KillJobInv ==
  ASSUME UploadInv, NEW r \in Runs, KillJob(r)
  PROVE  UploadInv'
<1> USE DEF choiceVars, flusherVars, streamVars
<1>0. /\ UNCHANGED <<edge, refused, doing, accepted, outbox, fpc, queue, objects, events, window>>
      /\ pc' = [pc EXCEPT ![r] = "killed"] /\ requests' = Orphan(r)
      /\ reply' = [reply EXCEPT ![r] = "none"] /\ faults' = faults + 1
  BY ZenonT(40) DEF KillJob, Fault
<1>t. TypeOK /\ r \in Clients /\ r \notin Flushers
  BY ZenonT(40), UploadAssumption DEF UploadInv, Clients
<1>f. faults \in Nat /\ reply \in [Clients -> {"none", "ok", "error"}]
      /\ pc \in [Runs -> {"execute", "posting", "storing", "result done", "exited", "killed"}]
  BY ZenonT(40), <1>t DEF TypeOK
<1>1. /\ pc' \in [Runs -> {"execute", "posting", "storing", "result done", "exited", "killed"}]
      /\ pc'[r] = "killed" /\ \A p \in Runs : p # r => pc'[p] = pc[p]
  BY ZenonT(40), <1>0, <1>f
<1>r. /\ reply' \in [Clients -> {"none", "ok", "error"}] /\ \A c \in Clients : c # r => reply'[c] = reply[c]
      /\ faults' \in Nat
  <2>1. faults' = faults + 1 /\ faults \in Nat
    BY ZenonT(40), <1>f DEF KillJob, Fault
  <2>2. faults' \in Nat
    BY SMTT(40), <2>1
  <2>3. QED
    BY ZenonT(40), <1>0, <1>t, <1>f, <2>2
<1>2. CallInv' /\ RequestInv' /\ requests' \subseteq Requests
  BY ZenonT(40), <1>0, <1>t, <1>1, <1>r, OrphanCalls
<1>3. TypeOK'
  BY ZenonT(40), <1>0, <1>t, <1>1, <1>r, <1>2 DEF TypeOK
<1>4. ReplyInv' /\ OrderInv'
  BY ZenonT(40), <1>0, <1>t, <1>1, <1>r DEF UploadInv, ReplyInv, OrderInv, Clients
<1>5. QED
  BY ZenonT(40), <1>0, <1>2, <1>3, <1>4, StreamSame DEF UploadInv

\* What the end of a pass changes of its flusher.
LEMMA EndPassEffect ==
  ASSUME TypeOK, NEW f \in Flushers, EndPass(f)
  PROVE  /\ fpc' \in [Flushers -> {"idle", "next", "posting", "removing"}]
         /\ queue' \in [Flushers -> SUBSET Names]
         /\ fpc'[f] = "idle"
         /\ \A g \in Flushers : g # f => fpc'[g] = fpc[g] /\ queue'[g] = queue[g]
<1>1. fpc \in [Flushers -> {"idle", "next", "posting", "removing"}] /\ queue \in [Flushers -> SUBSET Names]
  BY ZenonT(40) DEF TypeOK
<1>2. QED
  BY ZenonT(40), <1>1 DEF EndPass

\* A restarted flusher keeps the invariant.
LEMMA RestartFlusherInv ==
  ASSUME UploadInv, NEW f \in Flushers, RestartFlusher(f)
  PROVE  UploadInv'
<1> USE DEF choiceVars, jobVars, streamVars
<1>0. /\ UNCHANGED <<edge, refused, pc, doing, accepted, outbox, objects, events, window>>
      /\ EndPass(f) /\ requests' = Orphan(f)
      /\ reply' = [reply EXCEPT ![f] = "none"] /\ faults' = faults + 1
  BY ZenonT(40) DEF RestartFlusher, Fault
<1>t. TypeOK /\ f \in Clients /\ f \notin Runs
  BY ZenonT(40), UploadAssumption DEF UploadInv, Clients
<1>f. faults \in Nat /\ reply \in [Clients -> {"none", "ok", "error"}]
  BY ZenonT(40), <1>t DEF TypeOK
<1>1. /\ reply' \in [Clients -> {"none", "ok", "error"}] /\ \A c \in Clients : c # f => reply'[c] = reply[c]
      /\ faults' \in Nat
  BY SMTT(40), <1>0, <1>t, <1>f
<1>2. /\ fpc' \in [Flushers -> {"idle", "next", "posting", "removing"}]
      /\ queue' \in [Flushers -> SUBSET Names]
      /\ fpc'[f] = "idle"
      /\ \A g \in Flushers : g # f => fpc'[g] = fpc[g] /\ queue'[g] = queue[g]
  BY ZenonT(40), <1>0, <1>t, EndPassEffect
<1>3. CallInv' /\ RequestInv' /\ requests' \subseteq Requests
  BY ZenonT(40), <1>0, <1>t, <1>1, <1>2, OrphanCalls
<1>4. TypeOK'
  BY ZenonT(40), <1>0, <1>t, <1>1, <1>2, <1>3 DEF TypeOK
<1>5. ReplyInv' /\ OrderInv'
  BY ZenonT(40), <1>0, <1>t, <1>1, <1>2 DEF UploadInv, ReplyInv, OrderInv, Clients
<1>6. QED
  BY ZenonT(40), <1>0, <1>3, <1>4, <1>5, StreamSame DEF UploadInv

\* A client that gives up a call keeps the invariant.
LEMMA GiveUpInv ==
  ASSUME UploadInv, NEW c \in Clients, GiveUp(c)
  PROVE  UploadInv'
<1> USE DEF choiceVars, jobVars, flusherVars, streamVars
<1>0. /\ UNCHANGED <<edge, refused, pc, doing, accepted, outbox, fpc, queue, objects, events, window>>
      /\ requests' = Orphan(c)
      /\ reply' = [reply EXCEPT ![c] = "error"] /\ faults' = faults + 1
  BY ZenonT(40) DEF GiveUp, Fault
<1>t. TypeOK
  BY ZenonT(40) DEF UploadInv
<1>f. faults \in Nat /\ reply \in [Clients -> {"none", "ok", "error"}]
  BY ZenonT(40), <1>t DEF TypeOK
<1>1. /\ reply' \in [Clients -> {"none", "ok", "error"}]
      /\ \A d \in Clients : d # c => reply'[d] = reply[d]
      /\ reply'[c] = "error" /\ faults' \in Nat
  BY SMTT(40), <1>0, <1>t, <1>f
<1>2. CallInv' /\ RequestInv' /\ requests' \subseteq Requests
  BY ZenonT(40), <1>0, <1>t, <1>1, OrphanCalls
<1>3. TypeOK'
  BY ZenonT(40), <1>0, <1>t, <1>1, <1>2 DEF TypeOK
<1>4. ReplyInv' /\ OrderInv'
  BY ZenonT(40), <1>0, <1>1 DEF UploadInv, ReplyInv, OrderInv, Clients
<1>5. QED
  BY ZenonT(40), <1>0, <1>2, <1>3, <1>4, StreamSame DEF UploadInv
\* A fault is counted.
LEMMA FaultType ==
  ASSUME TypeOK, Fault
  PROVE  faults' \in Nat
<1>1. faults \in Nat /\ faults' = faults + 1
  BY ZenonT(40) DEF TypeOK, Fault
<1>2. QED
  BY SMTT(40), <1>1

\* A step of a flusher that sends nothing and leaves the outbox alone keeps
\* the invariant.
LEMMA FlusherStepInv ==
  ASSUME UploadInv, NEW f \in Flushers,
         UNCHANGED <<edge, refused, pc, doing, accepted, outbox, requests, objects, events, window>>,
         faults' \in Nat,
         \A q \in requests : q.from # f,
         reply' \in [Clients -> {"none", "ok", "error"}],
         \A c \in Clients : c # f => reply'[c] = reply[c],
         fpc' \in [Flushers -> {"idle", "next", "posting", "removing"}],
         queue' \in [Flushers -> SUBSET Names],
         \A g \in Flushers : g # f => fpc'[g] = fpc[g] /\ queue'[g] = queue[g],
         fpc'[f] \in {"idle", "next"} \/ (fpc'[f] = "removing" /\ First(queue'[f]) \in Names /\ events[First(queue'[f])] # {})
  PROVE  UploadInv'
<1>t. TypeOK /\ f \notin Runs
  BY ZenonT(40), UploadAssumption DEF UploadInv
<1>1. TypeOK'
  BY ZenonT(40), <1>t DEF TypeOK
<1>2. CallInv' /\ RequestInv'
  BY ZenonT(40), CallsSame
<1>3. ReplyInv'
  BY ZenonT(40), <1>t DEF UploadInv, ReplyInv, Clients
<1>4. OrderInv'
  BY ZenonT(40) DEF UploadInv, OrderInv
<1>5. QED
  BY ZenonT(40), <1>1, <1>2, <1>3, <1>4, StreamSame DEF UploadInv

\* The beginning of a pass keeps the invariant.
LEMMA FlushTickInv ==
  ASSUME UploadInv, NEW f \in Flushers, FlushTick(f)
  PROVE  UploadInv'
<1> USE DEF choiceVars, jobVars, streamVars
<1> DEFINE found == {n \in Names : outbox[n] # NoRun}
<1>0. /\ UNCHANGED <<edge, refused, pc, doing, accepted, outbox, reply, requests, objects, events, window, faults>>
      /\ fpc[f] = "idle" /\ fpc' = [fpc EXCEPT ![f] = "next"] /\ queue' = [queue EXCEPT ![f] = found]
  BY ZenonT(40) DEF FlushTick
<1>1. found \in SUBSET Names
  OBVIOUS
<1> HIDE DEF found
<1>t. fpc \in [Flushers -> {"idle", "next", "posting", "removing"}] /\ queue \in [Flushers -> SUBSET Names]
      /\ faults \in Nat /\ reply \in [Clients -> {"none", "ok", "error"}]
  BY ZenonT(40) DEF UploadInv, TypeOK
<1>2. /\ fpc' \in [Flushers -> {"idle", "next", "posting", "removing"}] /\ queue' \in [Flushers -> SUBSET Names]
      /\ fpc'[f] = "next" /\ \A g \in Flushers : g # f => fpc'[g] = fpc[g] /\ queue'[g] = queue[g]
  BY ZenonT(40), <1>0, <1>1, <1>t
<1>3. \A q \in requests : q.from # f
  BY ZenonT(40), <1>0 DEF UploadInv, CallInv
<1>4. QED
  BY ZenonT(40), <1>0, <1>t, <1>2, <1>3, FlusherStepInv

\* The next file of a pass keeps the invariant: it is posted under its name.
LEMMA FlushNextInv ==
  ASSUME UploadInv, NEW f \in Flushers, FlushNext(f)
  PROVE  UploadInv'
<1> USE DEF choiceVars, jobVars, streamVars
<1> DEFINE n == First(queue[f])
<1>0. /\ UNCHANGED <<edge, refused, pc, doing, accepted, outbox, objects, events, window>>
      /\ fpc[f] = "next"
  BY ZenonT(40) DEF FlushNext
<1>t. TypeOK /\ f \in Clients /\ f \notin Runs
  BY ZenonT(40), UploadAssumption DEF UploadInv, Clients
<1>f. fpc \in [Flushers -> {"idle", "next", "posting", "removing"}] /\ queue \in [Flushers -> SUBSET Names]
      /\ faults \in Nat /\ reply \in [Clients -> {"none", "ok", "error"}]
  BY ZenonT(40), <1>t DEF TypeOK
<1>q. \A q \in requests : q.from # f
  BY ZenonT(40), <1>0 DEF UploadInv, CallInv
<1>1. CASE EndPass(f) /\ faults' \in Nat /\ UNCHANGED <<reply, requests>>
  <2>1. /\ fpc' \in [Flushers -> {"idle", "next", "posting", "removing"}]
        /\ queue' \in [Flushers -> SUBSET Names]
        /\ fpc'[f] = "idle"
        /\ \A g \in Flushers : g # f => fpc'[g] = fpc[g] /\ queue'[g] = queue[g]
    BY ZenonT(40), <1>1, <1>t, EndPassEffect
  <2>2. QED
    BY ZenonT(40), <1>0, <1>1, <1>f, <1>q, <2>1, FlusherStepInv
<1>2. CASE /\ queue[f] # {} /\ outbox[n] # NoRun
           /\ fpc' = [fpc EXCEPT ![f] = "posting"]
           /\ Send(f, n[1], outbox[n])
           /\ UNCHANGED queue
  <2>1. n \in queue[f] /\ n \in Names
    BY ZenonT(40), <1>f, <1>2, FirstIn
  <2>2. outbox[n] \in RunsOf(n[2]) /\ n[1] \in Kinds /\ n = <<n[1], n[2]>>
    <3> HIDE DEF n
    <3>1. QED
      BY SMTT(40), <1>2, <2>1 DEF UploadInv, NamesInv, Names
  <2>3. outbox[n] \in Runs /\ NameOf(n[1], outbox[n]) = n
    <3> HIDE DEF n
    <3>1. QED
      BY ZenonT(40), <2>2 DEF RunsOf, NameOf
  <2>4. PICK k \in Kinds, r \in Runs : Send(f, k, r) /\ NameOf(k, r) = First(queue[f])
    BY ZenonT(40), <1>2, <2>2, <2>3
  <2> DEFINE new == [from |-> f, kind |-> k, run |-> r, stage |-> "received"]
  <2>5. /\ requests' \subseteq Requests /\ faults' \in Nat
        /\ reply' \in [Clients -> {"none", "ok", "error"}]
        /\ reply'[f] # "ok" /\ \A d \in Clients : d # f => reply'[d] = reply[d]
        /\ \A q \in requests' : q \in requests \/ (q = new /\ reply'[f] = "none")
    BY ZenonT(40), <1>t, <2>4, SendEffect
  <2>n. new.from = f /\ new.kind = k /\ new.run = r /\ new.stage = "received"
    BY ZenonT(40)
  <2> HIDE DEF new, n
  <2>6. /\ fpc' \in [Flushers -> {"idle", "next", "posting", "removing"}]
        /\ fpc'[f] = "posting" /\ \A g \in Flushers : g # f => fpc'[g] = fpc[g]
    BY ZenonT(40), <1>f, <1>2
  <2>7. TypeOK'
    BY ZenonT(40), <1>0, <1>t, <1>2, <2>5, <2>6 DEF TypeOK
  <2>8. CallInv'
    <3> SUFFICES ASSUME NEW q \in requests'
                 PROVE  /\ q.from \in Runs => pc'[q.from] = "posting" /\ q.kind = doing'[q.from]
                                               /\ q.run = q.from /\ reply'[q.from] = "none"
                        /\ q.from \in Flushers =>
                             /\ fpc'[q.from] = "posting" /\ reply'[q.from] = "none"
                             /\ NameOf(q.kind, q.run) = First(queue'[q.from])
      BY ZenonT(40) DEF CallInv
    <3>1. CASE q \notin requests
      BY ZenonT(40), <1>t, <1>2, <2>4, <2>5, <2>n, <2>6, <3>1
    <3>2. CASE q \in requests
      BY ZenonT(40), <1>0, <1>2, <1>q, <2>5, <2>6, <3>2 DEF UploadInv, CallInv, Clients
    <3>3. QED
      BY ZenonT(40), <3>1, <3>2
  <2>9. RequestInv'
    BY ZenonT(40), <1>0, <1>q, <2>5, <2>n DEF UploadInv, RequestInv, Refused
  <2>10. ReplyInv' /\ OrderInv'
    BY SMTT(40), <1>0, <1>2, <1>t, <2>5, <2>6 DEF UploadInv, ReplyInv, OrderInv, Clients
  <2>11. QED
    BY ZenonT(40), <1>0, <2>7, <2>8, <2>9, <2>10, StreamSame DEF UploadInv
<1>3. QED
  <2>1. CASE Fault /\ EndPass(f) /\ UNCHANGED <<reply, requests>>
    BY ZenonT(40), <1>1, <1>t, <2>1, FaultType
  <2>2. QED
    BY ZenonT(40), <1>1, <1>2, <1>f, <2>1 DEF FlushNext
\* The end of a flusher's call keeps the invariant: it goes on to remove a
\* file only when the stream has its name.
LEMMA FlushReturnsInv ==
  ASSUME UploadInv, NEW f \in Flushers, FlushReturns(f)
  PROVE  UploadInv'
<1> USE DEF choiceVars, jobVars, streamVars
<1>0. /\ UNCHANGED <<edge, refused, pc, doing, accepted, outbox, requests, objects, events, window, faults>>
      /\ fpc[f] = "posting" /\ reply[f] # "none" /\ reply' = [reply EXCEPT ![f] = "none"]
  BY ZenonT(40) DEF FlushReturns
<1>t. TypeOK /\ f \in Clients
  BY ZenonT(40) DEF UploadInv, Clients
<1>f. fpc \in [Flushers -> {"idle", "next", "posting", "removing"}] /\ queue \in [Flushers -> SUBSET Names]
      /\ faults \in Nat /\ reply \in [Clients -> {"none", "ok", "error"}]
  BY ZenonT(40), <1>t DEF TypeOK
<1>q. \A q \in requests : q.from # f
  BY ZenonT(40), <1>0 DEF UploadInv, CallInv
<1>r. reply' \in [Clients -> {"none", "ok", "error"}] /\ \A c \in Clients : c # f => reply'[c] = reply[c]
  BY ZenonT(40), <1>0, <1>t, <1>f
<1>1. CASE reply[f] = "ok" /\ fpc' = [fpc EXCEPT ![f] = "removing"] /\ queue' = queue
  <2>1. fpc' \in [Flushers -> {"idle", "next", "posting", "removing"}]
        /\ fpc'[f] = "removing" /\ \A g \in Flushers : g # f => fpc'[g] = fpc[g]
    BY ZenonT(40), <1>1, <1>f
  <2>2. First(queue'[f]) \in Names /\ events[First(queue'[f])] # {}
    BY ZenonT(40), <1>0, <1>1 DEF UploadInv, ReplyInv
  <2>3. QED
    BY ZenonT(40), <1>0, <1>1, <1>f, <1>q, <1>r, <2>1, <2>2, FlusherStepInv
<1>2. CASE EndPass(f)
  <2>1. /\ fpc' \in [Flushers -> {"idle", "next", "posting", "removing"}]
        /\ queue' \in [Flushers -> SUBSET Names]
        /\ fpc'[f] = "idle"
        /\ \A g \in Flushers : g # f => fpc'[g] = fpc[g] /\ queue'[g] = queue[g]
    BY ZenonT(40), <1>2, <1>t, EndPassEffect
  <2>2. QED
    BY ZenonT(40), <1>0, <1>f, <1>q, <1>r, <2>1, FlusherStepInv
<1>3. QED
  BY ZenonT(40), <1>1, <1>2 DEF FlushReturns

\* Removing a file by its name keeps the invariant, whatever it holds by now:
\* the stream has an upload of that name.
LEMMA FlushRemoveInv ==
  ASSUME UploadInv, NEW f \in Flushers, FlushRemove(f)
  PROVE  UploadInv'
<1> USE DEF choiceVars, jobVars, streamVars
<1> DEFINE n == First(queue[f])
<1>0. /\ UNCHANGED <<edge, refused, pc, doing, accepted, reply, requests, objects, events, window>>
      /\ fpc[f] = "removing" /\ outbox' = [outbox EXCEPT ![n] = NoRun]
  BY ZenonT(40) DEF FlushRemove
<1>t. TypeOK
  BY ZenonT(40) DEF UploadInv
<1>f. fpc \in [Flushers -> {"idle", "next", "posting", "removing"}] /\ queue \in [Flushers -> SUBSET Names]
      /\ faults \in Nat /\ outbox \in [Names -> Runs \cup {NoRun}]
  BY ZenonT(40), <1>t DEF TypeOK
<1>1. faults' \in Nat
  <2>1. faults' = faults \/ Fault
    BY ZenonT(40) DEF FlushRemove
  <2>2. QED
    BY ZenonT(40), <1>t, <1>f, <2>1, FaultType
<1>2. /\ fpc' \in [Flushers -> {"idle", "next", "posting", "removing"}]
      /\ queue' \in [Flushers -> SUBSET Names]
      /\ fpc'[f] \in {"idle", "next"}
      /\ \A g \in Flushers : g # f => fpc'[g] = fpc[g] /\ queue'[g] = queue[g]
  <2>1. CASE EndPass(f)
    BY ZenonT(40), <1>t, <2>1, EndPassEffect
  <2>2. CASE fpc' = [fpc EXCEPT ![f] = "next"] /\ queue' = [queue EXCEPT ![f] = @ \ {n}]
    <3>1. queue[f] \ {n} \in SUBSET Names
      BY ZenonT(40), <1>f
    <3> HIDE DEF n
    <3>2. QED
      BY ZenonT(40), <1>f, <2>2, <3>1
  <2>3. QED
    BY ZenonT(40), <2>1, <2>2 DEF FlushRemove
<1>3. events[n] # {}
  BY ZenonT(40), <1>0 DEF UploadInv, ReplyInv
<1> HIDE DEF n
<1>4. /\ outbox' \in [Names -> Runs \cup {NoRun}]
      /\ \A m \in Names : outbox'[m] = IF m = n THEN NoRun ELSE outbox[m]
  BY ZenonT(40), <1>0, <1>f
<1>5. TypeOK'
  BY ZenonT(40), <1>0, <1>t, <1>1, <1>2, <1>4 DEF TypeOK
<1>6. \A q \in requests : q.from # f
  BY ZenonT(40), <1>0 DEF UploadInv, CallInv
<1>7. CallInv' /\ RequestInv'
  BY ZenonT(40), <1>0, <1>2, <1>6, CallsSame
<1>8. NamesInv' /\ RefusedInv'
  BY ZenonT(40), <1>0, <1>4 DEF UploadInv, NamesInv, RefusedInv
<1>9. ReplyInv' /\ OrderInv'
  BY ZenonT(40), <1>0, <1>2 DEF UploadInv, ReplyInv, OrderInv
<1>10. AcceptedIsKept'
  <2>1. SUFFICES ASSUME NEW p \in Runs, NEW k \in accepted'[p] PROVE Kept(NameOf(k, p))'
    BY ZenonT(40) DEF AcceptedIsKept
  <2>2. k \in Kinds /\ NameOf(k, p) \in Names /\ Kept(NameOf(k, p))
    BY ZenonT(40), <1>0, <1>t, NameType DEF TypeOK, UploadInv, AcceptedIsKept
  <2>3. CASE NameOf(k, p) = n
    <3>1. events'[n] # {} /\ events'[n] \subseteq RunsOf(n[2])
      BY ZenonT(40), <1>0, <1>3, <2>2, <2>3 DEF UploadInv, NamesInv
    <3>2. QED
      BY ZenonT(40), <2>3, <3>1 DEF Kept
  <2>4. CASE NameOf(k, p) # n
    BY ZenonT(40), <1>0, <1>4, <2>2, <2>4 DEF Kept
  <2>5. QED
    BY ZenonT(40), <2>3, <2>4
<1>11. QED
  BY ZenonT(40), <1>5, <1>7, <1>8, <1>9, <1>10 DEF UploadInv

\* The end of a request that publishes nothing keeps the invariant.
LEMMA RefuseInv ==
  ASSUME UploadInv, NEW q \in requests, Answer(q, "error"), faults' \in Nat,
         objects' \in [Deployments -> Runs \cup {NoRun}],
         UNCHANGED <<edge, refused, pc, doing, accepted, outbox, fpc, queue, events, window>>
  PROVE  UploadInv'
<1>t. TypeOK
  BY ZenonT(40) DEF UploadInv
<1>1. /\ requests' = requests \ {q}
      /\ reply' \in [Clients -> {"none", "ok", "error"}]
      /\ \A c \in Clients : reply'[c] = IF c = q.from THEN "error" ELSE reply[c]
  BY ZenonT(40), <1>t, AnswerEffect
<1>2. TypeOK'
  BY ZenonT(40), <1>t, <1>1 DEF TypeOK
<1>3. CallInv' /\ RequestInv'
  <2>1. ASSUME NEW p \in requests', p.from \in Clients PROVE p.from # q.from
    BY ZenonT(40), <1>1, <2>1 DEF UploadInv, RequestInv
  <2>2. QED
    BY ZenonT(40), <1>1, <2>1, CallsSame
<1>4. ReplyInv' /\ OrderInv'
  BY ZenonT(40), <1>1 DEF UploadInv, ReplyInv, OrderInv, Clients
<1>5. QED
  BY ZenonT(40), <1>2, <1>3, <1>4, StreamSame DEF UploadInv
\* An upload that the gateway publishes keeps the invariant: whoever is told
\* so finds it in the stream.
LEMMA AcceptInv ==
  ASSUME UploadInv, NEW q \in requests, ~Refused(q), Answer(q, "ok"), Publish(NameOf(q.kind, q.run), q.run),
         UNCHANGED <<edge, refused, pc, doing, accepted, outbox, fpc, queue, objects, faults>>
  PROVE  UploadInv'
<1> DEFINE n == NameOf(q.kind, q.run)
<1>t. TypeOK /\ NamesInv /\ q.kind \in Kinds /\ q.run \in Runs
  BY ZenonT(40) DEF UploadInv, TypeOK, Requests
<1>n. n \in Names /\ q.run \in RunsOf(n[2])
  BY ZenonT(40), <1>t, NameType
<1>1. /\ requests' = requests \ {q}
      /\ reply' \in [Clients -> {"none", "ok", "error"}]
      /\ \A c \in Clients : reply'[c] = IF c = q.from THEN "ok" ELSE reply[c]
  BY ZenonT(40), <1>t, AnswerEffect
<1>2. /\ events' \in [Names -> SUBSET Runs] /\ window' \subseteq Names
      /\ events'[n] # {} /\ \A m \in window' : events'[m] # {}
      /\ \A m \in Names : events[m] \subseteq events'[m]
      /\ \A m \in Names : events'[m] = events[m] \/ (m = n /\ events'[m] = events[m] \cup {q.run})
  BY ZenonT(40), <1>t, <1>n, PublishEffect
<1>3. TypeOK'
  BY ZenonT(40), <1>t, <1>1, <1>2 DEF TypeOK
<1>4. CallInv' /\ RequestInv'
  <2>1. ASSUME NEW p \in requests', p.from \in Clients PROVE p.from # q.from
    BY ZenonT(40), <1>1, <2>1 DEF UploadInv, RequestInv
  <2>2. QED
    BY ZenonT(40), <1>1, <2>1, CallsSame
<1>5. NamesInv'
  <2>1. \A m \in Names : events'[m] \subseteq RunsOf(m[2]) /\ outbox'[m] \in RunsOf(m[2]) \cup {NoRun}
    <3> HIDE DEF n
    <3>1. QED
      BY SMTT(40), <1>t, <1>n, <1>2 DEF NamesInv
  <2>2. QED
    BY ZenonT(40), <1>2, <2>1 DEF NamesInv
<1>6. ReplyInv'
  <2>1. ASSUME NEW r \in Runs, pc'[r] = "posting", reply'[r] = "ok"
        PROVE  events'[NameOf(doing'[r], r)] # {}
    <3>1. CASE r = q.from
      BY ZenonT(40), <1>2, <3>1 DEF UploadInv, CallInv
    <3>2. CASE r # q.from
      <4>1. events[NameOf(doing[r], r)] # {}
        BY ZenonT(40), <1>1, <2>1, <3>2 DEF UploadInv, ReplyInv, Clients
      <4>2. NameOf(doing[r], r) \in Names
        BY ZenonT(40), <1>t, NameType DEF TypeOK
      <4>3. QED
        BY ZenonT(40), <1>2, <4>1, <4>2
    <3>3. QED
      BY ZenonT(40), <3>1, <3>2
  <2>2. ASSUME NEW f \in Flushers, (fpc'[f] = "posting" /\ reply'[f] = "ok") \/ fpc'[f] = "removing"
        PROVE  First(queue'[f]) \in Names /\ events'[First(queue'[f])] # {}
    <3>1. CASE f = q.from
      BY ZenonT(40), <1>n, <1>2, <3>1 DEF UploadInv, CallInv
    <3>2. CASE f # q.from
      <4>1. First(queue[f]) \in Names /\ events[First(queue[f])] # {}
        BY ZenonT(40), <1>1, <2>2, <3>2 DEF UploadInv, ReplyInv, Clients
      <4>2. QED
        BY ZenonT(40), <1>2, <4>1
    <3>3. QED
      BY ZenonT(40), <3>1, <3>2
  <2>3. QED
    BY ZenonT(40), <2>1, <2>2 DEF ReplyInv
<1>7. RefusedInv'
  <2>1. SUFFICES ASSUME NEW u \in refused PROVE u.run \notin events'[NameOf(u.kind, u.run)]
    BY ZenonT(40) DEF RefusedInv
  <2>2. u \in Uploads /\ u.kind \in Kinds /\ u.run \in Runs /\ u = Upload(u.kind, u.run)
    BY ZenonT(40), <1>t DEF TypeOK, Uploads, Upload
  <2>3. NameOf(u.kind, u.run) \in Names /\ u.run \notin events[NameOf(u.kind, u.run)]
    BY ZenonT(40), <2>2, NameType DEF UploadInv, RefusedInv
  <2>4. u.run = q.run => NameOf(u.kind, u.run) # n
    BY ZenonT(40), <1>t, <2>2, NameInjective DEF Refused
  <2> HIDE DEF n
  <2>5. QED
    BY ZenonT(40), <1>2, <2>3, <2>4
<1>8. AcceptedIsKept'
  <2>1. SUFFICES ASSUME NEW p \in Runs, NEW k \in accepted[p] PROVE Kept(NameOf(k, p))'
    BY ZenonT(40) DEF AcceptedIsKept
  <2>2. k \in Kinds /\ NameOf(k, p) \in Names /\ Kept(NameOf(k, p))
    BY ZenonT(40), <1>t, NameType DEF TypeOK, UploadInv, AcceptedIsKept
  <2>3. QED
    BY ZenonT(40), <1>2, <2>2 DEF Kept
<1>9. OrderInv'
  BY ZenonT(40) DEF UploadInv, OrderInv
<1>10. QED
  BY ZenonT(40), <1>3, <1>4, <1>5, <1>6, <1>7, <1>8, <1>9 DEF UploadInv

\* putLogs up to the size check keeps the invariant.
LEMMA PutLogInv ==
  ASSUME UploadInv, NEW q \in requests, PutLog(q)
  PROVE  UploadInv'
<1> USE DEF choiceVars, jobVars, flusherVars, streamVars
<1> DEFINE stage == IF Refused(q) THEN "oversize" ELSE "stored"
           new == [q EXCEPT !.stage = stage]
<1>0. /\ UNCHANGED <<edge, refused, pc, doing, accepted, outbox, fpc, queue, reply, events, window, faults>>
      /\ objects' = [objects EXCEPT ![DeploymentOf[q.run]] = q.run]
      /\ requests' = (requests \ {q}) \cup {new} /\ q.kind = "logs"
  BY ZenonT(40) DEF PutLog
<1>t. TypeOK /\ q \in Requests /\ q.run \in Runs /\ objects \in [Deployments -> Runs \cup {NoRun}]
  BY ZenonT(40) DEF UploadInv, TypeOK, Requests
<1>1. stage \in {"stored", "oversize"} /\ (stage = "stored" => ~Refused(q))
  OBVIOUS
<1> HIDE DEF stage
<1>2. new \in Requests /\ new.from = q.from /\ new.kind = q.kind /\ new.run = q.run /\ new.stage = stage
  BY ZenonT(40), <1>1, <1>t DEF Requests
<1> HIDE DEF new
<1>3. objects' \in [Deployments -> Runs \cup {NoRun}]
  BY ZenonT(40), <1>0, <1>t
<1>4. requests' \subseteq Requests
  BY ZenonT(40), <1>0, <1>t, <1>2 DEF TypeOK
<1>5. TypeOK'
  BY ZenonT(40), <1>0, <1>t, <1>3, <1>4 DEF TypeOK
<1>6. CallInv'
  BY ZenonT(40), <1>0, <1>2 DEF UploadInv, CallInv
<1>7. RequestInv'
  <2>1. Refused(new) <=> Refused(q)
    BY ZenonT(40), <1>2 DEF Refused, Upload
  <2>2. \A p \in requests' : p.stage = "stored" => p.kind = "logs" /\ ~Refused(p)
    BY ZenonT(40), <1>0, <1>1, <1>2, <2>1 DEF UploadInv, RequestInv
  <2>3. \A p \in requests' : p.from = q.from /\ p.from \in Clients => p = new
    BY ZenonT(40), <1>0 DEF UploadInv, RequestInv
  <2>4. \A p, o \in requests' : p.from = o.from /\ p.from \in Clients => p = o
    BY ZenonT(40), <1>0, <1>2, <2>3 DEF UploadInv, RequestInv
  <2>5. QED
    BY ZenonT(40), <1>0, <2>2, <2>4 DEF RequestInv, Refused
<1>8. ReplyInv' /\ OrderInv'
  BY ZenonT(40), <1>0 DEF UploadInv, ReplyInv, OrderInv
<1>9. QED
  BY ZenonT(40), <1>0, <1>5, <1>6, <1>7, <1>8, StreamSame DEF UploadInv
\* Every step keeps the invariant.
LEMMA NextInv == UploadInv /\ [Next]_vars => UploadInv'
<1> SUFFICES ASSUME UploadInv, [Next]_vars PROVE UploadInv'
  BY ZenonT(40)
<1> USE DEF choiceVars, jobVars, flusherVars, streamVars
<1>t. TypeOK /\ objects \in [Deployments -> Runs \cup {NoRun}] /\ faults \in Nat
  BY ZenonT(40) DEF UploadInv, TypeOK
<1>1. ASSUME NEW r \in Runs, Job(r) \/ KillJob(r) PROVE UploadInv'
  BY ZenonT(40), <1>1, JobCallsInv, DirectReturnsInv, StoreInv, KillJobInv DEF Job
<1>2. ASSUME NEW f \in Flushers, Flusher(f) \/ RestartFlusher(f) PROVE UploadInv'
  BY ZenonT(40), <1>2, FlushTickInv, FlushNextInv, FlushReturnsInv, FlushRemoveInv, RestartFlusherInv DEF Flusher
<1>3. ASSUME NEW q \in requests, ServeResult(q) PROVE UploadInv'
  <2>1. CASE Refused(q)
    BY ZenonT(40), <1>3, <1>t, <2>1, RefuseInv DEF ServeResult
  <2>2. CASE ~Refused(q)
    BY ZenonT(40), <1>3, <2>2, AcceptInv DEF ServeResult
  <2>3. QED
    BY ZenonT(40), <2>1, <2>2
<1>4. ASSUME NEW q \in requests, DeleteLog(q) PROVE UploadInv'
  <2>1. objects' \in [Deployments -> Runs \cup {NoRun}]
    BY ZenonT(40), <1>4, <1>t DEF DeleteLog
  <2>2. faults' \in Nat
    <3>1. faults' = faults \/ Fault
      BY ZenonT(40), <1>4 DEF DeleteLog
    <3>2. QED
      BY ZenonT(40), <1>t, <3>1, FaultType
  <2>3. QED
    BY ZenonT(40), <1>4, <2>1, <2>2, RefuseInv DEF DeleteLog
<1>5. ASSUME NEW q \in requests, AnnounceLog(q) PROVE UploadInv'
  <2>1. ~Refused(q) /\ q.kind = "logs"
    BY ZenonT(40), <1>5 DEF AnnounceLog, UploadInv, RequestInv
  <2>2. QED
    BY ZenonT(40), <1>5, <2>1, AcceptInv DEF AnnounceLog
<1>6. ASSUME NEW q \in requests, BackendFails(q) PROVE UploadInv'
  BY ZenonT(40), <1>6, <1>t, FaultType, RefuseInv DEF BackendFails
<1>7. ASSUME NEW q \in requests, DropRequest(q) PROVE UploadInv'
  <2>1. /\ UNCHANGED <<edge, refused, pc, doing, accepted, outbox, fpc, queue, reply, objects, events, window, faults>>
        /\ requests' \subseteq requests
    BY ZenonT(40), <1>7 DEF DropRequest
  <2>2. TypeOK'
    BY ZenonT(40), <1>t, <2>1 DEF TypeOK
  <2>3. CallInv' /\ RequestInv'
    BY ZenonT(40), <2>1, CallsSame
  <2>4. ReplyInv' /\ OrderInv'
    BY ZenonT(40), <2>1 DEF UploadInv, ReplyInv, OrderInv
  <2>5. QED
    BY ZenonT(40), <2>1, <2>2, <2>3, <2>4, StreamSame DEF UploadInv
<1>8. ASSUME NEW n \in Names, ForgetEventID(n) PROVE UploadInv'
  <2>1. /\ UNCHANGED <<edge, refused, pc, doing, accepted, outbox, fpc, queue, reply, requests, objects, events, faults>>
        /\ window' \subseteq window
    BY ZenonT(40), <1>8 DEF ForgetEventID
  <2>2. TypeOK'
    BY ZenonT(40), <1>t, <2>1 DEF TypeOK
  <2>3. CallInv' /\ RequestInv'
    BY ZenonT(40), <2>1, CallsSame
  <2>4. ReplyInv' /\ OrderInv'
    BY ZenonT(40), <2>1 DEF UploadInv, ReplyInv, OrderInv
  <2>5. NamesInv' /\ RefusedInv' /\ AcceptedIsKept'
    BY ZenonT(40), <2>1 DEF UploadInv, NamesInv, RefusedInv, AcceptedIsKept, Kept
  <2>6. QED
    BY ZenonT(40), <2>2, <2>3, <2>4, <2>5 DEF UploadInv
<1>r. ASSUME NEW q \in requests, RefuseLog(q) PROVE UploadInv'
  BY ZenonT(40), <1>r, <1>t, RefuseInv DEF RefuseLog
<1>9. CASE UNCHANGED vars
  <2>1. UNCHANGED <<edge, refused, pc, doing, accepted, outbox, fpc, queue, reply, requests, objects, events, window, faults>>
    BY ZenonT(40), <1>9 DEF vars
  <2>2. TypeOK'
    BY ZenonT(40), <1>t, <2>1 DEF TypeOK
  <2>3. CallInv' /\ RequestInv'
    BY ZenonT(40), <2>1, CallsSame
  <2>4. ReplyInv' /\ OrderInv'
    BY ZenonT(40), <2>1 DEF UploadInv, ReplyInv, OrderInv
  <2>5. QED
    BY ZenonT(40), <2>1, <2>2, <2>3, <2>4, StreamSame DEF UploadInv
<1>10. QED
  BY ZenonT(40), <1>1, <1>2, <1>3, <1>4, <1>5, <1>6, <1>7, <1>8, <1>r, <1>9, GiveUpInv, PutLogInv DEF Next, Serve

-----------------------------------------------------------------------------
(* Theorems *)

\* The invariant holds throughout.
LEMMA InvHolds == Spec => []UploadInv
  BY InitInv, NextInv, PTL DEF Spec

\* Every variable keeps to its type, whatever Jobs, flushers and the gateway do.
THEOREM UploadTypeCorrect == Spec => []TypeOK
<1>1. UploadInv => TypeOK
  BY ZenonT(40) DEF UploadInv
<1>2. QED
  BY <1>1, InvHolds, PTL

\* An upload that PostResults or PutLogs reported as done is in the stream or
\* in the outbox, or one of another run of its deployment is, for any number of
\* runs and flushers sharing the directory and any number of faults.
THEOREM UploadsKept == Spec => []AcceptedIsKept
<1>1. UploadInv => AcceptedIsKept
  BY ZenonT(40) DEF UploadInv
<1>2. QED
  BY <1>1, InvHolds, PTL

\* An upload that the gateway refuses is never published, and its file leaves
\* the outbox only for another run's.
THEOREM RefusedNeverPublished == Spec => []RefusedStaysOut
<1>1. UploadInv => RefusedStaysOut
  <2> SUFFICES ASSUME UploadInv, NEW u \in refused
                 PROVE  LET n == NameOf(u.kind, u.run) IN
                        /\ u.run \notin events[n]
                        /\ u.kind \in accepted[u.run] /\ outbox[n] # u.run =>
                             \E p \in RunsOf(n[2]) \ {u.run} : p \in events[n] \/ outbox[n] = p
    BY ZenonT(40) DEF RefusedStaysOut
  <2>2. u.kind \in Kinds /\ u.run \in Runs
    BY ZenonT(40) DEF UploadInv, TypeOK, Uploads
  <2>3. u.run \notin events[NameOf(u.kind, u.run)]
    BY ZenonT(40) DEF UploadInv, RefusedInv
  <2>4. u.kind \in accepted[u.run] => Kept(NameOf(u.kind, u.run))
    BY ZenonT(40), <2>2 DEF UploadInv, AcceptedIsKept
  <2>5. QED
    BY ZenonT(40), <2>3, <2>4 DEF Kept
<1>2. QED
  BY <1>1, InvHolds, PTL
-----------------------------------------------------------------------------
(* Refinement *)

\* Nothing has come in and nobody was told anything at the beginning.
LEMMA InitDelivers == Init => Delivery!Init
<1> SUFFICES ASSUME Init PROVE Delivery!Init
  OBVIOUS
<1>1. \A n \in Names : Progress(n) = "open"
  BY ZenonT(40) DEF Init, Progress
<1>2. Told = {}
  BY ZenonT(40) DEF Init, Told, RunsOf
<1>3. QED
  BY ZenonT(40), <1>1, <1>2 DEF Delivery!Init

\* A step that moves at most one name, forward, and tells at most of that name
\* and only when it waits or has arrived, is a step of ResultDelivery.
LEMMA OneName ==
  ASSUME NEW n \in Names,
         \A m \in Names : m # n => Progress(m)' = Progress(m),
         Told' = Told \/ (Told' = Told \cup {n} /\ Progress(n)' # "open"),
         \/ Progress(n)' = Progress(n)
         \/ Progress(n) = "open" /\ Progress(n)' = "waiting"
         \/ Progress(n) # "arrived" /\ Progress(n)' = "arrived" /\ Told' = Told
  PROVE  Delivery!Next \/ UNCHANGED Delivery!vars
<1> DEFINE st == [m \in Names |-> Progress(m)]
<1>1. st' = [m \in Names |-> Progress(m)']
  OBVIOUS
<1>2. CASE Progress(n)' = Progress(n)
  <2>1. st' = st
    BY ZenonT(40), <1>1, <1>2
  <2>2. CASE Told' = Told
    BY ZenonT(40), <2>1, <2>2 DEF Delivery!vars
  <2>3. CASE Told' = Told \cup {n} /\ Progress(n)' # "open"
    <3>1. Delivery!Promise(n)
      BY ZenonT(40), <1>2, <2>1, <2>3 DEF Delivery!Promise
    <3>2. QED
      BY ZenonT(40), <3>1 DEF Delivery!Next
  <2>4. QED
    BY ZenonT(40), <2>2, <2>3
<1>3. CASE Progress(n) = "open" /\ Progress(n)' = "waiting"
  <2>1. st' = [st EXCEPT ![n] = "waiting"] /\ st[n] = "open"
    BY ZenonT(40), <1>1, <1>3
  <2>2. Delivery!Wait(n)
    BY ZenonT(40), <2>1 DEF Delivery!Wait
  <2>3. QED
    BY ZenonT(40), <2>2 DEF Delivery!Next
<1>4. CASE Progress(n) # "arrived" /\ Progress(n)' = "arrived" /\ Told' = Told
  <2>1. st' = [st EXCEPT ![n] = "arrived"] /\ st[n] # "arrived"
    BY ZenonT(40), <1>1, <1>4
  <2>2. Delivery!Arrive(n)
    BY ZenonT(40), <1>4, <2>1 DEF Delivery!Arrive
  <2>3. QED
    BY ZenonT(40), <2>2 DEF Delivery!Next
<1>5. QED
  BY ZenonT(40), <1>2, <1>3, <1>4

\* What an accepted upload adds to the names that were told.
LEMMA ToldGrows ==
  ASSUME NEW r \in Runs, NEW k \in Kinds, NEW ok \in BOOLEAN,
         \A p \in Runs : accepted'[p] = IF p = r /\ ok THEN accepted[p] \cup {k} ELSE accepted[p]
  PROVE  Told' = IF ok THEN Told \cup {NameOf(k, r)} ELSE Told
<1>1. Told' = {n \in Names : \E p \in RunsOf(n[2]) : n[1] \in accepted'[p]}
  BY ZenonT(40) DEF Told
<1>2. \A n \in Names : \A p \in RunsOf(n[2]) : p \in Runs
  BY ZenonT(40) DEF RunsOf
<1>3. CASE ~ok
  BY ZenonT(40), <1>1, <1>2, <1>3 DEF Told
<1>4. CASE ok
  <2>1. NameOf(k, r) \in Names /\ NameOf(k, r)[1] = k /\ r \in RunsOf(NameOf(k, r)[2])
    BY ZenonT(40), NameType
  <2>2. \A n \in Names : r \in RunsOf(n[2]) /\ n[1] = k => n = NameOf(k, r)
    BY SMTT(40) DEF Names, RunsOf, NameOf
  <2>3. \A n \in Names : n \in Told' <=> n \in Told \/ n = NameOf(k, r)
    BY ZenonT(40), <1>1, <1>2, <1>4, <2>1, <2>2 DEF Told
  <2>4. QED
    BY ZenonT(40), <1>1, <1>4, <2>1, <2>3 DEF Told
<1>5. QED
  BY ZenonT(40), <1>3, <1>4
\* A step that changes neither stream nor outbox nor accepted uploads stutters.
LEMMA NothingMoves ==
  ASSUME UNCHANGED <<accepted, outbox, events>>
  PROVE  UNCHANGED Delivery!vars
<1>1. Told' = Told /\ \A n \in Names : Progress(n)' = Progress(n)
  BY ZenonT(40) DEF Told, Progress
<1>2. QED
  BY ZenonT(40), <1>1 DEF Delivery!vars

\* A name arrives when the gateway publishes under it for the first time.
LEMMA PublishDelivers ==
  ASSUME UploadInv, NEW q \in requests, Publish(NameOf(q.kind, q.run), q.run), UNCHANGED <<accepted, outbox>>
  PROVE  Delivery!Next \/ UNCHANGED Delivery!vars
<1> DEFINE n == NameOf(q.kind, q.run)
<1>1. TypeOK /\ NamesInv /\ n \in Names /\ q.run \in RunsOf(n[2])
  BY ZenonT(40), NameType DEF UploadInv, TypeOK, Requests
<1>2. /\ events'[n] # {}
      /\ \A m \in Names : events'[m] = events[m] \/ (m = n /\ events'[m] = events[m] \cup {q.run})
  BY ZenonT(40), <1>1, PublishEffect
<1>3. Told' = Told
  BY ZenonT(40) DEF Told
<1> HIDE DEF n
<1>4. \A m \in Names : m # n => Progress(m)' = Progress(m)
  BY ZenonT(40), <1>2 DEF Progress
<1>5. Progress(n)' = "arrived"
  BY ZenonT(40), <1>2 DEF Progress
<1>6. QED
  BY ZenonT(40), <1>1, <1>3, <1>4, <1>5, OneName

\* A direct call that returns tells the Job of a name that has arrived.
LEMMA DirectReturnsDelivers ==
  ASSUME UploadInv, NEW r \in Runs, DirectReturns(r)
  PROVE  Delivery!Next \/ UNCHANGED Delivery!vars
<1>0. UNCHANGED <<outbox, events>> /\ pc[r] = "posting"
  BY ZenonT(40) DEF DirectReturns, streamVars
<1>t. TypeOK /\ doing[r] \in Kinds
  BY ZenonT(40) DEF UploadInv, TypeOK
<1>n. PICK n \in Names : n = NameOf(doing[r], r)
  BY ZenonT(40), <1>t, NameType
<1>1. CASE accepted' = accepted
  BY ZenonT(40), <1>0, <1>1, NothingMoves
<1>2. CASE Finish(r, reply[r] = "ok")
  <2>1. PICK ok \in BOOLEAN : (ok <=> reply[r] = "ok") /\ Finish(r, ok)
    BY ZenonT(40), <1>2
  <2>a. \A p \in Runs : accepted'[p] = IF p = r /\ ok THEN accepted[p] \cup {doing[p]} ELSE accepted[p]
    BY ZenonT(40), <1>t, <2>1, FinishEffect
  <2>b. \A p \in Runs : accepted'[p] = IF p = r /\ ok THEN accepted[p] \cup {doing[r]} ELSE accepted[p]
    BY ZenonT(40), <2>a
  <2>2. Told' = IF ok THEN Told \cup {n} ELSE Told
    BY ZenonT(40), <1>n, <1>t, <2>b, ToldGrows
  <2>3. ok => Progress(n)' # "open"
    BY ZenonT(40), <1>0, <1>n, <2>1 DEF UploadInv, ReplyInv, Progress
  <2>4. \A m \in Names : Progress(m)' = Progress(m)
    BY ZenonT(40), <1>0 DEF Progress
  <2>5. QED
    BY ZenonT(40), <2>2, <2>3, <2>4, OneName
<1>3. QED
  BY ZenonT(40), <1>1, <1>2 DEF DirectReturns

\* A stored file waits, or replaces one that waits, or follows an arrival.
LEMMA StoreDelivers ==
  ASSUME UploadInv, NEW r \in Runs, Store(r)
  PROVE  Delivery!Next \/ UNCHANGED Delivery!vars
<1>0. events' = events
  BY ZenonT(40) DEF Store, streamVars
<1>t. TypeOK /\ doing[r] \in Kinds /\ outbox \in [Names -> Runs \cup {NoRun}] /\ r # NoRun
  BY ZenonT(40), UploadAssumption DEF UploadInv, TypeOK
<1>n. PICK n \in Names : n = NameOf(doing[r], r)
  BY ZenonT(40), <1>t, NameType
<1> DEFINE renamed == [outbox EXCEPT ![n] = r]
<1>1. PICK ok \in BOOLEAN : Finish(r, ok) /\ outbox' \in {outbox, renamed} /\ (ok => outbox' = renamed)
  BY ZenonT(40), <1>n DEF Store
<1>a. \A p \in Runs : accepted'[p] = IF p = r /\ ok THEN accepted[p] \cup {doing[p]} ELSE accepted[p]
  BY ZenonT(40), <1>1, <1>t, FinishEffect
<1>2. \A p \in Runs : accepted'[p] = IF p = r /\ ok THEN accepted[p] \cup {doing[r]} ELSE accepted[p]
  BY ZenonT(40), <1>a
<1>3. Told' = IF ok THEN Told \cup {n} ELSE Told
  BY ZenonT(40), <1>n, <1>t, <1>2, ToldGrows
<1>4. /\ \A m \in Names : m # n => outbox'[m] = outbox[m]
      /\ outbox'[n] = r \/ outbox'[n] = outbox[n]
      /\ ok => outbox'[n] = r
  BY ZenonT(40), <1>1, <1>n, <1>t
<1>5. \A m \in Names : m # n => Progress(m)' = Progress(m)
  BY ZenonT(40), <1>0, <1>4 DEF Progress
<1>6. /\ ok => Progress(n)' # "open"
      /\ \/ Progress(n)' = Progress(n)
         \/ Progress(n) = "open" /\ Progress(n)' = "waiting"
  BY ZenonT(40), <1>0, <1>t, <1>4 DEF Progress
<1>7. QED
  BY ZenonT(40), <1>n, <1>3, <1>5, <1>6, OneName

\* A file is removed only after its name has arrived, and arrived it stays.
LEMMA FlushRemoveDelivers ==
  ASSUME UploadInv, NEW f \in Flushers, FlushRemove(f)
  PROVE  UNCHANGED Delivery!vars
<1> DEFINE n == First(queue[f])
<1>1. UNCHANGED <<accepted, events>> /\ outbox' = [outbox EXCEPT ![n] = NoRun] /\ fpc[f] = "removing"
  BY ZenonT(40) DEF FlushRemove, jobVars, streamVars
<1>2. events[n] # {} /\ outbox \in [Names -> Runs \cup {NoRun}]
  BY ZenonT(40), <1>1 DEF UploadInv, ReplyInv, TypeOK
<1> HIDE DEF n
<1>3. \A m \in Names : outbox'[m] = outbox[m] \/ events[m] # {}
  BY ZenonT(40), <1>1, <1>2
<1>4. Told' = Told /\ \A m \in Names : Progress(m)' = Progress(m)
  BY ZenonT(40), <1>1, <1>3 DEF Told, Progress
<1>5. QED
  BY ZenonT(40), <1>4 DEF Delivery!vars

\* Every step is a step of ResultDelivery or leaves its state alone.
LEMMA NextDelivers == UploadInv /\ [Next]_vars => [Delivery!Next]_(Delivery!vars)
<1> SUFFICES ASSUME UploadInv, [Next]_vars PROVE Delivery!Next \/ UNCHANGED Delivery!vars
  OBVIOUS
<1> USE DEF choiceVars, jobVars, flusherVars, streamVars
<1> DEFINE Goal == Delivery!Next \/ UNCHANGED Delivery!vars
<1>1. ASSUME NEW r \in Runs, Job(r) \/ KillJob(r) PROVE Goal
  <2>1. CASE PutLogs(r) \/ KillJob(r)
    BY ZenonT(40), <2>1, NothingMoves DEF PutLogs, KillJob
  <2>2. CASE PostResults(r)
    <3>1. accepted' = accepted
      <4>1. CASE Finish(r, FALSE)
        BY ZenonT(40), <4>1, FinishEffect DEF UploadInv
      <4>2. QED
        BY ZenonT(40), <2>2, <4>1 DEF PostResults
    <3>2. QED
      BY ZenonT(40), <2>2, <3>1, NothingMoves DEF PostResults
  <2>3. QED
    BY ZenonT(40), <1>1, <2>1, <2>2, DirectReturnsDelivers, StoreDelivers DEF Job
<1>2. ASSUME NEW f \in Flushers, Flusher(f) \/ RestartFlusher(f) PROVE Goal
  <2>1. CASE FlushTick(f) \/ FlushNext(f) \/ FlushReturns(f) \/ RestartFlusher(f)
    BY ZenonT(40), <2>1, NothingMoves DEF FlushTick, FlushNext, FlushReturns, RestartFlusher
  <2>2. QED
    BY ZenonT(40), <1>2, <2>1, FlushRemoveDelivers DEF Flusher
<1>3. ASSUME NEW q \in requests, Serve(q) PROVE Goal
  <2>1. CASE ServeResult(q)
    <3>1. CASE Refused(q)
      BY ZenonT(40), <2>1, <3>1, NothingMoves DEF ServeResult
    <3>2. CASE ~Refused(q)
      BY ZenonT(40), <2>1, <3>2, PublishDelivers DEF ServeResult
    <3>3. QED
      BY ZenonT(40), <3>1, <3>2
  <2>2. CASE RefuseLog(q) \/ PutLog(q) \/ DeleteLog(q)
    BY ZenonT(40), <2>2, NothingMoves DEF RefuseLog, PutLog, DeleteLog
  <2>3. CASE AnnounceLog(q)
    <3>1. q.kind = "logs"
      BY ZenonT(40), <2>3 DEF AnnounceLog, UploadInv, RequestInv
    <3>2. QED
      BY ZenonT(40), <2>3, <3>1, PublishDelivers DEF AnnounceLog
  <2>4. QED
    BY ZenonT(40), <1>3, <2>1, <2>2, <2>3 DEF Serve
<1>4. CASE \/ \E c \in Clients : GiveUp(c)
           \/ \E q \in requests : BackendFails(q) \/ DropRequest(q)
           \/ \E n \in Names : ForgetEventID(n)
           \/ UNCHANGED vars
  BY ZenonT(40), <1>4, NothingMoves DEF GiveUp, BackendFails, DropRequest, ForgetEventID, vars
<1>5. QED
  BY ZenonT(40), <1>1, <1>2, <1>3, <1>4 DEF Next

\* The gateway client, the outbox, its flushers and the gateway together
\* implement ResultDelivery: an upload never falls back, and a Job is told that
\* it is done only when it waits in the outbox or is in the stream.
THEOREM DeliveryRefined == Spec => ImplementsDelivery
  BY InitDelivers, NextDelivers, InvHolds, PTL DEF Spec, ImplementsDelivery, Delivery!Spec

-----------------------------------------------------------------------------
(* The log object of a deployment *)

LogName(d) == <<"logs", d>>

Uploading(d) == {r \in RunsOf(d) : doing[r] = "logs"}

\* Runs whose log has been stored and not yet been announced.
StoredRuns(d) == {r \in RunsOf(d) : \E q \in requests : q.stage = "stored" /\ q.run = r}

\* A log anywhere comes from a run that uploads its logs.
LogSources ==
  /\ \A q \in requests : q.kind = "logs" => doing[q.run] = "logs"
  /\ \A q \in requests : q.stage = "oversize" => q.kind = "logs" /\ Refused(q)
  /\ \A d \in Deployments :
       /\ outbox[LogName(d)] # NoRun => doing[outbox[LogName(d)]] = "logs"
       /\ events[LogName(d)] \subseteq Uploading(d)
       /\ objects[d] \in Uploading(d) \cup {NoRun}

\* As long as one run alone uploads, what is announced or about to be is there.
LogAlone ==
  \A d \in Deployments :
    (\A r, p \in Uploading(d) : r = p) => events[LogName(d)] \cup StoredRuns(d) \subseteq {objects[d]}

\* An object that should be there and is not was deleted as oversized.
LogGone ==
  \A d \in Deployments :
    objects[d] = NoRun /\ events[LogName(d)] \cup StoredRuns(d) # {}
      => \E r \in Uploading(d) : Upload("logs", r) \in refused

LogInv == LogSources /\ LogAlone /\ LogGone

\* The name of a deployment's logs.
LEMMA LogNameType ==
  ASSUME NEW d \in Deployments
  PROVE  LogName(d) \in Names
  BY ZenonT(40) DEF LogName, Names, Kinds

\* A name of kind logs is the one of its deployment.
LEMMA LogNameOf ==
  ASSUME NEW k \in Kinds, NEW r \in Runs, NEW d \in Deployments, NameOf(k, r) = LogName(d)
  PROVE  k = "logs" /\ DeploymentOf[r] = d
  BY ZenonT(40) DEF NameOf, LogName

\* Two members make a finite set larger than one.
LEMMA TwoMembers ==
  ASSUME NEW S, IsFiniteSet(S), NEW a \in S, NEW b \in S, a # b
  PROVE  Cardinality(S) > 1
<1>1. IsFiniteSet({}) /\ Cardinality({}) = 0
  BY ZenonT(40), FS_EmptySet
<1>2. IsFiniteSet({} \cup {a}) /\ Cardinality({} \cup {a}) = 1
  BY SMTT(40), <1>1, FS_AddElement
<1>3. {} \cup {a} = {a} /\ b \notin {a}
  OBVIOUS
<1>4. IsFiniteSet({a} \cup {b}) /\ Cardinality({a} \cup {b}) = 2
  BY SMTT(40), <1>2, <1>3, FS_AddElement
<1>5. {a} \cup {b} \in SUBSET S
  OBVIOUS
<1>6. Cardinality({a} \cup {b}) <= Cardinality(S) /\ Cardinality(S) \in Nat
  BY ZenonT(40), <1>5, FS_Subset, FS_CardinalityType
<1>7. QED
  BY SMTT(40), <1>4, <1>6

\* The invariant gives the property.
LEMMA LogInvImpliesIntact == TypeOK /\ LogInv => AnnouncedLogIntact
<1> SUFFICES ASSUME TypeOK, LogInv, NEW d \in Deployments
             PROVE  /\ events[LogName(d)] \subseteq {objects[d]} \/ Cardinality(Uploading(d)) > 1
                    /\ events[LogName(d)] # {} /\ objects[d] = NoRun
                         => \E r \in Uploading(d) : Upload("logs", r) \in refused
  BY ZenonT(40) DEF AnnouncedLogIntact, LogName, Uploading
<1>1. events[LogName(d)] \subseteq {objects[d]} \/ Cardinality(Uploading(d)) > 1
  <2>1. CASE \A r, p \in Uploading(d) : r = p
    BY ZenonT(40), <2>1 DEF LogInv, LogAlone
  <2>2. CASE \E r, p \in Uploading(d) : r # p
    <3>1. IsFiniteSet(Runs) /\ Uploading(d) \in SUBSET Runs
      BY ZenonT(40), UploadAssumption DEF Uploading, RunsOf
    <3>2. IsFiniteSet(Uploading(d))
      BY ZenonT(40), <3>1, FS_Subset
    <3>3. QED
      BY ZenonT(40), <2>2, <3>2, TwoMembers
  <2>3. QED
    BY ZenonT(40), <2>1, <2>2
<1>2. events[LogName(d)] # {} /\ objects[d] = NoRun
        => \E r \in Uploading(d) : Upload("logs", r) \in refused
  BY ZenonT(40) DEF LogInv, LogGone
<1>3. QED
  BY ZenonT(40), <1>1, <1>2

\* Steps that store, delete and announce no log keep the invariant: a new request
\* or a new file of kind logs comes from a run that uploads its logs.
LEMMA LogSame ==
  ASSUME LogInv, UNCHANGED <<refused, objects>>,
         \A r \in Runs : doing[r] = "logs" => doing'[r] = "logs",
         requests \subseteq Requests,
         \A q \in requests' :
           \/ \E p \in requests : q.kind = p.kind /\ q.run = p.run /\ q.stage = p.stage
           \/ q.stage = "received" /\ (q.kind = "logs" => doing'[q.run] = "logs"),
         outbox \in [Names -> Runs \cup {NoRun}],
         \A d \in Deployments :
           /\ events'[LogName(d)] = events[LogName(d)]
           /\ \/ outbox'[LogName(d)] \in {outbox[LogName(d)], NoRun}
              \/ doing'[outbox'[LogName(d)]] = "logs"
  PROVE  LogInv'
<1>1. \A d \in Deployments : Uploading(d) \subseteq Uploading(d)'
  BY ZenonT(40) DEF Uploading, RunsOf
<1>2. \A d \in Deployments : StoredRuns(d)' \subseteq StoredRuns(d)
  BY SMTT(40) DEF StoredRuns, RunsOf
<1>3. LogSources'
  <2>1. ASSUME NEW q \in requests'
        PROVE  /\ q.kind = "logs" => doing'[q.run] = "logs"
               /\ q.stage = "oversize" => q.kind = "logs" /\ Refused(q)'
    <3>1. CASE q.stage = "received" /\ (q.kind = "logs" => doing'[q.run] = "logs")
      BY ZenonT(40), <3>1
    <3>2. CASE \E p \in requests : q.kind = p.kind /\ q.run = p.run /\ q.stage = p.stage
      <4>1. PICK p \in requests : q.kind = p.kind /\ q.run = p.run /\ q.stage = p.stage
        BY ZenonT(40), <3>2
      <4>2. p.run \in Runs
        BY ZenonT(40) DEF Requests
      <4>3. Refused(p) <=> Refused(q)'
        BY ZenonT(40), <4>1 DEF Refused
      <4>4. QED
        BY ZenonT(40), <4>1, <4>2, <4>3 DEF LogInv, LogSources
    <3>3. QED
      BY ZenonT(40), <3>1, <3>2
  <2>2. ASSUME NEW d \in Deployments
        PROVE  /\ outbox'[LogName(d)] # NoRun => doing'[outbox'[LogName(d)]] = "logs"
               /\ events'[LogName(d)] \subseteq Uploading(d)'
               /\ objects'[d] \in Uploading(d)' \cup {NoRun}
    <3>1. outbox[LogName(d)] \in Runs \cup {NoRun}
      BY ZenonT(40), LogNameType
    <3>2. outbox'[LogName(d)] # NoRun => doing'[outbox'[LogName(d)]] = "logs"
      BY ZenonT(40), <3>1 DEF LogInv, LogSources
    <3>3. events'[LogName(d)] \subseteq Uploading(d)' /\ objects'[d] \in Uploading(d)' \cup {NoRun}
      BY ZenonT(40), <1>1 DEF LogInv, LogSources
    <3>4. QED
      BY ZenonT(40), <3>2, <3>3
  <2>3. QED
    BY ZenonT(40), <2>1, <2>2 DEF LogSources, LogName
<1>4. LogAlone'
  <2> SUFFICES ASSUME NEW d \in Deployments, \A r, p \in Uploading(d)' : r = p
               PROVE  events'[LogName(d)] \cup StoredRuns(d)' \subseteq {objects'[d]}
    BY ZenonT(40) DEF LogAlone, LogName
  <2>1. \A r, p \in Uploading(d) : r = p
    BY ZenonT(40), <1>1
  <2>2. events[LogName(d)] \cup StoredRuns(d) \subseteq {objects[d]}
    BY ZenonT(40), <2>1 DEF LogInv, LogAlone
  <2>3. QED
    BY ZenonT(40), <1>2, <2>2
<1>5. LogGone'
  <2> SUFFICES ASSUME NEW d \in Deployments, objects'[d] = NoRun,
                      events'[LogName(d)] \cup StoredRuns(d)' # {}
               PROVE  \E r \in Uploading(d)' : Upload("logs", r) \in refused'
    BY ZenonT(40) DEF LogGone, LogName, Upload
  <2>1. \E r \in Uploading(d) : Upload("logs", r) \in refused
    BY ZenonT(40), <1>2 DEF LogInv, LogGone
  <2>2. QED
    BY ZenonT(40), <1>1, <2>1
<1>6. QED
  BY ZenonT(40), <1>3, <1>4, <1>5 DEF LogInv

\* A stored log is the object of its deployment, until the next one is stored.
LEMMA PutLogKeepsLog ==
  ASSUME UploadInv, LogInv, NEW q \in requests, PutLog(q)
  PROVE  LogInv'
<1> DEFINE d0 == DeploymentOf[q.run]
           new == [q EXCEPT !.stage = IF Refused(q) THEN "oversize" ELSE "stored"]
<1>0. /\ q \in Requests /\ q.run \in Runs /\ d0 \in Deployments /\ q.kind = "logs"
      /\ objects \in [Deployments -> Runs \cup {NoRun}]
      /\ objects' = [objects EXCEPT ![d0] = q.run]
      /\ requests' = (requests \ {q}) \cup {new}
      /\ UNCHANGED <<refused, doing, outbox, events>>
  BY ZenonT(40), UploadAssumption DEF PutLog, UploadInv, TypeOK, Requests, choiceVars, jobVars, streamVars
<1>1. /\ new.kind = q.kind /\ new.run = q.run /\ new.stage \in {"oversize", "stored"}
      /\ new.stage = "oversize" => Refused(q)
      /\ new.stage = "stored" => ~Refused(q)
  BY ZenonT(40), <1>0 DEF Requests
<1> HIDE DEF new
<1>2. q.run \in Uploading(d0)
  BY ZenonT(40), <1>0 DEF LogInv, LogSources, Uploading, RunsOf
<1>3. \A d \in Deployments : Uploading(d)' = Uploading(d)
  BY ZenonT(40), <1>0 DEF Uploading, RunsOf
<1>4. objects'[d0] = q.run /\ \A d \in Deployments : d # d0 => objects'[d] = objects[d]
  BY ZenonT(40), <1>0
<1>5. \A d \in Deployments : StoredRuns(d)' \subseteq StoredRuns(d) \cup (IF d = d0 THEN {q.run} ELSE {})
  BY ZenonT(40), <1>0, <1>1 DEF StoredRuns, RunsOf
<1>6. \A d \in Deployments : StoredRuns(d) \subseteq Uploading(d)
  <2>1. \A p \in requests : p.stage = "stored" => p.kind = "logs"
    BY ZenonT(40) DEF UploadInv, RequestInv
  <2>2. QED
    BY ZenonT(40), <2>1 DEF StoredRuns, Uploading, LogInv, LogSources
<1>7. LogSources'
  <2>1. ASSUME NEW p \in requests'
        PROVE  /\ p.kind = "logs" => doing'[p.run] = "logs"
               /\ p.stage = "oversize" => p.kind = "logs" /\ Refused(p)'
    <3>1. Refused(p)' <=> Refused(p)
      BY ZenonT(40), <1>0 DEF Refused
    <3>2. CASE p \in requests
      BY ZenonT(40), <1>0, <3>1, <3>2 DEF LogInv, LogSources
    <3>3. CASE p = new
      <4>1. Refused(p) <=> Refused(q)
        BY ZenonT(40), <1>1, <3>3 DEF Refused
      <4>2. QED
        BY ZenonT(40), <1>0, <1>1, <3>1, <3>3, <4>1 DEF LogInv, LogSources
    <3>4. QED
      BY ZenonT(40), <1>0, <3>2, <3>3
  <2>2. ASSUME NEW d \in Deployments
        PROVE  /\ outbox'[LogName(d)] # NoRun => doing'[outbox'[LogName(d)]] = "logs"
               /\ events'[LogName(d)] \subseteq Uploading(d)'
               /\ objects'[d] \in Uploading(d)' \cup {NoRun}
    BY SMTT(40), <1>0, <1>2, <1>3, <1>4 DEF LogInv, LogSources
  <2>3. QED
    BY ZenonT(40), <2>1, <2>2 DEF LogSources, LogName
<1>8. LogAlone'
  <2> SUFFICES ASSUME NEW d \in Deployments, \A r, p \in Uploading(d)' : r = p
               PROVE  events'[LogName(d)] \cup StoredRuns(d)' \subseteq {objects'[d]}
    BY ZenonT(40) DEF LogAlone, LogName
  <2>1. CASE d = d0
    <3>1. Uploading(d) \subseteq {q.run}
      BY ZenonT(40), <1>2, <1>3, <2>1
    <3>2. events[LogName(d)] \subseteq Uploading(d)
      BY ZenonT(40) DEF LogInv, LogSources
    <3>3. QED
      BY ZenonT(40), <1>0, <1>4, <1>5, <1>6, <2>1, <3>1, <3>2
  <2>2. CASE d # d0
    <3>1. events[LogName(d)] \cup StoredRuns(d) \subseteq {objects[d]}
      BY SMTT(40), <1>3 DEF LogInv, LogAlone
    <3>2. QED
      BY ZenonT(40), <1>0, <1>4, <1>5, <2>2, <3>1
  <2>3. QED
    BY ZenonT(40), <2>1, <2>2
<1>9. LogGone'
  <2> SUFFICES ASSUME NEW d \in Deployments, objects'[d] = NoRun,
                      events'[LogName(d)] \cup StoredRuns(d)' # {}
               PROVE  \E r \in Uploading(d)' : Upload("logs", r) \in refused'
    BY ZenonT(40) DEF LogGone, LogName, Upload
  <2>1. d # d0
    BY ZenonT(40), <1>0, <1>4, UploadAssumption
  <2>2. \E r \in Uploading(d) : Upload("logs", r) \in refused
    BY ZenonT(40), <1>0, <1>4, <1>5, <2>1 DEF LogInv, LogGone
  <2>3. QED
    BY ZenonT(40), <1>0, <1>3, <2>2
<1>10. QED
  BY ZenonT(40), <1>7, <1>8, <1>9 DEF LogInv

\* The deletion of an oversized log takes at most that run's own announcement
\* with it, and that run has none.
LEMMA DeleteLogKeepsLog ==
  ASSUME UploadInv, LogInv, NEW q \in requests, DeleteLog(q)
  PROVE  LogInv'
<1> DEFINE d0 == DeploymentOf[q.run]
<1>0. /\ q \in Requests /\ q.run \in Runs /\ d0 \in Deployments /\ q.stage = "oversize"
      /\ q.kind = "logs" /\ Refused(q) /\ doing[q.run] = "logs"
      /\ objects \in [Deployments -> Runs \cup {NoRun}]
      /\ requests' \subseteq requests
      /\ UNCHANGED <<refused, doing, outbox, events>>
  BY ZenonT(40), UploadAssumption DEF DeleteLog, Answer, UploadInv, TypeOK, Requests, LogInv, LogSources,
                          choiceVars, jobVars, streamVars
<1>1. CASE UNCHANGED objects
  <2>1. requests \subseteq Requests /\ outbox \in [Names -> Runs \cup {NoRun}]
    BY ZenonT(40) DEF UploadInv, TypeOK
  <2>2. QED
    BY ZenonT(40), <1>0, <1>1, <2>1, LogSame
<1>2. CASE objects' = [objects EXCEPT ![d0] = NoRun]
  <2>1. q.run \in Uploading(d0) /\ Upload("logs", q.run) \in refused
    BY ZenonT(40), <1>0 DEF Uploading, RunsOf, Refused
  <2>2. \A d \in Deployments : Uploading(d)' = Uploading(d) /\ StoredRuns(d)' \subseteq StoredRuns(d)
    BY ZenonT(40), <1>0 DEF Uploading, StoredRuns, RunsOf
  <2>3. objects'[d0] = NoRun /\ \A d \in Deployments : d # d0 => objects'[d] = objects[d]
    BY ZenonT(40), <1>0, <1>2
  <2>4. LogSources'
    <3>1. ASSUME NEW p \in requests'
          PROVE  /\ p.kind = "logs" => doing'[p.run] = "logs"
                 /\ p.stage = "oversize" => p.kind = "logs" /\ Refused(p)'
      BY ZenonT(40), <1>0 DEF LogInv, LogSources, Refused
    <3>2. ASSUME NEW d \in Deployments
          PROVE  /\ outbox'[LogName(d)] # NoRun => doing'[outbox'[LogName(d)]] = "logs"
                 /\ events'[LogName(d)] \subseteq Uploading(d)'
                 /\ objects'[d] \in Uploading(d)' \cup {NoRun}
      BY ZenonT(40), <1>0, <2>2, <2>3 DEF LogInv, LogSources
    <3>3. QED
      BY ZenonT(40), <3>1, <3>2 DEF LogSources, LogName
  <2>5. LogAlone'
    <3> SUFFICES ASSUME NEW d \in Deployments, \A r, p \in Uploading(d)' : r = p
                 PROVE  events'[LogName(d)] \cup StoredRuns(d)' \subseteq {objects'[d]}
      BY ZenonT(40) DEF LogAlone, LogName
    <3>1. CASE d = d0
      <4>1. Uploading(d) \subseteq {q.run}
        BY ZenonT(40), <2>1, <2>2, <3>1
      <4>2. events[LogName(d)] = {}
        <5>1. NameOf("logs", q.run) = LogName(d)
          BY ZenonT(40), <3>1 DEF NameOf, LogName
        <5>2. q.run \notin events[LogName(d)]
          BY ZenonT(40), <2>1, <5>1 DEF UploadInv, RefusedInv, Upload
        <5>3. events[LogName(d)] \subseteq Uploading(d)
          BY ZenonT(40) DEF LogInv, LogSources
        <5>4. QED
          BY ZenonT(40), <4>1, <5>2, <5>3
      <4>3. StoredRuns(d) = {}
        <5>1. ASSUME NEW p \in requests, p.stage = "stored", p.run \in RunsOf(d) PROVE FALSE
          <6>1. p.kind = "logs" /\ ~Refused(p)
            BY ZenonT(40), <5>1 DEF UploadInv, RequestInv
          <6>2. p.run \in Uploading(d)
            BY ZenonT(40), <5>1, <6>1 DEF LogInv, LogSources, Uploading
          <6>3. p.run = q.run
            BY ZenonT(40), <4>1, <6>2
          <6>4. QED
            BY ZenonT(40), <1>0, <6>1, <6>3 DEF Refused
        <5>2. QED
          BY ZenonT(40), <5>1 DEF StoredRuns
      <4>4. QED
        BY ZenonT(40), <1>0, <2>2, <4>2, <4>3
    <3>2. CASE d # d0
      <4>1. events[LogName(d)] \cup StoredRuns(d) \subseteq {objects[d]}
        BY SMTT(40), <2>2 DEF LogInv, LogAlone
      <4>2. QED
        BY ZenonT(40), <1>0, <2>2, <2>3, <3>2, <4>1
    <3>3. QED
      BY ZenonT(40), <3>1, <3>2
  <2>6. LogGone'
    <3> SUFFICES ASSUME NEW d \in Deployments, objects'[d] = NoRun,
                        events'[LogName(d)] \cup StoredRuns(d)' # {}
                 PROVE  \E r \in Uploading(d)' : Upload("logs", r) \in refused'
      BY ZenonT(40) DEF LogGone, LogName, Upload
    <3>1. CASE d = d0
      BY ZenonT(40), <1>0, <2>1, <2>2, <3>1
    <3>2. CASE d # d0
      <4>1. \E r \in Uploading(d) : Upload("logs", r) \in refused
        BY ZenonT(40), <1>0, <2>2, <2>3, <3>2 DEF LogInv, LogGone
      <4>2. QED
        BY ZenonT(40), <1>0, <2>2, <4>1
    <3>3. QED
      BY ZenonT(40), <3>1, <3>2
  <2>7. QED
    BY ZenonT(40), <2>4, <2>5, <2>6 DEF LogInv
<1>3. QED
  BY ZenonT(40), <1>1, <1>2 DEF DeleteLog

\* An announcement names a log that has been stored.
LEMMA AnnounceLogKeepsLog ==
  ASSUME UploadInv, LogInv, NEW q \in requests, AnnounceLog(q)
  PROVE  LogInv'
<1> DEFINE d0 == DeploymentOf[q.run]
<1>0. /\ q.run \in Runs /\ d0 \in Deployments /\ q.stage = "stored" /\ q.kind = "logs"
      /\ doing[q.run] = "logs"
      /\ requests' \subseteq requests
      /\ UNCHANGED <<refused, doing, outbox, objects>>
  BY ZenonT(40), UploadAssumption DEF AnnounceLog, Answer, UploadInv, TypeOK, Requests, RequestInv, LogInv,
                          LogSources, choiceVars, jobVars
<1>1. NameOf("logs", q.run) = LogName(d0) /\ Publish(LogName(d0), q.run)
  BY ZenonT(40) DEF NameOf, LogName, AnnounceLog
<1>2. \A d \in Deployments : events'[LogName(d)] = events[LogName(d)]
                             \/ (d = d0 /\ events'[LogName(d)] = events[LogName(d)] \cup {q.run})
  <2>1. LogName(d0) \in Names /\ q.run \in RunsOf(LogName(d0)[2])
    BY ZenonT(40), <1>0, LogNameType DEF RunsOf, LogName
  <2>2. \A m \in Names : events'[m] = events[m] \/ (m = LogName(d0) /\ events'[m] = events[m] \cup {q.run})
    BY ZenonT(40), <1>1, <2>1, PublishEffect DEF UploadInv
  <2>3. \A d \in Deployments : LogName(d) = LogName(d0) => d = d0
    BY ZenonT(40) DEF LogName
  <2>4. QED
    BY ZenonT(40), <2>2, <2>3, LogNameType
<1>3. q.run \in Uploading(d0) /\ q.run \in StoredRuns(d0)
  BY ZenonT(40), <1>0 DEF Uploading, StoredRuns, RunsOf
<1>4. \A d \in Deployments : Uploading(d)' = Uploading(d) /\ StoredRuns(d)' \subseteq StoredRuns(d)
  BY ZenonT(40), <1>0 DEF Uploading, StoredRuns, RunsOf
<1>5. \A d \in Deployments :
        /\ events'[LogName(d)] \cup StoredRuns(d)' \subseteq events[LogName(d)] \cup StoredRuns(d)
        /\ events'[LogName(d)] \subseteq events[LogName(d)] \cup Uploading(d)
  BY ZenonT(40), <1>2, <1>3, <1>4
<1>6. LogSources'
  <2>1. ASSUME NEW p \in requests'
        PROVE  /\ p.kind = "logs" => doing'[p.run] = "logs"
               /\ p.stage = "oversize" => p.kind = "logs" /\ Refused(p)'
    BY ZenonT(40), <1>0 DEF LogInv, LogSources, Refused
  <2>2. ASSUME NEW d \in Deployments
        PROVE  /\ outbox'[LogName(d)] # NoRun => doing'[outbox'[LogName(d)]] = "logs"
               /\ events'[LogName(d)] \subseteq Uploading(d)'
               /\ objects'[d] \in Uploading(d)' \cup {NoRun}
    BY ZenonT(40), <1>0, <1>4, <1>5 DEF LogInv, LogSources
  <2>3. QED
    BY ZenonT(40), <2>1, <2>2 DEF LogSources, LogName
<1>7. LogAlone'
  <2> SUFFICES ASSUME NEW d \in Deployments, \A r, p \in Uploading(d)' : r = p
               PROVE  events'[LogName(d)] \cup StoredRuns(d)' \subseteq {objects'[d]}
    BY ZenonT(40) DEF LogAlone, LogName
  <2>1. events[LogName(d)] \cup StoredRuns(d) \subseteq {objects[d]}
    BY SMTT(40), <1>4 DEF LogInv, LogAlone
  <2>2. QED
    BY ZenonT(40), <1>0, <1>5, <2>1
<1>8. LogGone'
  <2> SUFFICES ASSUME NEW d \in Deployments, objects'[d] = NoRun,
                      events'[LogName(d)] \cup StoredRuns(d)' # {}
               PROVE  \E r \in Uploading(d)' : Upload("logs", r) \in refused'
    BY ZenonT(40) DEF LogGone, LogName, Upload
  <2>1. \E r \in Uploading(d) : Upload("logs", r) \in refused
    BY ZenonT(40), <1>0, <1>5 DEF LogInv, LogGone
  <2>2. QED
    BY ZenonT(40), <1>0, <1>4, <2>1
<1>9. QED
  BY ZenonT(40), <1>6, <1>7, <1>8 DEF LogInv

\* Logs are where they belong at the start.
LEMMA InitLog == Init => LogInv
<1> SUFFICES ASSUME Init PROVE LogInv
  OBVIOUS
<1>1. \A d \in Deployments : events[LogName(d)] = {} /\ outbox[LogName(d)] = NoRun /\ objects[d] = NoRun
  BY ZenonT(40), LogNameType DEF Init
<1>2. requests = {} /\ \A d \in Deployments : StoredRuns(d) = {}
  BY ZenonT(40) DEF Init, StoredRuns
<1>3. QED
  BY ZenonT(40), <1>1, <1>2 DEF LogInv, LogSources, LogAlone, LogGone

\* A Job's steps keep the invariant.
LEMMA JobKeepsLog ==
  ASSUME UploadInv, LogInv, NEW r \in Runs, Job(r) \/ KillJob(r)
  PROVE  LogInv'
<1> USE DEF choiceVars, flusherVars, streamVars
<1>t. /\ requests \subseteq Requests /\ outbox \in [Names -> Runs \cup {NoRun}]
      /\ doing \in [Runs -> Kinds] /\ TypeOK /\ r \in Clients
  BY ZenonT(40) DEF UploadInv, TypeOK, Clients
<1>1. CASE PostResults(r)
  <2>1. UNCHANGED <<refused, doing, outbox, objects, events>>
    BY ZenonT(40), <1>1 DEF PostResults
  <2>2. \A q \in requests' : q \in requests \/ (q.stage = "received" /\ q.kind # "logs")
    <3>1. CASE Send(r, "result", r)
      <4>1. \A q \in requests' :
              q \in requests \/ q = [from |-> r, kind |-> "result", run |-> r, stage |-> "received"]
        BY ZenonT(40), <3>1 DEF Send
      <4>2. QED
        BY SMTT(40), <4>1
    <3>2. QED
      BY ZenonT(40), <1>1, <3>1 DEF PostResults
  <2>3. QED
    BY ZenonT(40), <1>t, <2>1, <2>2, LogSame
<1>2. CASE PutLogs(r)
  <2>1. UNCHANGED <<refused, outbox, objects, events>>
    BY ZenonT(40), <1>2 DEF PutLogs
  <2>2. CASE doing' = [doing EXCEPT ![r] = "logs"] /\ Send(r, "logs", r)
    <3>1. \A p \in Runs : doing[p] = "logs" => doing'[p] = "logs"
      BY ZenonT(40), <1>t, <2>2
    <3>2. doing'[r] = "logs"
      BY ZenonT(40), <1>t, <2>2
    <3>3. \A q \in requests' :
            q \in requests \/ q = [from |-> r, kind |-> "logs", run |-> r, stage |-> "received"]
      BY ZenonT(40), <2>2 DEF Send
    <3>4. \A q \in requests' : q \in requests \/ (q.stage = "received" /\ doing'[q.run] = "logs")
      BY SMTT(40), <3>2, <3>3
    <3>5. QED
      BY ZenonT(40), <1>t, <2>1, <3>1, <3>4, LogSame
  <2>3. CASE UNCHANGED <<doing, requests>>
    BY ZenonT(40), <1>t, <2>1, <2>3, LogSame
  <2>4. QED
    BY ZenonT(40), <1>2, <2>2, <2>3 DEF PutLogs
<1>3. CASE DirectReturns(r)
  BY ZenonT(40), <1>3, <1>t, LogSame DEF DirectReturns
<1>4. CASE Store(r)
  <2>1. UNCHANGED <<refused, doing, requests, objects, events>>
    BY ZenonT(40), <1>4 DEF Store
  <2>2. outbox' \in {outbox, [outbox EXCEPT ![NameOf(doing[r], r)] = r]}
    BY ZenonT(40), <1>4 DEF Store
  <2>3. ASSUME NEW d \in Deployments, outbox'[LogName(d)] # outbox[LogName(d)]
        PROVE  doing'[outbox'[LogName(d)]] = "logs"
    <3>1. NameOf(doing[r], r) = LogName(d) /\ outbox'[LogName(d)] = r
      BY ZenonT(40), <1>t, <2>2, <2>3, LogNameType
    <3>2. doing[r] = "logs"
      BY ZenonT(40), <1>t, <3>1, LogNameOf
    <3>3. QED
      BY ZenonT(40), <2>1, <3>1, <3>2
  <2>4. QED
    BY ZenonT(40), <1>t, <2>1, <2>3, LogSame
<1>5. CASE KillJob(r)
  <2>1. UNCHANGED <<refused, doing, outbox, objects, events>> /\ requests' = Orphan(r)
    BY ZenonT(40), <1>5 DEF KillJob
  <2>2. \A q \in requests' : \E p \in requests : q.kind = p.kind /\ q.run = p.run /\ q.stage = p.stage
    BY ZenonT(40), <1>t, <2>1, OrphanEffect
  <2>3. QED
    BY ZenonT(40), <1>t, <2>1, <2>2, LogSame
<1>6. QED
  BY ZenonT(40), <1>1, <1>2, <1>3, <1>4, <1>5 DEF Job

\* A flusher's steps keep it: what it sends it has read from the outbox.
LEMMA FlusherKeepsLog ==
  ASSUME UploadInv, LogInv, NEW f \in Flushers, Flusher(f) \/ RestartFlusher(f)
  PROVE  LogInv'
<1> USE DEF choiceVars, jobVars, streamVars
<1>t. /\ requests \subseteq Requests /\ outbox \in [Names -> Runs \cup {NoRun}]
      /\ queue \in [Flushers -> SUBSET Names] /\ TypeOK /\ f \in Clients
  BY ZenonT(40) DEF UploadInv, TypeOK, Clients
<1>1. CASE FlushTick(f) \/ FlushReturns(f)
  BY ZenonT(40), <1>1, <1>t, LogSame DEF FlushTick, FlushReturns
<1>2. CASE FlushNext(f)
  <2> DEFINE n == First(queue[f])
  <2>1. UNCHANGED <<refused, doing, outbox, objects, events>>
    BY ZenonT(40), <1>2 DEF FlushNext
  <2>2. \A q \in requests' : q \in requests \/ (q.stage = "received" /\ (q.kind = "logs" => doing'[q.run] = "logs"))
    <3>1. CASE requests' = requests
      BY ZenonT(40), <3>1
    <3>2. CASE queue[f] # {} /\ outbox[n] # NoRun /\ Send(f, n[1], outbox[n])
      <4>1. n \in Names
        BY ZenonT(40), <1>t, <3>2, FirstIn
      <4>2. n[1] = "logs" => doing[outbox[n]] = "logs"
        <5>1. ASSUME n[1] = "logs" PROVE n[2] \in Deployments /\ n = LogName(n[2])
          BY SMTT(40), <4>1, <5>1 DEF Names, LogName
        <5>2. QED
          BY ZenonT(40), <3>2, <5>1 DEF LogInv, LogSources
      <4>3. \A q \in requests' :
              q \in requests \/ q = [from |-> f, kind |-> n[1], run |-> outbox[n], stage |-> "received"]
        BY ZenonT(40), <3>2 DEF Send
      <4>4. QED
        BY SMTT(40), <2>1, <4>2, <4>3
    <3>3. QED
      BY ZenonT(40), <1>2, <3>1, <3>2 DEF FlushNext
  <2>3. QED
    BY ZenonT(40), <1>t, <2>1, <2>2, LogSame
<1>3. CASE FlushRemove(f)
  <2> DEFINE n == First(queue[f])
  <2>1. UNCHANGED <<refused, doing, requests, objects, events>> /\ outbox' = [outbox EXCEPT ![n] = NoRun]
    BY ZenonT(40), <1>3 DEF FlushRemove
  <2>2. \A d \in Deployments : outbox'[LogName(d)] \in {outbox[LogName(d)], NoRun}
    BY ZenonT(40), <1>t, <2>1, LogNameType
  <2>3. QED
    BY ZenonT(40), <1>t, <2>1, <2>2, LogSame
<1>4. CASE RestartFlusher(f)
  <2>1. UNCHANGED <<refused, doing, outbox, objects, events>> /\ requests' = Orphan(f)
    BY ZenonT(40), <1>4 DEF RestartFlusher
  <2>2. \A q \in requests' : \E p \in requests : q.kind = p.kind /\ q.run = p.run /\ q.stage = p.stage
    BY ZenonT(40), <1>t, <2>1, OrphanEffect
  <2>3. QED
    BY ZenonT(40), <1>t, <2>1, <2>2, LogSame
<1>5. QED
  BY ZenonT(40), <1>1, <1>2, <1>3, <1>4 DEF Flusher

\* Every step keeps it.
LEMMA NextLog == UploadInv /\ LogInv /\ [Next]_vars => LogInv'
<1> SUFFICES ASSUME UploadInv, LogInv, [Next]_vars PROVE LogInv'
  OBVIOUS
<1> USE DEF choiceVars, jobVars, flusherVars, streamVars
<1>t. requests \subseteq Requests /\ outbox \in [Names -> Runs \cup {NoRun}] /\ TypeOK
  BY ZenonT(40) DEF UploadInv, TypeOK
<1>1. ASSUME NEW c \in Clients, GiveUp(c) PROVE LogInv'
  <2>1. UNCHANGED <<refused, doing, outbox, objects, events>> /\ requests' = Orphan(c)
    BY ZenonT(40), <1>1 DEF GiveUp
  <2>2. \A q \in requests' : \E p \in requests : q.kind = p.kind /\ q.run = p.run /\ q.stage = p.stage
    BY ZenonT(40), <1>t, <2>1, OrphanEffect
  <2>3. QED
    BY ZenonT(40), <1>t, <2>1, <2>2, LogSame
<1>2. ASSUME NEW q \in requests, RefuseLog(q) \/ BackendFails(q) \/ DropRequest(q) PROVE LogInv'
  <2>1. UNCHANGED <<refused, doing, outbox, objects, events>> /\ requests' \subseteq requests
    BY ZenonT(40), <1>2 DEF RefuseLog, BackendFails, DropRequest, Answer
  <2>2. QED
    BY ZenonT(40), <1>t, <2>1, LogSame
<1>3. ASSUME NEW q \in requests, ServeResult(q) PROVE LogInv'
  <2>1. UNCHANGED <<refused, doing, outbox, objects>> /\ requests' \subseteq requests
    BY ZenonT(40), <1>3 DEF ServeResult, Answer
  <2>2. \A d \in Deployments : events'[LogName(d)] = events[LogName(d)]
    <3>1. CASE UNCHANGED events
      BY ZenonT(40), <3>1
    <3>2. CASE Publish(NameOf("result", q.run), q.run)
      <4>1. q.run \in Runs /\ "result" \in Kinds
        BY ZenonT(40), <1>t DEF Requests, Kinds
      <4>2. /\ NameOf("result", q.run) \in Names
            /\ q.run \in RunsOf(NameOf("result", q.run)[2])
        BY ZenonT(40), <4>1, NameType
      <4>3. \A m \in Names : m # NameOf("result", q.run) => events'[m] = events[m]
        BY ZenonT(40), <3>2, <4>2, PublishEffect DEF UploadInv
      <4>4. \A d \in Deployments : LogName(d) # NameOf("result", q.run)
        BY ZenonT(40), <4>1, LogNameOf
      <4>5. QED
        BY ZenonT(40), <4>3, <4>4, LogNameType
    <3>3. QED
      BY ZenonT(40), <1>3, <3>1, <3>2 DEF ServeResult
  <2>3. QED
    BY ZenonT(40), <1>t, <2>1, <2>2, LogSame
<1>4. CASE (\E n \in Names : ForgetEventID(n)) \/ UNCHANGED vars
  <2>1. UNCHANGED <<refused, doing, outbox, objects, events, requests>>
    BY ZenonT(40), <1>4 DEF ForgetEventID, vars
  <2>2. QED
    BY ZenonT(40), <1>t, <2>1, LogSame
<1>5. QED
  BY ZenonT(40), <1>1, <1>2, <1>3, <1>4, JobKeepsLog, FlusherKeepsLog, PutLogKeepsLog, DeleteLogKeepsLog,
     AnnounceLogKeepsLog DEF Next, Serve

\* putLogs: an announced log object stays as announced while one run of the
\* deployment uploads, and is missing only if some run's logs were oversized.
THEOREM AnnouncedLogStays == Spec => []AnnouncedLogIntact
<1>1. UploadInv /\ LogInv => AnnouncedLogIntact
  BY ZenonT(40), LogInvImpliesIntact DEF UploadInv
<1>2. QED
  BY <1>1, InitLog, NextLog, InvHolds, PTL DEF Spec
=============================================================================
