---------------------------- MODULE GatewayAccess ----------------------------
(***************************************************************************)
(* The gateway process and the agents it lets in: its start and graceful   *)
(* stop (cmd/runner/main.go, runGateway), the agents' tokens               *)
(* (gatewayapi/auth.go), the public keys it fetches from the control plane *)
(* and caches (gateway/keys.go), and the long polls for commands that      *)
(* share one consumer (gateway/server.go nextCommand, backend.go           *)
(* FetchCommand).                                                          *)
(*                                                                         *)
(* One runner is modelled; cache entries and consumers of other runners    *)
(* are separate map entries.  Keys are numbered by registration, the       *)
(* current one is the last.  Time is in ticks; every timer counts towards  *)
(* or from zero, so that time never ends.                                  *)
(***************************************************************************)
EXTENDS Integers, FiniteSets

CONSTANTS
  Handlers,      \* requests the gateway can work on at the same time
  TTL,           \* PublicKeyCacheTTL
  LookupTimeout, \* timeout of the control-plane client
  Lifetime,      \* agentTokenLifetime
  ClockSkew,     \* clockSkew
  AgentOffsets,  \* how far the agent's clock may be ahead of the gateway's
  FetchWait,     \* longest wait of a poll
  Grace,         \* time that Shutdown has
  StaticChoices, \* with a key file (TRUE), with a control plane (FALSE)
  MaxKeys,       \* keys registered over time
  MaxFaults      \* failed lookups, gone clients, stops and failed starts

ASSUME AccessAssumption ==
  /\ TTL \in Nat \ {0} /\ LookupTimeout \in Nat \ {0}
  /\ Lifetime \in Nat \ {0} /\ ClockSkew \in Nat
  /\ AgentOffsets \subseteq Int
  /\ FetchWait \in Nat \ {0} /\ Grace \in Nat \ {0}
  /\ StaticChoices \subseteq BOOLEAN
  /\ MaxKeys \in Nat \ {0} /\ MaxFaults \in Nat

Keys    == 1..MaxKeys
NoKey   == 0
\* Longest time for which a replaced key can still be used.
Staleness == IF TTL > LookupTimeout THEN TTL - 1 ELSE LookupTimeout

VARIABLES
  \* chosen once
  static,     \* StaticPublicKeyResolver instead of the control plane's
  offset,     \* agent's clock minus gateway's clock
  \* control plane and agent
  current,    \* key registered for the runner
  retired,    \* ticks since each key was replaced, at most Staleness + 1
  agentKey,   \* key the agent signs with
  \* gateway
  phase,      \* of the process
  grace,      \* ticks that Shutdown still waits
  fileKey,    \* key that the static resolver read at the start
  cache,      \* cached key and the ticks for which it is fresh
  lock,       \* handler that holds the mutex of the consumer
  \* each handler
  pc,
  tokenKey,   \* key that signed the request's token
  age,        \* ticks since the request arrived, then since Resolve began
  key,        \* key that Resolve found
  wait,       \* ticks until the poll's context ends
  \* bound
  faults

choiceVars  == <<static, offset>>
worldVars   == <<current, retired, agentKey>>
processVars == <<phase, grace, fileKey>>
handlerVars == <<pc, tokenKey, age, key, wait, lock>>
vars == <<choiceVars, worldVars, processVars, cache, handlerVars, faults>>

\* Where the poll's context is running.
Polling == {"queued", "fetching", "rejecting"}

Open == {h \in Handlers : pc[h] \notin {"idle", "paused"}}

Init ==
  /\ static \in StaticChoices
  /\ offset \in AgentOffsets
  /\ current = 1
  /\ retired = [k \in Keys |-> 0]
  /\ agentKey = 1
  /\ phase = "stopped"
  /\ grace = 0
  /\ fileKey = NoKey
  /\ cache = [key |-> NoKey, fresh |-> 0]
  /\ lock = {}
  /\ pc = [h \in Handlers |-> "idle"]
  /\ tokenKey = [h \in Handlers |-> NoKey]
  /\ age = [h \in Handlers |-> 0]
  /\ key = [h \in Handlers |-> NoKey]
  /\ wait = [h \in Handlers |-> 0]
  /\ faults = 0

Fault == faults < MaxFaults /\ faults' = faults + 1

-----------------------------------------------------------------------------
(* Control plane and agent *)

\* A new key is registered for the runner.
RotateKey ==
  /\ current < MaxKeys
  /\ current' = current + 1
  /\ UNCHANGED <<choiceVars, retired, agentKey, processVars, cache, handlerVars, faults>>

\* The agent is started with the registered key.
RekeyAgent ==
  /\ agentKey # current
  /\ agentKey' = current
  /\ UNCHANGED <<choiceVars, current, retired, processVars, cache, handlerVars, faults>>

-----------------------------------------------------------------------------
(* Process: runGateway *)

\* Connection, stores, resolver, receipt key and server are set up in turn;
\* the first that fails ends the process.  The key file is read here only.
Start ==
  /\ phase = "stopped"
  /\ \/ phase' = "serving" /\ fileKey' = current /\ UNCHANGED faults
     \/ Fault /\ UNCHANGED <<phase, fileKey>>
  /\ UNCHANGED <<choiceVars, worldVars, grace, cache, handlerVars>>

\* SIGTERM: Shutdown closes the listener and waits for the open requests.
Terminate ==
  /\ phase = "serving"
  /\ Fault
  /\ phase' = "draining"
  /\ grace' = Grace
  /\ UNCHANGED <<choiceVars, worldVars, fileKey, cache, handlerVars>>

\* The process is gone, and with it the cache and every open request.
Stopped ==
  /\ phase' = "stopped"
  /\ grace' = 0
  /\ cache' = [key |-> NoKey, fresh |-> 0]
  /\ lock' = {}
  /\ pc' = [h \in Handlers |-> "idle"]
  /\ tokenKey' = [h \in Handlers |-> NoKey]
  /\ age' = [h \in Handlers |-> 0]
  /\ key' = [h \in Handlers |-> NoKey]
  /\ wait' = [h \in Handlers |-> 0]
  /\ UNCHANGED <<choiceVars, worldVars, fileKey>>

\* Shutdown returns nil once no request is open, and the error of its
\* context when the time is up; runGateway returns either, and the process
\* ends with the requests that are still open.
Shutdown ==
  /\ phase = "draining"
  /\ Open = {} \/ grace = 0
  /\ Stopped
  /\ UNCHANGED faults

\* The listener fails (errorsChannel), or the process is killed.
Crash ==
  /\ phase \in {"serving", "draining"}
  /\ Fault
  /\ Stopped

-----------------------------------------------------------------------------
(* Requests of the agent *)

\* The handler answers; the agent comes back at once, or after a pause when
\* the answer is an error (retryDelay).
Answer(h, next) ==
  /\ pc' = [pc EXCEPT ![h] = next]
  /\ lock' = lock \ {h}
  /\ tokenKey' = [tokenKey EXCEPT ![h] = NoKey]
  /\ age' = [age EXCEPT ![h] = 0]
  /\ key' = [key EXCEPT ![h] = NoKey]
  /\ wait' = [wait EXCEPT ![h] = 0]

Respond(h) == Answer(h, "idle")
Refuse(h)  == Answer(h, "paused")

\* Mutant: the lower end of a token's validity is taken from its expiry.
VerifyAgentTokenNoSkew(h, k, a) ==
  /\ k = tokenKey[h]
  /\ a - offset < Lifetime + ClockSkew
  /\ a - offset >= 0

\* The token was issued offset ticks ahead of the gateway's clock, a ticks
\* ago; it must carry the signature of k and be neither too new nor expired.
VerifyAgentToken(h, k, a) ==
  /\ k = tokenKey[h]
  /\ a - offset >= -ClockSkew
  /\ a - offset < Lifetime + ClockSkew

\* nextCommand arrives with a token signed just now (SignAgentToken).
Arrive(h) ==
  /\ phase = "serving"
  /\ pc[h] = "idle"
  /\ pc' = [pc EXCEPT ![h] = "arrived"]
  /\ tokenKey' = [tokenKey EXCEPT ![h] = agentKey]
  /\ UNCHANGED <<choiceVars, worldVars, processVars, cache, age, key, wait, lock, faults>>

\* The end of authenticateAgent with the key k that Resolve returned: 401, or
\* the poll begins.
Authenticate(h, k) ==
  IF VerifyAgentToken(h, k, age[h])
  THEN /\ pc' = [pc EXCEPT ![h] = "queued"]
       /\ wait' = [wait EXCEPT ![h] = FetchWait]
       /\ age' = [age EXCEPT ![h] = 0]
       /\ key' = [key EXCEPT ![h] = NoKey]
       /\ UNCHANGED <<tokenKey, lock>>
  ELSE Refuse(h)

\* Resolve answers from the key file or from a fresh cache entry.
ResolveKnown(h) ==
  /\ pc[h] = "arrived"
  /\ \/ static /\ Authenticate(h, fileKey)
     \/ ~static /\ cache.fresh > 0 /\ Authenticate(h, cache.key)
  /\ UNCHANGED <<choiceVars, worldVars, processVars, cache, faults>>

\* Resolve finds no fresh entry, releases the mutex and asks the control
\* plane; several handlers may do so at the same time.
Lookup(h) ==
  /\ pc[h] = "arrived" /\ ~static /\ cache.fresh = 0
  /\ pc' = [pc EXCEPT ![h] = "asking"]
  /\ UNCHANGED <<choiceVars, worldVars, processVars, cache, tokenKey, age, key, wait, lock, faults>>

\* The control plane reads the runner's key.
ControlPlaneReads(h) ==
  /\ pc[h] = "asking"
  /\ pc' = [pc EXCEPT ![h] = "told"]
  /\ key' = [key EXCEPT ![h] = current]
  /\ UNCHANGED <<choiceVars, worldVars, processVars, cache, tokenKey, age, wait, lock, faults>>

Left(h) == IF TTL > age[h] THEN TTL - age[h] ELSE 0

\* Mutant: the entry is fresh for a full TTL from the answer on.
LookupReturnsFromAnswer(h) ==
  /\ pc[h] = "told"
  /\ cache' = [key |-> key[h], fresh |-> TTL]
  /\ Authenticate(h, key[h])
  /\ UNCHANGED <<choiceVars, worldVars, processVars, faults>>

\* The answer is cached, over whatever is there, until TTL after the time
\* Resolve read at its beginning; the request uses it in any case.
LookupReturns(h) ==
  /\ pc[h] = "told"
  /\ cache' = [key |-> key[h], fresh |-> Left(h)]
  /\ Authenticate(h, key[h])
  /\ UNCHANGED <<choiceVars, worldVars, processVars, faults>>

\* The lookup fails: transport error or time limit, status, body, or a runner
\* without key.
LookupFails(h) ==
  /\ pc[h] \in {"asking", "told"}
  /\ Fault
  /\ Refuse(h)
  /\ UNCHANGED <<choiceVars, worldVars, processVars, cache>>

-----------------------------------------------------------------------------
(* The poll: FetchCommand under the mutex of the runner's consumer *)

\* The mutex knows nothing of the context: a poll whose time is over gets it
\* all the same, and then finds out.
LockConsumer(h) ==
  /\ pc[h] = "queued" /\ lock = {}
  /\ IF wait[h] > 0
     THEN lock' = {h} /\ pc' = [pc EXCEPT ![h] = "fetching"] /\ UNCHANGED <<tokenKey, age, key, wait>>
     ELSE Respond(h)
  /\ UNCHANGED <<choiceVars, worldVars, processVars, cache, faults>>

\* FetchCommand returns, and the mutex is free: a command for the agent or no
\* command, an error of the consumer, or a command that nextCommand must reject
\* (not this runner's, no envelope, expired).
FetchReturns(h) ==
  /\ pc[h] = "fetching"
  /\ \/ Respond(h) \/ Refuse(h)
     \/ /\ pc' = [pc EXCEPT ![h] = "rejecting"]
        /\ lock' = lock \ {h}
        /\ UNCHANGED <<tokenKey, age, key, wait>>
  /\ UNCHANGED <<choiceVars, worldVars, processVars, cache, faults>>

\* Mutant: each round of the loop gets a context of its own.
RejectReturnsAnew(h) ==
  /\ pc[h] = "rejecting"
  /\ \/ /\ pc' = [pc EXCEPT ![h] = "queued"]
        /\ wait' = [wait EXCEPT ![h] = FetchWait]
        /\ UNCHANGED <<tokenKey, age, key, lock>>
     \/ Refuse(h)
  /\ UNCHANGED <<choiceVars, worldVars, processVars, cache, faults>>

\* Reject has published the dead letter and nextCommand goes round its loop, to
\* the mutex again and with what is left of its time; or Reject fails.
RejectReturns(h) ==
  /\ pc[h] = "rejecting"
  /\ \/ pc' = [pc EXCEPT ![h] = "queued"] /\ UNCHANGED <<tokenKey, age, key, wait, lock>>
     \/ Refuse(h)
  /\ UNCHANGED <<choiceVars, worldVars, processVars, cache, faults>>

\* The client is gone, and the context of its request with it.
ClientGone(h) ==
  /\ pc[h] \in Polling /\ wait[h] > 0
  /\ Fault
  /\ wait' = [wait EXCEPT ![h] = 0]
  /\ UNCHANGED <<choiceVars, worldVars, processVars, cache, pc, tokenKey, age, key, lock>>

-----------------------------------------------------------------------------
\* Mutant: the control-plane client has no time limit.
WaitingUnlimited ==
  /\ \A h \in Handlers :
       /\ pc[h] # "arrived"
       /\ pc[h] \in {"fetching", "rejecting"} => wait[h] > 0
  /\ phase = "draining" => grace > 0

\* A lookup ends at its time limit, a fetch and a rejection when the
\* context of the poll ends, Shutdown
\* when its time is up, and what the code does without waiting takes no time.
Waiting ==
  /\ \A h \in Handlers :
       /\ pc[h] # "arrived"
       /\ pc[h] \in {"asking", "told"} => age[h] < LookupTimeout
       /\ pc[h] \in {"fetching", "rejecting"} => wait[h] > 0
  /\ phase = "draining" => grace > 0

Less(n) == IF n > 0 THEN n - 1 ELSE 0

Tick ==
  /\ Waiting
  /\ retired' = [k \in Keys |-> IF k < current /\ retired[k] <= Staleness THEN retired[k] + 1 ELSE retired[k]]
  /\ cache' = [cache EXCEPT !.fresh = Less(@)]
  /\ pc' = [h \in Handlers |-> IF pc[h] = "paused" THEN "idle" ELSE pc[h]]
  /\ age' = [h \in Handlers |-> IF pc[h] \in {"asking", "told"} THEN age[h] + 1 ELSE age[h]]
  /\ wait' = [h \in Handlers |-> IF pc[h] \in Polling THEN Less(wait[h]) ELSE wait[h]]
  /\ grace' = Less(grace)
  /\ UNCHANGED <<choiceVars, current, agentKey, phase, fileKey, tokenKey, key, lock, faults>>

Handle(h) ==
  \/ ResolveKnown(h) \/ Lookup(h) \/ ControlPlaneReads(h) \/ LookupReturns(h)
  \/ LookupFails(h) \/ FetchReturns(h) \/ RejectReturns(h)

Next ==
  \/ RotateKey \/ RekeyAgent
  \/ Start \/ Terminate \/ Shutdown \/ Crash
  \/ \E h \in Handlers : Arrive(h) \/ Handle(h) \/ LockConsumer(h) \/ ClientGone(h)
  \/ Tick

\* Time passes, also while requests come and go; Kubernetes starts the gateway
\* again; the agent polls again after every answer; handlers run, and the Go
\* mutex starves nobody.
Fairness ==
  /\ SF_vars(Tick) /\ WF_vars(Start) /\ WF_vars(Shutdown)
  /\ \A h \in Handlers :
       /\ WF_vars(Arrive(h))
       /\ WF_vars(ResolveKnown(h) \/ Lookup(h))
       /\ WF_vars(ControlPlaneReads(h)) /\ WF_vars(LookupReturns(h))
       /\ WF_vars(pc[h] = "fetching" /\ wait[h] = 0 /\ FetchReturns(h))
       /\ WF_vars(pc[h] = "rejecting" /\ wait[h] = 0 /\ RejectReturns(h))
       /\ SF_vars(LockConsumer(h))

Spec == Init /\ [][Next]_vars /\ Fairness

-----------------------------------------------------------------------------
(* Properties *)

\* Every variable holds a value of its kind.
TypeOK ==
  /\ static \in BOOLEAN /\ offset \in Int
  /\ current \in Keys /\ agentKey \in Keys
  /\ retired \in [Keys -> 0..Staleness + 1]
  /\ phase \in {"stopped", "serving", "draining"}
  /\ grace \in 0..Grace
  /\ lock \subseteq Handlers
  /\ fileKey \in Keys \cup {NoKey}
  /\ cache \in [key : Keys \cup {NoKey}, fresh : 0..TTL]
  /\ pc \in [Handlers -> {"idle", "paused", "arrived", "asking", "told", "queued", "fetching", "rejecting"}]
  /\ tokenKey \in [Handlers -> Keys \cup {NoKey}]
  /\ age \in [Handlers -> 0..LookupTimeout]
  /\ key \in [Handlers -> Keys \cup {NoKey}]
  /\ wait \in [Handlers -> 0..FetchWait]
  /\ faults \in 0..MaxFaults

\* Keys by which the next step of a handler can judge a token.
KeysInUse ==
  {k \in Keys : \/ cache.fresh > 0 /\ k = cache.key
                \/ \E h \in Handlers : pc[h] = "told" /\ k = key[h]}

\* With a control plane, no request is judged by a key that was replaced
\* longer ago than the cache time or the lookup's time limit, although a slow
\* lookup may overwrite the newer key that a faster one has cached: Resolve
\* takes the expiry from the time it began.
KeyFreshness == \A k \in KeysInUse : retired[k] <= Staleness

\* The agent's clock is close enough for a token that waits for a lookup.
ClockTolerated ==
  offset <= ClockSkew /\ LookupTimeout - offset < Lifetime + ClockSkew

\* An agent that signs with the registered key, and whose clock is tolerated,
\* is let in again in the end, whatever old key is cached or on its way when
\* the key is registered.
AgentReadmitted ==
  (~static /\ ClockTolerated /\ agentKey = current) ~>
    (agentKey # current \/ \E h \in Handlers : pc[h] = "queued" /\ tokenKey[h] = current)

\* Every poll is answered, although it may have to wait for a mutex that does
\* not look at its context, and to wait for it again after each command that it
\* fetches and rejects.
PollAnswered == \A h \in Handlers : pc[h] = "queued" ~> pc[h] \in {"idle", "paused"}
=============================================================================
