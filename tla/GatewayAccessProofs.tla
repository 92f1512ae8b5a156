------------------------ MODULE GatewayAccessProofs ------------------------
(***************************************************************************)
(* Type correctness and key freshness of the gateway for every cache time, *)
(* time limit, number of concurrent requests and number of keys.           *)
(*                                                                         *)
(* KeyFreshness alone is not inductive: that a key may be used now says    *)
(* nothing of how long it will be.  AgeInv adds the two sums that time     *)
(* does not change: a cached key's age and the rest of its cache time make *)
(* at most TTL, and a key on its way from the control plane is at most as  *)
(* old as the lookup that fetches it.                                      *)
(***************************************************************************)
EXTENDS GatewayAccess, TLAPS

AgeInv ==
  /\ \A k \in Keys : k >= current => retired[k] = 0
  /\ cache.fresh > 0 => cache.key \in Keys /\ retired[cache.key] + cache.fresh <= TTL
  /\ \A h \in Handlers : pc[h] = "told" => key[h] \in Keys /\ retired[key[h]] <= age[h]

IInv == TypeOK /\ AgeInv

\* The bound on staleness covers a cache entry and a lookup.
LEMMA StalenessBounds ==
  Staleness \in Nat /\ TTL - 1 <= Staleness /\ LookupTimeout <= Staleness
BY SMTT(40), AccessAssumption DEF Staleness

\* Types and ages hold when the gateway has not been started.
LEMMA InitIInv == Init => IInv
BY SMTT(40), AccessAssumption, StalenessBounds DEF Init, IInv, TypeOK, AgeInv, Keys, NoKey

\* The ages bound the staleness of every key in use.
LEMMA IInvImpliesFreshness == IInv => KeyFreshness
BY SMTT(40), AccessAssumption, StalenessBounds DEF IInv, TypeOK, AgeInv, KeyFreshness, KeysInUse, Keys, NoKey

\* Every step of the gateway, the agent and the control plane keeps types
\* and ages.
LEMMA NextIInv == IInv /\ [Next]_vars => IInv'
<1> SUFFICES ASSUME IInv, [Next]_vars PROVE IInv'
  OBVIOUS
<1> USE AccessAssumption, StalenessBounds DEF IInv, Keys, NoKey
<1>1. CASE RotateKey
  BY SMTT(40), <1>1 DEF RotateKey, TypeOK, AgeInv, choiceVars, worldVars, processVars, handlerVars
<1>2. CASE RekeyAgent
  BY ZenonT(40), <1>2 DEF RekeyAgent, TypeOK, AgeInv, choiceVars, worldVars, processVars, handlerVars
<1>3. CASE Start
  <2>1. /\ phase' \in {"stopped", "serving", "draining"}
        /\ fileKey' \in Keys \cup {NoKey} /\ faults' \in 0..MaxFaults
    BY SMTT(40), <1>3 DEF Start, Fault, TypeOK
  <2>2. UNCHANGED <<choiceVars, worldVars, grace, cache, handlerVars>>
    BY ZenonT(40), <1>3 DEF Start
  <2>3. TypeOK'
    BY ZenonT(40), <2>1, <2>2 DEF TypeOK, choiceVars, worldVars, handlerVars
  <2>4. AgeInv'
    BY ZenonT(40), <2>2 DEF AgeInv, worldVars, handlerVars
  <2> QED BY ZenonT(40), <2>3, <2>4
<1>4. CASE Terminate
  BY SMTT(40), <1>4 DEF Terminate, Fault, TypeOK, AgeInv, choiceVars, worldVars, processVars, handlerVars
<1>5. ASSUME Stopped, faults' \in 0..MaxFaults PROVE IInv'
  <2>1. cache'.fresh = 0 /\ cache' \in [key : Keys \cup {NoKey}, fresh : 0..TTL]
    BY SMTT(40), <1>5 DEF Stopped
  <2>2. TypeOK'
    BY SMTT(40), <1>5, <2>1 DEF Stopped, TypeOK, choiceVars, worldVars
  <2>3. AgeInv'
    BY SMTT(40), <1>5, <2>1 DEF Stopped, TypeOK, AgeInv, worldVars
  <2> QED BY ZenonT(40), <2>2, <2>3
<1>6. CASE Shutdown
  BY ZenonT(40), <1>5, <1>6 DEF Shutdown, TypeOK
<1>7. CASE Crash
  <2>1. faults' \in 0..MaxFaults
    BY SMTT(40), <1>7 DEF Crash, Fault, TypeOK
  <2> QED BY ZenonT(40), <1>5, <1>7, <2>1 DEF Crash
<1>8. ASSUME NEW h \in Handlers, Arrive(h) PROVE IInv'
  BY ZenonT(40), <1>8 DEF Arrive, TypeOK, AgeInv, choiceVars, worldVars, processVars, handlerVars
<1>9. ASSUME NEW h \in Handlers, NEW p \in {"idle", "paused"}, Answer(h, p),
             UNCHANGED <<choiceVars, worldVars, processVars, cache>>, faults' \in 0..MaxFaults
      PROVE  IInv'
  <2>1. /\ pc' \in [Handlers -> {"idle", "paused", "arrived", "asking", "told", "queued", "fetching", "rejecting"}]
        /\ lock' \subseteq Handlers
        /\ tokenKey' \in [Handlers -> Keys \cup {NoKey}]
        /\ age' \in [Handlers -> 0..LookupTimeout]
        /\ key' \in [Handlers -> Keys \cup {NoKey}]
        /\ wait' \in [Handlers -> 0..FetchWait]
    BY SMTT(40), <1>9 DEF Answer, TypeOK
  <2>2. TypeOK'
    BY ZenonT(40), <1>9, <2>1 DEF TypeOK, choiceVars, worldVars, processVars
  <2>3. AgeInv'
    BY ZenonT(40), <1>9 DEF Answer, TypeOK, AgeInv, worldVars
  <2> QED BY ZenonT(40), <2>2, <2>3
<1>10. ASSUME NEW h \in Handlers, Lookup(h) PROVE IInv'
  BY ZenonT(40), <1>10 DEF Lookup, TypeOK, AgeInv, choiceVars, worldVars, processVars
<1>11. ASSUME NEW h \in Handlers, ControlPlaneReads(h) PROVE IInv'
  <2>1. /\ pc' = [pc EXCEPT ![h] = "told"] /\ key' = [key EXCEPT ![h] = current]
        /\ UNCHANGED <<choiceVars, worldVars, processVars, cache, tokenKey, age, wait, lock, faults>>
    BY ZenonT(40), <1>11 DEF ControlPlaneReads
  <2>2. pc' \in [Handlers -> {"idle", "paused", "arrived", "asking", "told", "queued", "fetching", "rejecting"}] /\ key' \in [Handlers -> Keys \cup {NoKey}]
    BY ZenonT(40), <2>1 DEF TypeOK
  <2>3. TypeOK'
    BY ZenonT(40), <2>1, <2>2 DEF TypeOK, choiceVars, worldVars, processVars
  <2>4. AgeInv'
    BY SMTT(40), <2>1 DEF TypeOK, AgeInv, worldVars
  <2> QED BY ZenonT(40), <2>3, <2>4
<1>12. ASSUME NEW h \in Handlers, NEW k, Authenticate(h, k),
              UNCHANGED <<choiceVars, worldVars, processVars, cache, faults>>
       PROVE  IInv'
  <2>1. CASE VerifyAgentToken(h, k, age[h])
    <3>0. /\ pc' = [pc EXCEPT ![h] = "queued"] /\ wait' = [wait EXCEPT ![h] = FetchWait]
          /\ age' = [age EXCEPT ![h] = 0] /\ key' = [key EXCEPT ![h] = NoKey]
          /\ UNCHANGED <<tokenKey, lock>>
      BY ZenonT(40), <1>12, <2>1 DEF Authenticate
    <3>1. /\ pc' \in [Handlers -> {"idle", "paused", "arrived", "asking", "told", "queued", "fetching", "rejecting"}]
          /\ wait' \in [Handlers -> 0..FetchWait]
          /\ age' \in [Handlers -> 0..LookupTimeout]
          /\ key' \in [Handlers -> Keys \cup {NoKey}]
      BY SMTT(40), <3>0 DEF TypeOK
    <3>2. UNCHANGED <<tokenKey, lock>>
      BY ZenonT(40), <3>0
    <3>3. TypeOK'
      BY ZenonT(40), <1>12, <3>1, <3>2 DEF TypeOK, choiceVars, worldVars, processVars
    <3>4. AgeInv'
      BY ZenonT(40), <1>12, <3>0 DEF TypeOK, AgeInv, worldVars
    <3> QED BY ZenonT(40), <3>3, <3>4
  <2>2. CASE ~VerifyAgentToken(h, k, age[h])
    <3>1. Answer(h, "paused")
      BY ZenonT(40), <1>12, <2>2 DEF Authenticate, Refuse
    <3>2. faults' \in 0..MaxFaults
      BY ZenonT(40), <1>12 DEF TypeOK
    <3> QED BY ZenonT(40), <1>9, <1>12, <3>1, <3>2
  <2> QED BY ZenonT(40), <2>1, <2>2
<1>13. ASSUME NEW h \in Handlers, ResolveKnown(h) PROVE IInv'
  BY ZenonT(40), <1>12, <1>13 DEF ResolveKnown
<1>14. ASSUME NEW h \in Handlers, LookupReturns(h) PROVE IInv'
  <2>1. /\ cache' \in [key : Keys \cup {NoKey}, fresh : 0..TTL]
        /\ cache'.fresh > 0 => cache'.key \in Keys /\ retired[cache'.key] + cache'.fresh <= TTL
    BY SMTT(40), <1>14 DEF LookupReturns, Left, TypeOK, AgeInv
  <2>2. UNCHANGED <<choiceVars, worldVars, processVars, faults>> /\ Authenticate(h, key[h])
    BY ZenonT(40), <1>14 DEF LookupReturns
  <2>3. CASE VerifyAgentToken(h, key[h], age[h])
    <3>0. /\ pc' = [pc EXCEPT ![h] = "queued"] /\ wait' = [wait EXCEPT ![h] = FetchWait]
          /\ age' = [age EXCEPT ![h] = 0] /\ key' = [key EXCEPT ![h] = NoKey]
          /\ UNCHANGED <<tokenKey, lock>>
      BY ZenonT(40), <2>2, <2>3 DEF Authenticate
    <3>1. /\ pc' \in [Handlers -> {"idle", "paused", "arrived", "asking", "told", "queued", "fetching", "rejecting"}]
          /\ wait' \in [Handlers -> 0..FetchWait]
          /\ age' \in [Handlers -> 0..LookupTimeout]
          /\ key' \in [Handlers -> Keys \cup {NoKey}]
      BY SMTT(40), <3>0 DEF TypeOK
    <3>2. UNCHANGED <<tokenKey, lock>>
      BY ZenonT(40), <3>0
    <3>3. TypeOK'
      BY ZenonT(40), <2>1, <2>2, <3>1, <3>2 DEF TypeOK, choiceVars, worldVars, processVars
    <3>4. AgeInv'
      BY ZenonT(40), <2>1, <2>2, <3>0 DEF TypeOK, AgeInv, worldVars
    <3> QED BY ZenonT(40), <3>3, <3>4
  <2>4. CASE ~VerifyAgentToken(h, key[h], age[h])
    <3>1. Answer(h, "paused")
      BY ZenonT(40), <2>2, <2>4 DEF Authenticate, Refuse
    <3>2. /\ pc' \in [Handlers -> {"idle", "paused", "arrived", "asking", "told", "queued", "fetching", "rejecting"}]
          /\ lock' \subseteq Handlers
          /\ tokenKey' \in [Handlers -> Keys \cup {NoKey}]
          /\ age' \in [Handlers -> 0..LookupTimeout]
          /\ key' \in [Handlers -> Keys \cup {NoKey}]
          /\ wait' \in [Handlers -> 0..FetchWait]
      BY SMTT(40), <3>1 DEF Answer, TypeOK
    <3>3. TypeOK'
      BY ZenonT(40), <2>1, <2>2, <3>2 DEF TypeOK, choiceVars, worldVars, processVars
    <3>4. AgeInv'
      BY ZenonT(40), <2>1, <2>2, <3>1 DEF Answer, TypeOK, AgeInv, worldVars
    <3> QED BY ZenonT(40), <3>3, <3>4
  <2> QED BY ZenonT(40), <2>3, <2>4
<1>15. ASSUME NEW h \in Handlers, LookupFails(h) PROVE IInv'
  <2>1. faults' \in 0..MaxFaults
    BY SMTT(40), <1>15 DEF LookupFails, Fault, TypeOK
  <2> QED BY ZenonT(40), <1>9, <1>15, <2>1 DEF LookupFails, Refuse
<1>16. ASSUME NEW h \in Handlers, FetchReturns(h) PROVE IInv'
  <2>1. faults' \in 0..MaxFaults
    BY ZenonT(40), <1>16 DEF FetchReturns, TypeOK
  <2>2. CASE pc' = [pc EXCEPT ![h] = "rejecting"] /\ lock' = lock \ {h} /\ UNCHANGED <<tokenKey, age, key, wait>>
    BY ZenonT(40), <1>16, <2>2 DEF FetchReturns, TypeOK, AgeInv, choiceVars, worldVars, processVars
  <2> QED BY ZenonT(40), <1>9, <1>16, <2>1, <2>2 DEF FetchReturns, Refuse, Respond
<1>17. ASSUME NEW h \in Handlers, LockConsumer(h) PROVE IInv'
  <2>1. CASE wait[h] > 0
    <3>0. lock' = {h} /\ pc' = [pc EXCEPT ![h] = "fetching"] /\ UNCHANGED <<tokenKey, age, key, wait>>
      BY ZenonT(40), <1>17, <2>1 DEF LockConsumer
    <3>1. /\ pc' \in [Handlers -> {"idle", "paused", "arrived", "asking", "told", "queued", "fetching", "rejecting"}]
          /\ lock' \subseteq Handlers
      BY ZenonT(40), <3>0 DEF TypeOK
    <3>2. UNCHANGED <<choiceVars, worldVars, processVars, cache, faults, tokenKey, age, key, wait>>
      BY ZenonT(40), <1>17, <3>0 DEF LockConsumer
    <3>3. TypeOK'
      BY ZenonT(40), <3>1, <3>2 DEF TypeOK, choiceVars, worldVars, processVars
    <3>4. AgeInv'
      BY ZenonT(40), <3>0, <3>2 DEF TypeOK, AgeInv, worldVars
    <3> QED BY ZenonT(40), <3>3, <3>4
  <2>2. CASE ~(wait[h] > 0)
    <3>1. faults' \in 0..MaxFaults
      BY ZenonT(40), <1>17 DEF LockConsumer, TypeOK
    <3> QED BY ZenonT(40), <1>9, <1>17, <2>2, <3>1 DEF LockConsumer, Respond
  <2> QED BY ZenonT(40), <2>1, <2>2
<1>18. ASSUME NEW h \in Handlers, ClientGone(h) PROVE IInv'
  BY SMTT(40), <1>18 DEF ClientGone, Fault, TypeOK, AgeInv, choiceVars, worldVars, processVars
<1>19. CASE Tick
  <2>1. /\ cache' \in [key : Keys \cup {NoKey}, fresh : 0..TTL]
        /\ cache'.key = cache.key
        /\ cache.fresh > 0 => cache'.fresh = cache.fresh - 1
        /\ cache.fresh = 0 => cache'.fresh = 0
    <3> DEFINE rest == Less(cache.fresh)
    <3>1. /\ rest \in 0..TTL
          /\ cache.fresh > 0 => rest = cache.fresh - 1
          /\ cache.fresh = 0 => rest = 0
      BY SMTT(40) DEF Less, TypeOK
    <3>2. cache' = [cache EXCEPT !.fresh = rest]
      BY ZenonT(40), <1>19 DEF Tick
    <3> HIDE DEF rest
    <3> QED BY ZenonT(40), <3>1, <3>2 DEF TypeOK
  <2>2. /\ retired' \in [Keys -> 0..Staleness + 1]
        /\ \A k \in Keys : retired'[k] <= retired[k] + 1 /\ (k >= current => retired'[k] = retired[k])
    <3>1. retired' = [k \in Keys |-> IF k < current /\ retired[k] <= Staleness THEN retired[k] + 1 ELSE retired[k]]
      BY ZenonT(40), <1>19 DEF Tick
    <3>2. retired \in [Keys -> 0..Staleness + 1] /\ current \in Keys
      BY ZenonT(40) DEF TypeOK
    <3>3. \A k \in Keys : /\ retired'[k] \in 0..Staleness + 1
                          /\ retired'[k] <= retired[k] + 1 /\ (k >= current => retired'[k] = retired[k])
      BY SMTT(40), <3>1, <3>2
    <3> QED BY ZenonT(40), <3>1, <3>3
  <2>3. age' \in [Handlers -> 0..LookupTimeout]
    <3>1. age' = [h \in Handlers |-> IF pc[h] \in {"asking", "told"} THEN age[h] + 1 ELSE age[h]]
      BY ZenonT(40), <1>19 DEF Tick
    <3>2. \A h \in Handlers : pc[h] \in {"asking", "told"} => age[h] < LookupTimeout
      BY ZenonT(40), <1>19 DEF Tick, Waiting
    <3> QED BY SMTT(40), <3>1, <3>2 DEF TypeOK
  <2>4. wait' \in [Handlers -> 0..FetchWait] /\ grace' \in 0..Grace
    <3>1. \A n \in Nat : \A m \in 0..n : Less(m) \in 0..n
      BY SMTT(40) DEF Less
    <3>2. wait' = [h \in Handlers |-> IF pc[h] \in Polling THEN Less(wait[h]) ELSE wait[h]]
      BY ZenonT(40), <1>19 DEF Tick
    <3>3. grace' = Less(grace)
      BY ZenonT(40), <1>19 DEF Tick
    <3> QED BY ZenonT(40), <3>1, <3>2, <3>3 DEF TypeOK
  <2>5. TypeOK'
    BY ZenonT(40), <1>19, <2>1, <2>2, <2>3, <2>4 DEF Tick, TypeOK, choiceVars
  <2>6. \A h \in Handlers : pc'[h] = "told" => pc[h] = "told" /\ key'[h] = key[h] /\ age'[h] = age[h] + 1
    BY ZenonT(40), <1>19 DEF Tick, TypeOK
  <2>7. current' = current
    BY ZenonT(40), <1>19 DEF Tick
  <2>8. AgeInv'
    <3>1. \A k \in Keys : k >= current' => retired'[k] = 0
      BY ZenonT(40), <2>2, <2>7 DEF AgeInv
    <3>2. cache'.fresh > 0 => cache'.key \in Keys /\ retired'[cache'.key] + cache'.fresh <= TTL
      <4> SUFFICES ASSUME cache'.fresh > 0
                   PROVE  cache.key \in Keys /\ retired'[cache.key] + cache'.fresh <= TTL
        BY ZenonT(40), <2>1
      <4>1. cache.fresh \in Nat
        BY SMTT(40) DEF TypeOK
      <4>2. cache.fresh > 0 /\ cache'.fresh = cache.fresh - 1
        BY SMTT(40), <2>1, <4>1
      <4>3. cache.key \in Keys /\ retired[cache.key] + cache.fresh <= TTL
        BY ZenonT(40), <4>2 DEF AgeInv
      <4>4. retired'[cache.key] \in Nat /\ retired[cache.key] \in Nat /\ retired'[cache.key] <= retired[cache.key] + 1
        BY SMTT(40), <2>2, <4>3 DEF TypeOK
      <4> QED BY SMTT(40), <4>1, <4>2, <4>3, <4>4
    <3>3. \A h \in Handlers : pc'[h] = "told" => key'[h] \in Keys /\ retired'[key'[h]] <= age'[h]
      <4> SUFFICES ASSUME NEW h \in Handlers, pc'[h] = "told"
                   PROVE  key[h] \in Keys /\ retired'[key[h]] <= age[h] + 1
        BY ZenonT(40), <2>6
      <4>1. key[h] \in Keys /\ retired[key[h]] <= age[h]
        BY ZenonT(40), <2>6 DEF AgeInv
      <4>2. retired'[key[h]] \in Nat /\ retired[key[h]] \in Nat /\ retired'[key[h]] <= retired[key[h]] + 1
        BY SMTT(40), <2>2, <4>1 DEF TypeOK
      <4> QED BY SMTT(40), <4>1, <4>2 DEF TypeOK
    <3> QED BY ZenonT(40), <3>1, <3>2, <3>3 DEF AgeInv
  <2> QED BY ZenonT(40), <2>5, <2>8
<1>20. ASSUME NEW h \in Handlers, RejectReturns(h) PROVE IInv'
  <2>1. faults' \in 0..MaxFaults
    BY ZenonT(40), <1>20 DEF RejectReturns, TypeOK
  <2>2. CASE pc' = [pc EXCEPT ![h] = "queued"] /\ UNCHANGED <<tokenKey, age, key, wait, lock>>
    BY ZenonT(40), <1>20, <2>2 DEF RejectReturns, TypeOK, AgeInv, choiceVars, worldVars, processVars
  <2> QED BY ZenonT(40), <1>9, <1>20, <2>1, <2>2 DEF RejectReturns, Refuse
<1>21. CASE UNCHANGED vars
  BY ZenonT(40), <1>21 DEF vars, TypeOK, AgeInv, choiceVars, worldVars, processVars, handlerVars
<1> QED
  BY ZenonT(40), <1>1, <1>2, <1>3, <1>4, <1>6, <1>7, <1>8, <1>10, <1>11, <1>13, <1>14, <1>15, <1>16, <1>17, <1>18, <1>19, <1>20, <1>21
  DEF Next, Handle

\* Every variable of the gateway keeps its type.
THEOREM GatewayTypeCorrect == Spec => []TypeOK
<1>1. IInv => TypeOK
  BY ZenonT(40) DEF IInv
<1> QED BY <1>1, InitIInv, NextIInv, PTL DEF Spec

\* No request is ever judged by a key that was replaced longer ago than the
\* cache time or the lookup's time limit, however lookups of concurrent
\* requests overtake each other.
THEOREM KeysStayFresh == Spec => []KeyFreshness
BY InitIInv, NextIInv, IInvImpliesFreshness, PTL DEF Spec

\* Exactly the handlers that fetch hold the mutex of the consumer.
LockHeldByFetch == lock = {h \in Handlers : pc[h] = "fetching"}

\* One poll at a time fetches from the runner's consumer.
OneFetch == \A h, g \in Handlers : pc[h] = "fetching" /\ pc[g] = "fetching" => h = g

\* FetchCommand: the mutex of the consumer is held by a fetch and by nothing else,
\* so every answer, early return, rejected command, failed client and stop has
\* released it, and two polls of a runner never fetch at the same time.
THEOREM MutexHeldByOneFetch == Spec => [](LockHeldByFetch /\ OneFetch)
<1>1. Init => LockHeldByFetch /\ OneFetch
  BY ZenonT(40) DEF Init, LockHeldByFetch, OneFetch
<1>2. TypeOK /\ LockHeldByFetch /\ OneFetch /\ [Next]_vars => LockHeldByFetch' /\ OneFetch'
  <2> SUFFICES ASSUME TypeOK, LockHeldByFetch, OneFetch, [Next]_vars PROVE LockHeldByFetch' /\ OneFetch'
    OBVIOUS
  <2>0. pc \in [Handlers -> {"idle", "paused", "arrived", "asking", "told", "queued", "fetching", "rejecting"}]
    BY ZenonT(40) DEF TypeOK
  <2>1. ASSUME /\ DOMAIN pc' = Handlers
               /\ UNCHANGED lock /\ \A h \in Handlers : pc'[h] = "fetching" <=> pc[h] = "fetching"
        PROVE  LockHeldByFetch' /\ OneFetch'
    BY ZenonT(40), <2>1 DEF LockHeldByFetch, OneFetch
  <2>2. ASSUME NEW h \in Handlers, NEW p \in {"idle", "paused"}, Answer(h, p)
        PROVE  LockHeldByFetch' /\ OneFetch'
    <3>1. pc' = [pc EXCEPT ![h] = p] /\ lock' = lock \ {h} /\ p # "fetching"
      BY ZenonT(40), <2>2 DEF Answer
    <3>2. pc'[h] = p /\ \A g \in Handlers : g # h => pc'[g] = pc[g]
      BY ZenonT(40), <2>0, <3>1
    <3>3. QED
      BY ZenonT(40), <3>1, <3>2 DEF LockHeldByFetch, OneFetch
  <2>3. CASE RotateKey \/ RekeyAgent \/ Start \/ Terminate \/ UNCHANGED vars
    <3>1. UNCHANGED <<pc, lock>>
      BY ZenonT(40), <2>3 DEF RotateKey, RekeyAgent, Start, Terminate, vars, handlerVars
    <3>2. QED
      BY ZenonT(40), <2>0, <2>1, <3>1
  <2>4. CASE Shutdown \/ Crash
    <3>1. lock' = {} /\ pc' = [h \in Handlers |-> "idle"]
      BY ZenonT(40), <2>4 DEF Shutdown, Crash, Stopped
    <3>2. QED
      BY ZenonT(40), <3>1 DEF LockHeldByFetch, OneFetch
  <2>5. ASSUME NEW h \in Handlers, Arrive(h) \/ Lookup(h) \/ ControlPlaneReads(h) \/ ClientGone(h)
        PROVE  LockHeldByFetch' /\ OneFetch'
    <3>1. /\ UNCHANGED lock
          /\ \/ UNCHANGED pc
             \/ \E p \in {"arrived", "asking", "told"} : pc' = [pc EXCEPT ![h] = p] /\ pc[h] # "fetching"
      BY ZenonT(40), <2>5 DEF Arrive, Lookup, ControlPlaneReads, ClientGone
    <3>2. QED
      BY ZenonT(40), <2>0, <2>1, <3>1
  <2>6. ASSUME NEW h \in Handlers, NEW k, pc[h] # "fetching", Authenticate(h, k)
        PROVE  LockHeldByFetch' /\ OneFetch'
    <3>1. CASE pc' = [pc EXCEPT ![h] = "queued"] /\ UNCHANGED lock
      BY ZenonT(40), <2>0, <2>1, <2>6, <3>1
    <3>2. CASE Answer(h, "paused")
      BY ZenonT(40), <2>2, <3>2
    <3>3. QED
      BY ZenonT(40), <2>6, <3>1, <3>2 DEF Authenticate, Refuse
  <2>7. ASSUME NEW h \in Handlers, ResolveKnown(h) \/ LookupReturns(h) PROVE LockHeldByFetch' /\ OneFetch'
    BY ZenonT(40), <2>6, <2>7 DEF ResolveKnown, LookupReturns
  <2>8. ASSUME NEW h \in Handlers, LookupFails(h) \/ FetchReturns(h) \/ RejectReturns(h)
        PROVE  LockHeldByFetch' /\ OneFetch'
    <3>1. CASE pc' = [pc EXCEPT ![h] = "rejecting"] /\ lock' = lock \ {h}
      <4>1. pc'[h] = "rejecting" /\ \A g \in Handlers : g # h => pc'[g] = pc[g]
        BY ZenonT(40), <2>0, <3>1
      <4>2. QED
        BY ZenonT(40), <3>1, <4>1 DEF LockHeldByFetch, OneFetch
    <3>2. CASE pc[h] = "rejecting" /\ pc' = [pc EXCEPT ![h] = "queued"] /\ UNCHANGED lock
      BY ZenonT(40), <2>0, <2>1, <3>2
    <3>3. CASE \E p \in {"idle", "paused"} : Answer(h, p)
      BY ZenonT(40), <2>2, <3>3
    <3>4. QED
      BY ZenonT(40), <2>8, <3>1, <3>2, <3>3 DEF LookupFails, FetchReturns, RejectReturns, Respond, Refuse
  <2>9. ASSUME NEW h \in Handlers, LockConsumer(h) PROVE LockHeldByFetch' /\ OneFetch'
    <3>1. CASE lock' = {h} /\ pc' = [pc EXCEPT ![h] = "fetching"]
      <4>1. \A g \in Handlers : pc[g] # "fetching"
        BY ZenonT(40), <2>9 DEF LockConsumer, LockHeldByFetch
      <4>2. pc'[h] = "fetching" /\ \A g \in Handlers : g # h => pc'[g] = pc[g]
        BY ZenonT(40), <2>0, <3>1
      <4>3. QED
        BY ZenonT(40), <3>1, <4>1, <4>2 DEF LockHeldByFetch, OneFetch
    <3>2. CASE Answer(h, "idle")
      BY ZenonT(40), <2>2, <3>2
    <3>3. QED
      BY ZenonT(40), <2>9, <3>1, <3>2 DEF LockConsumer, Respond
  <2>10. CASE Tick
    <3>1. UNCHANGED lock /\ pc' = [h \in Handlers |-> IF pc[h] = "paused" THEN "idle" ELSE pc[h]]
      BY ZenonT(40), <2>10 DEF Tick
    <3>2. QED
      BY ZenonT(40), <2>0, <2>1, <3>1
  <2>11. QED
    BY ZenonT(40), <2>3, <2>4, <2>5, <2>7, <2>8, <2>9, <2>10 DEF Next, Handle
<1>3. QED
  BY <1>1, <1>2, GatewayTypeCorrect, PTL DEF Spec
=============================================================================
