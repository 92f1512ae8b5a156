--------------------------- MODULE ResultDelivery ---------------------------
(***************************************************************************)
(* What the gateway client and the edge outbox promise about an upload,    *)
(* without calls, files, flushers and retries: it may wait somewhere       *)
(* durable before it arrives, it never falls back, and a Job is told that  *)
(* the upload is done only when it waits or has arrived.                   *)
(***************************************************************************)
CONSTANT Names      \* kind of upload and deployment

VARIABLES
  state,            \* how far the upload of each name has come
  promised          \* names that some Job was told are done

vars == <<state, promised>>

Init ==
  /\ state = [n \in Names |-> "open"]
  /\ promised = {}

\* Spooled because the gateway did not take it, perhaps without telling.
Wait(n) ==
  /\ state[n] = "open"
  /\ state' = [state EXCEPT ![n] = "waiting"]
  /\ promised' \in {promised, promised \cup {n}}

\* Stored in the stream, from a Job or from a flusher.
Arrive(n) ==
  /\ state[n] # "arrived"
  /\ state' = [state EXCEPT ![n] = "arrived"]
  /\ UNCHANGED promised

\* A Job learns that its upload is done.
Promise(n) ==
  /\ state[n] # "open"
  /\ promised' = promised \cup {n}
  /\ UNCHANGED state

Next == \E n \in Names : Wait(n) \/ Arrive(n) \/ Promise(n)

Spec == Init /\ [][Next]_vars
=============================================================================
