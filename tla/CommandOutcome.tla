--------------------------- MODULE CommandOutcome ---------------------------
(***************************************************************************)
(* What the control plane may rely on about a command it published: its    *)
(* Job exists before it is announced, it is announced before the command   *)
(* is accepted, a rejected command can be found on the dead letter         *)
(* subject, and an outcome never changes.  Nothing is ever taken back.     *)
(***************************************************************************)
CONSTANT Commands

VARIABLES
  outcome,     \* "open", "accepted", "rejected" or "dropped"
  executed,    \* commands whose Job was created
  announced,   \* commands whose job-created event is stored
  deadLettered \* commands with a copy on the dead letter subject

vars == <<outcome, executed, announced, deadLettered>>

Init ==
  /\ outcome = [c \in Commands |-> "open"]
  /\ executed = {}
  /\ announced = {}
  /\ deadLettered = {}

Execute(c) ==
  /\ executed' = executed \cup {c}
  /\ UNCHANGED <<outcome, announced, deadLettered>>

Announce(c) ==
  /\ c \in executed
  /\ announced' = announced \cup {c}
  /\ UNCHANGED <<outcome, executed, deadLettered>>

DeadLetter(c) ==
  /\ deadLettered' = deadLettered \cup {c}
  /\ UNCHANGED <<outcome, executed, announced>>

Decide(c, decision) ==
  /\ outcome[c] = "open"
  /\ outcome' = [outcome EXCEPT ![c] = decision]
  /\ UNCHANGED <<executed, announced, deadLettered>>

Accept(c) == c \in announced /\ Decide(c, "accepted")

Reject(c) == c \in deadLettered /\ Decide(c, "rejected")

\* The delivery limit is reached with no decision.
Drop(c) == Decide(c, "dropped")

Next ==
  \E c \in Commands : \/ Execute(c) \/ Announce(c) \/ DeadLetter(c)
                      \/ Accept(c) \/ Reject(c) \/ Drop(c)

Spec == Init /\ [][Next]_vars
=============================================================================
