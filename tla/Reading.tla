------------------------------ MODULE Reading ------------------------------
(***************************************************************************)
(* What the algorithms over documents share: a document is read piece by   *)
(* piece, and the state of the algorithm that reads it is kept beside it.  *)
(* StreamRules, PlanRules, ReleaseGates and StartupRules give the pieces   *)
(* and the steps; Documents puts them together.                            *)
(***************************************************************************)
EXTENDS Integers, Sequences, FiniteSets, Functions

CONSTANT MaxLen(_)  \* the length to which a document of a subject grows

VARIABLES
  subject,   \* which algorithm is followed
  document,  \* what it is given: the pieces read so far, or its settings
  state      \* its local variables

vars == <<subject, document, state>>

\* One piece is read, which leaves the algorithm with this result.
Take(piece, result) ==
  /\ Len(document) < MaxLen(subject)
  /\ document' = Append(document, piece)
  /\ state' = result
  /\ UNCHANGED subject

\* The algorithm goes on with what it has.
Compute(result) == state' = result /\ UNCHANGED <<subject, document>>

-----------------------------------------------------------------------------

\* The last of some places, 0 if there is none.
Last(places) ==
  IF places = {} THEN 0 ELSE CHOOSE i \in places : \A j \in places : j <= i

\* The first of some places, of which there is one.
First(places) == CHOOSE i \in places : \A j \in places : i <= j

\* At these places a list has these pieces of a document, each once and in
\* their order.  A piece is known by its place "pos" in the document.
Kept(list, places, pieces) ==
  /\ {list[k] : k \in places} = pieces
  /\ \A j, k \in places : j < k => list[j].pos < list[k].pos
=============================================================================
