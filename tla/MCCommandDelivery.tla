------------------------- MODULE MCCommandDelivery -------------------------
(* Constants of the small instances of CommandDelivery. *)
EXTENDS CommandDelivery

\* A command that never expires, and ones that expire during or after a delivery.
MCExpiries == {NoExpiry, 1, 5}

MCNoExpiry == {NoExpiry}
=============================================================================
