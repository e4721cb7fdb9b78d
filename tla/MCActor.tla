------------------------------ MODULE MCActor ------------------------------
(* Constants of the run of Actor.                                           *)
EXTENDS Actor

AnyStrategy == {"own", "shared", "none"}
\* A caller cannot sign a read_state request for a call it has not made yet.
NeverGiven == {FALSE}
=============================================================================
