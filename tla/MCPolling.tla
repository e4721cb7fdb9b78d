----------------------------- MODULE MCPolling -----------------------------
(* Constants of the run of Polling.                                         *)
EXTENDS Polling

SharedStrategy == {"shared"}
NotGiven       == {FALSE}
=============================================================================
