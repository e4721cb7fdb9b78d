---------------------------- MODULE MCAuthLogin ----------------------------
(* Environments of the run of AuthLogin.                                   *)
EXTENDS AuthLogin

OneAtATime ==
  [overlap |-> FALSE, retry |-> TRUE, blocked |-> FALSE, faults |-> TRUE]
Anything == [overlap |-> TRUE, retry |-> TRUE, blocked |-> TRUE, faults |-> TRUE]
Both     == {OneAtATime, Anything}
=============================================================================
