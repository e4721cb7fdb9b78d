--------------------------- MODULE MCAuthSession ---------------------------
(* Constants of the run of AuthSession: one page with an old session.      *)
EXTENDS AuthSession

OnePage == {"page"}

Migration ==
  {[legacy |-> TRUE, loginWhen |-> {"none"}, faults |-> FALSE]}
=============================================================================
