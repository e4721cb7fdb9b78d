----------------------------- MODULE MCAuthPage -----------------------------
(* Constants of the run of AuthPage: one page, in several environments.    *)
EXTENDS AuthPage

OnePage == {"page"}

\* Anything but a login after the page's logout.
Harsh ==
  [legacy |-> TRUE, loginWhen |-> LogoutStages \ {"done"}, faults |-> TRUE]
\* The store is empty and refuses nothing, and the user logs in once per page, or again and again.
Undisturbed ==
  [legacy |-> FALSE, loginWhen |-> {"none"}, faults |-> FALSE]
Repeated == [Undisturbed EXCEPT !.loginWhen = LogoutStages]

EveryEnvironment == {Harsh, Undisturbed, Repeated}
HookEnvironments == {Undisturbed, Repeated}
=============================================================================
