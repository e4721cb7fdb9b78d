-------------------------------- MODULE Call --------------------------------
(***************************************************************************)
(* What a method of an actor promises its caller.  The call runs only if   *)
(* it was sent, but perhaps several times: the agent repeats queries, and  *)
(* sends an update again as a new request.  A value is returned only when  *)
(* a run replied, a certified or signed reject is thrown only when a run   *)
(* rejected.  An uncertified refusal of an update and an error say nothing *)
(* of the canister: the call may have run, or may still run afterwards.    *)
(***************************************************************************)
CONSTANT Calls

VARIABLES
  asked,    \* the calls that left the caller
  results,  \* what the runs of each call ended with
  outcome   \* what the caller got

callVars == <<asked, results, outcome>>

Results == {"replied", "rejected"}

Init ==
  /\ asked = {}
  /\ results = [c \in Calls |-> {}]
  /\ outcome = [c \in Calls |-> "none"]

Ask(c) ==
  /\ c \notin asked /\ outcome[c] = "none"
  /\ asked' = asked \union {c}
  /\ UNCHANGED <<results, outcome>>

\* The canister runs the call, whether or not the caller still waits.
Execute(c) ==
  /\ c \in asked
  /\ \E r \in Results : results' = [results EXCEPT ![c] = @ \union {r}]
  /\ UNCHANGED <<asked, outcome>>

\* The caller learns what a run of the canister did, and never anything else.
Answer(c) ==
  /\ outcome[c] = "none"
  /\ \/ "replied"  \in results[c] /\ outcome' = [outcome EXCEPT ![c] = "value"]
     \/ "rejected" \in results[c] /\ outcome' = [outcome EXCEPT ![c] = "reject"]
  /\ UNCHANGED <<asked, results>>

\* One replica refuses a call that was sent.
Refuse(c) ==
  /\ c \in asked /\ outcome[c] = "none"
  /\ outcome' = [outcome EXCEPT ![c] = "refused"]
  /\ UNCHANGED <<asked, results>>

\* An error, before or after the call was sent.
GiveUp(c) ==
  /\ outcome[c] = "none"
  /\ outcome' = [outcome EXCEPT ![c] = "error"]
  /\ UNCHANGED <<asked, results>>

Next == \E c \in Calls : Ask(c) \/ Execute(c) \/ Answer(c) \/ Refuse(c) \/ GiveUp(c)

Spec == Init /\ [][Next]_callVars
=============================================================================
