------------------------------- MODULE Actor -------------------------------
(***************************************************************************)
(* The methods of an actor (packages/agent/src/actor.ts).  An update goes  *)
(* through agent.call and is answered by the certificate of the response   *)
(* (v3), by an uncertified reject (v2), or, when the response only says    *)
(* accepted, by pollForResponse: the module Polling, one poll per call.  A *)
(* query goes through agent.query.  The agents are what AgentCall and      *)
(* AgentQuery describe; here they return, throw, or never do.              *)
(***************************************************************************)
EXTENDS Polling

VARIABLES
  kind,      \* of each call: "update" or "query"
  call,      \* where the caller of each method is, or what it got
  response,  \* what agent.call returned: the HTTP status and the body
  executed   \* what the runs of each call ended with: a set

actorVars == <<kind, call, response, executed>>
allVars   == <<vars, actorVars>>

\* The body of a response: a certificate and the status it shows, an
\* uncertified reject, or neither.
Bodies    == [type : {"v3"}, status : Pending \union {"replied", "rejected", "done"}]
               \union [type : {"v2", "none"}, status : {"none"}]
Responses == [http : {200, 202}, body : Bodies]
NoBody    == [type |-> "none", status |-> "none"]
Nothing   == [http |-> 200, body |-> NoBody]

Running  == {"idle", "agent", "verify", "poll", "decode"}
Finished == {"value", "reject", "refused", "threw", "unencodable"}

Ran == {"replied", "rejected"}

ActorInit ==
  /\ Init
  /\ kind \in [Polls -> {"update", "query"}]
  /\ call = [p \in Polls |-> "idle"]
  /\ response = [p \in Polls |-> Nothing]
  /\ executed = [p \in Polls |-> {}]

\* Goes of the caller of p to c; nothing else moves.
Go(p, c) == call' = [call EXCEPT ![p] = c] /\ UNCHANGED <<kind, executed>>

Sent(p) == call[p] \notin {"idle", "unencodable"}

(***************************************************************************)
(* The canister                                                            *)
(***************************************************************************)

\* The update whose request agent.call returns is received and processed, now or
\* long after its caller gave up.
Process(p) ==
  /\ kind[p] = "update" /\ Sent(p)
  /\ Progress(p)
  /\ executed' = [executed EXCEPT ![p] = @ \union ({status'[p]} \intersect Ran)]
  /\ UNCHANGED <<kind, call, response>>

\* A replica evaluates a query, which the agent may send many times; or the
\* network runs another request of the same update, which the agent made when it
\* fell back to v2 or called itself again after a synchronisation.
Evaluate(p) ==
  /\ Sent(p)
  /\ \E r \in Ran : executed' = [executed EXCEPT ![p] = @ \union {r}]
  /\ UNCHANGED <<vars, kind, call, response>>

(***************************************************************************)
(* The method                                                              *)
(***************************************************************************)

\* The caller writes the options of the call, with a strategy in them.
Prepare(p) == call[p] = "idle" /\ Make(p) /\ UNCHANGED actorVars

\* Encode the arguments and hand the call to the agent.
Invoke(p) ==
  /\ call[p] = "idle" /\ now <= MaxStart
  /\ Go(p, "agent") \/ Go(p, "unencodable")
  /\ UNCHANGED <<vars, response>>

\* The agent throws: the request may have been lost, or only its answer.
AgentThrows(p) ==
  /\ call[p] = "agent"
  /\ Go(p, "threw") /\ UNCHANGED <<vars, response>>

\* agent.query returns what a replica answered.
QueryReturns(p) ==
  /\ kind[p] = "query" /\ call[p] = "agent"
  /\ \/ "replied"  \in executed[p] /\ Go(p, "decode")
     \/ "rejected" \in executed[p] /\ Go(p, "reject")
  /\ UNCHANGED <<vars, response>>

\* The bodies an update may be answered with.
BodiesFor(p) ==
  {NoBody, [NoBody EXCEPT !.type = "v2"]}
    \union {[type |-> "v3", status |-> s] : s \in Reported(p)}

\* agent.call returns.  The certificate is verified first; an uncertified
\* reject is thrown as a RejectError too; without either the HTTP status decides.
CallReturns(p) ==
  /\ kind[p] = "update" /\ call[p] = "agent" /\ now <= MaxStart
  /\ \E r \in [http : {200, 202}, body : BodiesFor(p)] :
       /\ response' = [response EXCEPT ![p] = r]
       /\ \/ r.body.type = "v3" /\ Go(p, "verify") /\ UNCHANGED vars
          \/ r.body.type = "v2" /\ Go(p, "refused") /\ UNCHANGED vars
          \/ r.body.type = "none" /\ r.http = 202 /\ Start(p) /\ Go(p, "poll")
          \/ r.body.type = "none" /\ r.http = 200 /\ Go(p, "threw") /\ UNCHANGED vars

\* The agent has no root key, the certificate does not verify, or the clock
\* could not be synchronised.
VerifyFails(p) ==
  /\ call[p] = "verify"
  /\ Go(p, "threw") /\ UNCHANGED <<vars, response>>

\* Mutant: whatever is not a reject is taken for a reply.
VerifiedUnlessRejected(p) ==
  /\ call[p] = "verify"
  /\ \/ response[p].body.status = "rejected" /\ Go(p, "reject") /\ UNCHANGED vars
     \/ response[p].body.status # "rejected" /\ Go(p, "decode") /\ UNCHANGED vars
  /\ UNCHANGED response

\* The certificate verified and shows a status.  A certified reject is thrown.
\* After an HTTP 202 the call is polled for, even when the reply is there; any
\* other status without a reply is an error.
Verified(p) ==
  LET s    == response[p].body.status
      poll == response[p].http = 202
  IN  /\ call[p] = "verify"
      /\ \/ s = "rejected" /\ Go(p, "reject") /\ UNCHANGED vars
         \/ s # "rejected" /\ poll /\ Start(p) /\ Go(p, "poll")
         \/ s = "replied" /\ ~poll /\ Go(p, "decode") /\ UNCHANGED vars
         \/ s \notin {"replied", "rejected"} /\ ~poll /\ Go(p, "threw") /\ UNCHANGED vars
      /\ UNCHANGED response

\* A step of pollForResponse, which the method awaits.
Poll(p) == call[p] = "poll" /\ PollStep(p) /\ UNCHANGED actorVars

\* pollForResponse returns the reply, or throws the reject or its own error.
PollReturns(p) ==
  /\ call[p] = "poll"
  /\ \/ pc[p] = "replied"  /\ Go(p, "decode")
     \/ pc[p] = "rejected" /\ Go(p, "reject")
     \/ pc[p] \in {"noReply", "timeout", "failed"} /\ Go(p, "threw")
  /\ UNCHANGED <<vars, response>>

\* decodeReturnValue: the reply may be of other types than the interface says.
Decode(p) ==
  /\ call[p] = "decode"
  /\ Go(p, "value") \/ Go(p, "threw")
  /\ UNCHANGED <<vars, response>>

MethodStep(p) ==
  \/ AgentThrows(p) \/ QueryReturns(p) \/ CallReturns(p) \/ VerifyFails(p)
  \/ Verified(p) \/ Poll(p) \/ PollReturns(p) \/ Decode(p)

ActorNext ==
  \/ Tick /\ UNCHANGED actorVars
  \/ \E p \in Polls : Prepare(p) \/ Invoke(p) \/ Process(p) \/ Evaluate(p) \/ MethodStep(p)

ActorSpec == ActorInit /\ [][ActorNext]_allVars

\* What the method does without the agent: its timers, and the code after them.
OwnStep(p) ==
  \/ call[p] = "poll" /\ (DelayOver(p) \/ BackoffOver(p)) /\ UNCHANGED actorVars
  \/ PollReturns(p) \/ Decode(p)

\* The promises of the agent and of the identity that the method waits for: the
\* call or query, the verification of a certificate, the signature of a
\* read_state request, and its answer.
AwaitsAgent(p) ==
  \/ call[p] \in {"agent", "verify"}
  \/ call[p] = "poll" /\ pc[p] \in {"sign", "read"}

\* Time passes and timers fire.  Nothing is assumed of the canister, nor that
\* the agent settles what it promised: a synchronisation that finds no time may
\* repeat for ever inside agent.call and inside Certificate.verify.
ActorFairSpec ==
  ActorSpec /\ WF_allVars(Tick /\ UNCHANGED actorVars)
            /\ \A p \in Polls : WF_allVars(OwnStep(p))

(***************************************************************************)
(* What the caller may rely on                                             *)
(***************************************************************************)

OutcomeOf(c) ==
  CASE c \in {"value", "reject", "refused"} -> c
    [] c \in {"threw", "unencodable"}   -> "error"
    [] OTHER                            -> "none"

Promise == INSTANCE Call WITH
  Calls   <- Polls,
  asked   <- {p \in Polls : Sent(p)},
  results <- executed,
  outcome <- [p \in Polls |-> OutcomeOf(call[p])]

\* Types of the method's own state; a call polls only after a response that
\* was accepted without a certified reject.
ActorTypeOK ==
  /\ TypeOK
  /\ kind \in [Polls -> {"update", "query"}]
  /\ call \in [Polls -> Running \union Finished]
  /\ response \in [Polls -> Responses]
  /\ executed \in [Polls -> SUBSET Ran]

\* An actor method implements the abstract call: it returns a value only when
\* some run of the call replied, a reject only when one rejected or, uncertified,
\* when a replica refused a call that was sent, and its outcome is final,
\* whichever way the answer came and however often the call ran.
KeepsPromise == Promise!Spec

\* Every call that left the caller settles, whatever the canister does, with two
\* exceptions: one promise of the agent stays open, or the call is polled for
\* without options.strategy, which polls on for ever.
CallsSettle ==
  \A p \in Polls :
    \/ Sent(p) ~> call[p] \in Finished
    \/ <>[]AwaitsAgent(p)
    \/ options[p].strategy = "none" /\ []<>(pc[p] = "backoff")
=============================================================================
