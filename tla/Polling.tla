------------------------------ MODULE Polling ------------------------------
(***************************************************************************)
(* Polling read_state for the outcome of an accepted update call           *)
(* (packages/agent/src/polling/index.ts) under the default strategy        *)
(* (polling/strategy.ts): once a delay, then a backoff, then a timeout.    *)
(* A strategy is an object with state, and its timeout counts from the     *)
(* moment it is made.  Depending on the options the caller made it for one *)
(* call, with the options and so before the poll begins; or every poll of  *)
(* the program shares it (DEFAULT_POLLING_OPTIONS, made when the module is *)
(* loaded); or every iteration makes a new one (options.strategy           *)
(* undefined, as in {preSignReadStateRequest: true}).                      *)
(***************************************************************************)
EXTENDS Integers, FiniteSets

CONSTANTS
  Polls,        \* calls of pollForResponse
  Shared,       \* names the strategy of DEFAULT_POLLING_OPTIONS
  Strategies,   \* where strategies come from: "own", "shared", "none"
  Given,        \* whether callers may pass options.request
  Timeout,      \* of the strategy: five minutes
  FirstDelay,   \* conditionalDelay(once(), FirstDelay)
  Throttle,     \* backoff(Throttle, ...)
  MaxThrottle,  \* bound: the backoff stops growing here
  Lifetime,     \* of a signed read_state request
  MaxStart,     \* bound: the last time a poll starts
  MaxTime       \* bound: the clock stops here, and timers fire

ASSUME PollingAssumption ==
  /\ Shared \notin Polls
  /\ Strategies \subseteq {"own", "shared", "none"}
  /\ Given \subseteq BOOLEAN
  /\ Timeout \in Nat /\ FirstDelay \in Nat /\ Throttle \in Nat /\ MaxThrottle \in Nat
  /\ Lifetime \in Nat /\ MaxStart \in Nat /\ MaxTime \in Nat

VARIABLES
  now,        \* Date.now()
  options,    \* of each poll: [strategy, preSign, given]
  strategy,   \* the strategy objects: [made, first, throttle, end]
  pc,         \* where each poll is suspended, or its outcome
  started,    \* when each poll was called
  polledAt,   \* when its current iteration began
  ended,      \* when it ended
  request,    \* expiry of the signed request carried to the next iteration
  current,    \* expiry of the request of this iteration
  sentAt,     \* when the request of this iteration was sent
  signatures, \* read_state requests signed for each poll
  wake,       \* when the timer of each poll fires
  status      \* status of each update call in the newest state

pollVars == <<pc, started, polledAt, ended, request, current, sentAt,
              signatures, wake>>
vars == <<now, options, strategy, pollVars, status>>

Pending  == {"unknown", "received", "processing"}
Outcomes == {"replied", "rejected", "noReply", "timeout", "failed"}
PCs      == {"idle", "sign", "read", "delay", "backoff"} \union Outcomes

None == -1    \* no signed request

Several == 2  \* bound: signatures of a poll are counted up to here

\* Statuses a request goes through; a replied one is pruned to done.
Follows(s) ==
  CASE s = "unknown"    -> {"received"}
    [] s = "received"   -> {"processing"}
    [] s = "processing" -> {"replied", "rejected"}
    [] s = "replied"    -> {"done"}
    [] s = "rejected"   -> {"done"}
    [] OTHER            -> {}

\* What a replica that lags behind may still report: nothing it reports is
\* ahead of the newest state.
Reported(p) ==
  CASE status[p] = "unknown"    -> {"unknown"}
    [] status[p] = "received"   -> {"unknown", "received"}
    [] status[p] = "processing" -> Pending
    [] OTHER                    -> Pending \union {status[p]}

Earlier(a, b) == IF a < b THEN a ELSE b

\* A timer set for d from now.
Timer(d) == Earlier(now + d, MaxTime)

\* Mutant: the timeout counts from the end of the first delay.
DefaultStrategyLate(t) ==
  [made |-> t, first |-> TRUE, throttle |-> Throttle, end |-> t + FirstDelay + Timeout]

\* defaultStrategy(), called at t: timeout() reads the clock once, here.
DefaultStrategy(t) ==
  [made |-> t, first |-> TRUE, throttle |-> Throttle, end |-> t + Timeout]

StrategyOf(p) == IF options[p].strategy = "shared" THEN Shared ELSE p

Init ==
  /\ now = 0
  /\ options \in [Polls -> [strategy : Strategies, preSign : BOOLEAN, given : Given]]
  /\ strategy = [s \in Polls \union {Shared} |-> DefaultStrategy(0)]
  /\ pc = [p \in Polls |-> "idle"]
  /\ started = [p \in Polls |-> 0] /\ polledAt = [p \in Polls |-> 0]
  /\ ended = [p \in Polls |-> 0]
  /\ request = [p \in Polls |-> None] /\ current = [p \in Polls |-> None]
  /\ sentAt = [p \in Polls |-> 0]
  /\ signatures = [p \in Polls |-> 0]
  /\ wake = [p \in Polls |-> 0]
  /\ status = [p \in Polls |-> "unknown"]

Tick ==
  /\ now < MaxTime
  /\ now' = now + 1
  /\ UNCHANGED <<options, strategy, pollVars, status>>

\* The replicas make progress with the update call.
Progress(p) ==
  /\ \E s \in Follows(status[p]) : status' = [status EXCEPT ![p] = s]
  /\ UNCHANGED <<now, options, strategy, pollVars>>

(***************************************************************************)
(* pollForResponse                                                         *)
(***************************************************************************)

\* The caller makes a strategy for the call, with the options of the call.
Make(p) ==
  /\ pc[p] = "idle" /\ options[p].strategy = "own" /\ now <= MaxStart
  /\ strategy' = [strategy EXCEPT ![p] = DefaultStrategy(now)]
  /\ UNCHANGED <<now, options, pollVars, status>>

\* Called with a strategy of its own, with the shared one, or with none.  A
\* request the caller passes is one it signed just before.
Start(p) ==
  /\ pc[p] = "idle" /\ now <= MaxStart
  /\ pc' = [pc EXCEPT ![p] = "sign"]
  /\ started' = [started EXCEPT ![p] = now]
  /\ polledAt' = [polledAt EXCEPT ![p] = now]
  /\ request' = [request EXCEPT ![p] = IF options[p].given THEN now + Lifetime ELSE None]
  /\ UNCHANGED <<now, options, strategy, ended, current, sentAt, signatures, wake, status>>

Send(p, expiry) ==
  /\ pc' = [pc EXCEPT ![p] = "read"]
  /\ current' = [current EXCEPT ![p] = expiry]
  /\ sentAt' = [sentAt EXCEPT ![p] = now]
  /\ UNCHANGED <<now, options, strategy, started, polledAt, ended, request, wake,
                 status>>

\* constructRequest returns the request of the options as it is.
Reuse(p) ==
  /\ pc[p] = "sign" /\ options[p].preSign /\ request[p] # None
  /\ Send(p, request[p])
  /\ UNCHANGED signatures

\* A new request is signed: the first one of a pre-signed poll, or the one
\* readState makes for this iteration.
Sign(p) ==
  /\ pc[p] = "sign" /\ ~(options[p].preSign /\ request[p] # None)
  /\ Send(p, now + Lifetime)
  /\ signatures' = [signatures EXCEPT ![p] = Earlier(@ + 1, Several)]

End(p, outcome) ==
  /\ pc' = [pc EXCEPT ![p] = outcome]
  /\ ended' = [ended EXCEPT ![p] = now]
  /\ UNCHANGED <<now, options, started, polledAt, request, current, sentAt,
                 signatures, wake, status>>

\* The identity refuses to sign, or no identity is left.
SignFails(p) ==
  /\ pc[p] = "sign" /\ ~(options[p].preSign /\ request[p] # None)
  /\ End(p, "failed") /\ UNCHANGED strategy

\* read_state throws after its own retries, the certificate does not verify,
\* or the request expired on the way.
ReadFails(p) ==
  /\ pc[p] = "read"
  /\ End(p, "failed") /\ UNCHANGED strategy

\* A certificate with the status s; a replica serves no expired request.
Answered(p, s) ==
  /\ pc[p] = "read" /\ sentAt[p] < current[p]
  /\ s \in Reported(p)

ReadOutcome(p) ==
  /\ \/ Answered(p, "replied")  /\ End(p, "replied")
     \/ Answered(p, "rejected") /\ End(p, "rejected")
     \/ Answered(p, "done")     /\ End(p, "noReply")
  /\ UNCHANGED strategy

\* Mutant: the request is not passed to the next iteration.
ReadPendingForget(p) ==
  LET old == strategy[StrategyOf(p)]
      st  == IF options[p].strategy = "none" THEN DefaultStrategy(now) ELSE old
  IN  /\ \E s \in Pending : Answered(p, s)
      /\ strategy' = [strategy EXCEPT ![StrategyOf(p)] = [st EXCEPT !.first = FALSE]]
      /\ pc' = [pc EXCEPT ![p] = IF st.first THEN "delay" ELSE "backoff"]
      /\ wake' = [wake EXCEPT ![p] = Timer(IF st.first THEN FirstDelay ELSE st.throttle)]
      /\ request' = [request EXCEPT ![p] = None]
      /\ UNCHANGED <<now, options, started, polledAt, ended, current, sentAt,
                     signatures, status>>

\* Not there yet: run the strategy.  conditionalDelay(once()) comes first, and
\* the once of a shared strategy is used up by the first poll that gets here.
ReadPending(p) ==
  LET old == strategy[StrategyOf(p)]
      st  == IF options[p].strategy = "none" THEN DefaultStrategy(now) ELSE old
  IN  /\ \E s \in Pending : Answered(p, s)
      /\ strategy' = [strategy EXCEPT ![StrategyOf(p)] = [st EXCEPT !.first = FALSE]]
      /\ \/ /\ st.first
            /\ pc' = [pc EXCEPT ![p] = "delay"]
            /\ wake' = [wake EXCEPT ![p] = Timer(FirstDelay)]
         \/ /\ ~st.first
            /\ pc' = [pc EXCEPT ![p] = "backoff"]
            /\ wake' = [wake EXCEPT ![p] = Timer(st.throttle)]
      /\ request' = [request EXCEPT ![p] = IF options[p].preSign THEN current[p] ELSE None]
      /\ UNCHANGED <<now, options, started, polledAt, ended, current, sentAt,
                     signatures, status>>

\* The first delay is over: the backoff starts.
DelayOver(p) ==
  /\ pc[p] = "delay" /\ now >= wake[p]
  /\ pc' = [pc EXCEPT ![p] = "backoff"]
  /\ wake' = [wake EXCEPT ![p] = Timer(strategy[StrategyOf(p)].throttle)]
  /\ UNCHANGED <<now, options, strategy, started, polledAt, ended, request, current,
                 sentAt, signatures, status>>

\* Mutant: the timeout is checked with the wrong comparison.
BackoffOverEager(p) ==
  LET s == StrategyOf(p)
  IN  /\ pc[p] = "backoff" /\ now >= wake[p]
      /\ strategy' = [strategy EXCEPT ![s].throttle = Earlier(@ + 1, MaxThrottle)]
      /\ \/ now >= strategy[s].end /\ End(p, "timeout")
         \/ /\ now < strategy[s].end
            /\ pc' = [pc EXCEPT ![p] = "sign"]
            /\ polledAt' = [polledAt EXCEPT ![p] = now]
            /\ UNCHANGED <<now, options, started, ended, request, current, sentAt,
                           signatures, wake, status>>

\* Mutant: the timeout is never checked.
BackoffOverEndless(p) ==
  LET s == StrategyOf(p)
  IN  /\ pc[p] = "backoff" /\ now >= wake[p]
      /\ strategy' = [strategy EXCEPT ![s].throttle = Earlier(@ + 1, MaxThrottle)]
      /\ pc' = [pc EXCEPT ![p] = "sign"]
      /\ polledAt' = [polledAt EXCEPT ![p] = now]
      /\ UNCHANGED <<now, options, started, ended, request, current, sentAt,
                     signatures, wake, status>>

\* The backoff is over and grows; then the timeout is checked, and the poll
\* throws or calls itself again.
BackoffOver(p) ==
  LET s == StrategyOf(p)
  IN  /\ pc[p] = "backoff" /\ now >= wake[p]
      /\ strategy' = [strategy EXCEPT ![s].throttle = Earlier(@ + 1, MaxThrottle)]
      /\ \/ now > strategy[s].end /\ End(p, "timeout")
         \/ /\ now <= strategy[s].end
            /\ pc' = [pc EXCEPT ![p] = "sign"]
            /\ polledAt' = [polledAt EXCEPT ![p] = now]
            /\ UNCHANGED <<now, options, started, ended, request, current, sentAt,
                           signatures, wake, status>>

PollStep(p) ==
  \/ Reuse(p) \/ Sign(p) \/ SignFails(p) \/ ReadFails(p) \/ ReadOutcome(p)
  \/ ReadPending(p) \/ DelayOver(p) \/ BackoffOver(p)

Next == Tick \/ \E p \in Polls : Progress(p) \/ Make(p) \/ Start(p) \/ PollStep(p)

Spec == Init /\ [][Next]_vars

(***************************************************************************)
(* Properties                                                              *)
(***************************************************************************)

\* Types; what a poll sends is a signed request with an expiry.
TypeOK ==
  /\ now \in Nat
  /\ options \in [Polls -> [strategy : Strategies, preSign : BOOLEAN, given : Given]]
  /\ strategy \in [Polls \union {Shared} ->
                    [made : Nat, first : BOOLEAN, throttle : Nat, end : Nat]]
  /\ pc \in [Polls -> PCs]
  /\ started \in [Polls -> Nat] /\ polledAt \in [Polls -> Nat] /\ ended \in [Polls -> Nat]
  /\ request \in [Polls -> Nat \union {None}] /\ current \in [Polls -> Nat \union {None}]
  /\ sentAt \in [Polls -> Nat] /\ signatures \in [Polls -> Nat] /\ wake \in [Polls -> Nat]
  /\ status \in [Polls -> Pending \union {"replied", "rejected", "done"}]
  /\ \A p \in Polls : pc[p] = "read" => current[p] # None

\* A poll times out only when its own call is older than the timeout: what the
\* comment of defaultStrategy says of it.  It fails for a strategy that is older
\* than the poll.
NoEarlyTimeout == \A p \in Polls : pc[p] = "timeout" => ended[p] > started[p] + Timeout

\* What holds instead, whoever else uses the strategy meanwhile: a poll times out
\* only when its strategy is older than the timeout.  Without options.strategy
\* that is the strategy of the last iteration: only timers that fire so late that
\* one wait outlasts the timeout can end such a poll.
TimesOutByAge ==
  \A p \in Polls : pc[p] = "timeout" => ended[p] > strategy[StrategyOf(p)].made + Timeout

\* The first iteration is made however old the strategy is; no other begins later
\* than the timeout after the strategy was made.
NoLatePoll ==
  \A p \in Polls : pc[p] # "idle" =>
    \/ polledAt[p] = started[p]
    \/ polledAt[p] <= strategy[StrategyOf(p)].made + Timeout

\* With preSignReadStateRequest one signature serves all iterations.
OneSignature == \A p \in Polls : options[p].preSign => signatures[p] <= 1
=============================================================================
