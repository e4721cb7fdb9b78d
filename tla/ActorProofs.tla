---------------------------- MODULE ActorProofs ----------------------------
(***************************************************************************)
(* Theorems about Polling, for every number of polls and every timeout,    *)
(* and about Actor, for every number of calls: a method of an actor drives *)
(* its poll as Polling says, and implements the abstract Call.             *)
(***************************************************************************)
EXTENDS Actor, TLAPS


Strategy == [made : Nat, first : BOOLEAN, throttle : Nat, end : Nat]

-----------------------------------------------------------------------------
(* Strategy objects *)

LEMMA NewStrategy ==
  ASSUME NEW t \in Nat
  PROVE  /\ DefaultStrategy(t) \in Strategy
         /\ DefaultStrategy(t).made = t /\ DefaultStrategy(t).end = t + Timeout
<1>1. t + Timeout \in Nat /\ Throttle \in Nat
  BY PollingAssumption
<1>2. [made |-> t, first |-> TRUE, throttle |-> Throttle, end |-> t + Timeout] \in Strategy
  <2>1. \A m, th, e \in Nat :
          [made |-> m, first |-> TRUE, throttle |-> th, end |-> e] \in Strategy
    BY Zenon DEF Strategy
  <2> QED
    BY <1>1, <2>1
<1> QED
  BY <1>2 DEF DefaultStrategy

LEMMA UsedStrategy ==
  ASSUME NEW st \in Strategy
  PROVE  /\ [st EXCEPT !.first = FALSE] \in Strategy
         /\ [st EXCEPT !.first = FALSE].end = st.end
         /\ [st EXCEPT !.first = FALSE].made = st.made
BY DEF Strategy

LEMMA GrownStrategy ==
  ASSUME NEW st \in Strategy
  PROVE  /\ [st EXCEPT !.throttle = Earlier(@ + 1, MaxThrottle)] \in Strategy
         /\ [st EXCEPT !.throttle = Earlier(@ + 1, MaxThrottle)].end = st.end
         /\ [st EXCEPT !.throttle = Earlier(@ + 1, MaxThrottle)].made = st.made
BY PollingAssumption DEF Strategy, Earlier

-----------------------------------------------------------------------------
(* Types *)

\* A pre-signed poll that waits carries the request it signed.
TypeInv ==
  /\ TypeOK
  /\ \A p \in Polls :
       pc[p] \in {"delay", "backoff"} => current[p] # None

LEMMA StrategyOfType ==
  ASSUME NEW p \in Polls PROVE StrategyOf(p) \in Polls \union {Shared}
BY DEF StrategyOf

LEMMA EndType ==
  ASSUME TypeInv, NEW p \in Polls, NEW outcome \in Outcomes, End(p, outcome),
         strategy' \in [Polls \union {Shared} -> Strategy]
  PROVE  TypeInv'
<1>1. pc' \in [Polls -> PCs] /\ ended' \in [Polls -> Nat]
  BY DEF End, TypeInv, TypeOK, PCs
<1>2. \A r \in Polls : pc'[r] \in {"read", "delay", "backoff"} => pc'[r] = pc[r]
  BY DEF End, TypeInv, TypeOK, Outcomes
<1> QED
  BY <1>1, <1>2 DEF End, TypeInv, TypeOK, Strategy

LEMMA SendType ==
  ASSUME TypeInv, NEW p \in Polls, NEW expiry \in Nat, Send(p, expiry),
         signatures' \in [Polls -> Nat]
  PROVE  TypeInv'
<1>1. /\ pc' \in [Polls -> PCs] /\ sentAt' \in [Polls -> Nat]
      /\ current' \in [Polls -> Nat \union {None}]
  BY DEF Send, TypeInv, TypeOK, PCs
<1>2. \A r \in Polls : pc'[r] \in {"read", "delay", "backoff"} => current'[r] # None
  BY DEF Send, TypeInv, TypeOK, None
<1> QED
  BY <1>1, <1>2 DEF Send, TypeInv, TypeOK

LEMMA TypeStep == TypeInv /\ [Next]_vars => TypeInv'
<1> SUFFICES ASSUME TypeInv, [Next]_vars PROVE TypeInv'
  OBVIOUS
<1> USE PollingAssumption
<1>0. /\ now \in Nat /\ strategy \in [Polls \union {Shared} -> Strategy]
      /\ \A n \in Nat : Timer(n) \in Nat
      /\ now + Lifetime \in Nat
  BY DEF TypeInv, TypeOK, Strategy, Timer, Earlier
<1>1. CASE Tick \/ UNCHANGED vars
  BY <1>1 DEF Tick, vars, pollVars, TypeInv, TypeOK
<1>2. ASSUME NEW p \in Polls, Progress(p) PROVE TypeInv'
  BY <1>2 DEF Progress, Follows, Pending, pollVars, TypeInv, TypeOK
<1>3. ASSUME NEW p \in Polls, Start(p) PROVE TypeInv'
  BY <1>0, <1>3 DEF Start, TypeInv, TypeOK, PCs
<1>9. ASSUME NEW p \in Polls, Make(p) PROVE TypeInv'
  <2>1. strategy' \in [Polls \union {Shared} -> Strategy]
    BY <1>0, <1>9, NewStrategy DEF Make
  <2> QED
    BY <1>9, <2>1 DEF Make, pollVars, TypeInv, TypeOK, Strategy
<1>4. ASSUME NEW p \in Polls, Reuse(p) \/ Sign(p) PROVE TypeInv'
  <2>1. signatures' \in [Polls -> Nat]
    BY <1>4 DEF Reuse, Sign, TypeInv, TypeOK, Earlier, Several
  <2>2. \E expiry \in Nat : Send(p, expiry)
    BY <1>0, <1>4 DEF Reuse, Sign, TypeInv, TypeOK
  <2> QED
    BY <2>1, <2>2, SendType
<1>5. ASSUME NEW p \in Polls, SignFails(p) \/ ReadFails(p) \/ ReadOutcome(p) PROVE TypeInv'
  <2>1. \E outcome \in Outcomes : End(p, outcome)
    BY <1>5 DEF SignFails, ReadFails, ReadOutcome, Outcomes
  <2>2. UNCHANGED strategy
    BY <1>5 DEF SignFails, ReadFails, ReadOutcome
  <2> QED
    BY <1>0, <2>1, <2>2, EndType
<1>6. ASSUME NEW p \in Polls, ReadPending(p) PROVE TypeInv'
  <2> DEFINE st == IF options[p].strategy = "none" THEN DefaultStrategy(now)
                     ELSE strategy[StrategyOf(p)]
             used == [st EXCEPT !.first = FALSE]
  <2>1. st \in Strategy
    BY <1>0, NewStrategy, StrategyOfType
  <2>2. used \in Strategy /\ st.throttle \in Nat
    BY <2>1, UsedStrategy DEF Strategy
  <2>3. strategy' = [strategy EXCEPT ![StrategyOf(p)] = used]
    BY <1>6 DEF ReadPending
  <2>4. strategy' \in [Polls \union {Shared} -> Strategy]
    BY <1>0, <2>2, <2>3, StrategyOfType
  <2>5. wake' \in [Polls -> Nat] /\ pc' \in [Polls -> PCs]
    <3>1. \/ pc' = [pc EXCEPT ![p] = "delay"] /\ wake' = [wake EXCEPT ![p] = Timer(FirstDelay)]
          \/ /\ pc' = [pc EXCEPT ![p] = "backoff"]
             /\ wake' = [wake EXCEPT ![p] = Timer(st.throttle)]
      BY <1>6 DEF ReadPending
    <3>2. Timer(FirstDelay) \in Nat /\ Timer(st.throttle) \in Nat
      BY <1>0, <2>2
    <3>3. \E t \in Nat : wake' = [wake EXCEPT ![p] = t]
      BY <3>1, <3>2
    <3>4. wake' \in [Polls -> Nat]
      BY <3>3 DEF TypeInv, TypeOK
    <3>5. \E c \in PCs : pc' = [pc EXCEPT ![p] = c]
      BY <3>1 DEF PCs
    <3>6. pc' \in [Polls -> PCs]
      BY <3>5 DEF TypeInv, TypeOK
    <3> QED
      BY <3>4, <3>6
  <2>6. \E s \in Pending : Answered(p, s)
    BY <1>6 DEF ReadPending
  <2>7. current[p] # None /\ UNCHANGED current
    BY <1>6, <2>6 DEF ReadPending, Answered, TypeInv, TypeOK
  <2>8. request' \in [Polls -> Nat \union {None}]
    BY <1>6, <2>7 DEF ReadPending, TypeInv, TypeOK
  <2>9. /\ \A r \in Polls : pc'[r] = "read" => current'[r] # None
        /\ \A r \in Polls : pc'[r] \in {"delay", "backoff"} => current'[r] # None
    <3>1. ASSUME NEW r \in Polls, r # p PROVE pc'[r] = pc[r]
      BY <1>6, <3>1 DEF ReadPending, TypeInv, TypeOK
    <3>2. pc'[p] # "read"
      BY <1>6 DEF ReadPending, TypeInv, TypeOK
    <3> QED
      BY <2>7, <3>1, <3>2 DEF TypeInv, TypeOK
  <2>10. UNCHANGED <<now, options, started, polledAt, ended, sentAt, signatures, status>>
    BY <1>6 DEF ReadPending
  <2> QED
    BY <2>4, <2>5, <2>7, <2>8, <2>9, <2>10 DEF TypeInv, TypeOK, Strategy
<1>7. ASSUME NEW p \in Polls, DelayOver(p) PROVE TypeInv'
  <2>1. strategy[StrategyOf(p)].throttle \in Nat
    BY <1>0, StrategyOfType DEF Strategy
  <2> QED
    BY <1>0, <1>7, <2>1 DEF DelayOver, TypeInv, TypeOK, PCs
<1>8. ASSUME NEW p \in Polls, BackoffOver(p) PROVE TypeInv'
  <2> DEFINE s == StrategyOf(p)
             grown == [strategy[s] EXCEPT !.throttle = Earlier(@ + 1, MaxThrottle)]
  <2>1. grown \in Strategy /\ s \in Polls \union {Shared}
    BY <1>0, StrategyOfType, GrownStrategy
  <2>2. strategy' = [strategy EXCEPT ![s] = grown]
    BY <1>8 DEF BackoffOver
  <2>3. strategy' \in [Polls \union {Shared} -> Strategy]
    BY <1>0, <2>1, <2>2
  <2>4. \/ End(p, "timeout")
        \/ /\ pc' = [pc EXCEPT ![p] = "sign"]
           /\ polledAt' = [polledAt EXCEPT ![p] = now]
           /\ UNCHANGED <<now, options, started, ended, request, current, sentAt,
                          signatures, wake, status>>
    BY <1>8 DEF BackoffOver
  <2>5. CASE End(p, "timeout")
    BY <2>3, <2>5, EndType DEF Outcomes
  <2>6. CASE /\ pc' = [pc EXCEPT ![p] = "sign"]
             /\ polledAt' = [polledAt EXCEPT ![p] = now]
             /\ UNCHANGED <<now, options, started, ended, request, current, sentAt,
                            signatures, wake, status>>
    <3>1. pc' \in [Polls -> PCs] /\ polledAt' \in [Polls -> Nat]
      BY <1>0, <2>6 DEF TypeInv, TypeOK, PCs
    <3>2. \A r \in Polls : pc'[r] \in {"read", "delay", "backoff"} => pc'[r] = pc[r]
      BY <2>6 DEF TypeInv, TypeOK
    <3> QED
      BY <2>3, <2>6, <3>1, <3>2 DEF TypeInv, TypeOK, Strategy
  <2> QED
    BY <2>4, <2>5, <2>6
<1> QED
  BY <1>1, <1>2, <1>3, <1>4, <1>5, <1>6, <1>7, <1>8, <1>9 DEF Next, PollStep

LEMMA TypeInit == Init => TypeInv
<1> SUFFICES ASSUME Init PROVE TypeInv
  OBVIOUS
<1>1. strategy \in [Polls \union {Shared} -> Strategy]
  BY NewStrategy DEF Init
<1> QED
  BY <1>1 DEF Init, TypeInv, TypeOK, Strategy, PCs, Pending

\* Every reachable state is well typed, and what a poll sends is signed.
THEOREM TypeCorrect == Spec => []TypeOK
<1>1. TypeInv => TypeOK
  BY DEF TypeInv
<1> QED
  BY <1>1, TypeInit, TypeStep, PTL DEF Spec
-----------------------------------------------------------------------------
(* The timeout of a poll *)

MadeAt(p) == strategy[StrategyOf(p)].made

\* Every strategy ends one timeout after it was made, and no iteration but the
\* first of a poll begins, and no poll times out, on the wrong side of that end.
DeadlineInv ==
  /\ TypeInv
  /\ \A s \in Polls \union {Shared} :
       strategy[s].end = strategy[s].made + Timeout /\ strategy[s].made <= now
  /\ \A p \in Polls :
       /\ pc[p] # "idle" => polledAt[p] = started[p] \/ polledAt[p] <= MadeAt(p) + Timeout
       /\ pc[p] = "timeout" => ended[p] > MadeAt(p) + Timeout

\* A step of a poll that starts no iteration and does not time out, and makes no
\* strategy but one of its own, later than the one it had.
LEMMA DeadlineKept ==
  ASSUME DeadlineInv, TypeInv', NEW p \in Polls,
         pc[p] # "idle",
         \A s \in Polls \union {Shared} :
           strategy'[s].end = strategy'[s].made + Timeout /\ strategy'[s].made <= now,
         \A r \in Polls : r # p => MadeAt(r)' = MadeAt(r),
         MadeAt(p)' >= MadeAt(p),
         \A r \in Polls : r # p => pc'[r] = pc[r] /\ ended'[r] = ended[r],
         pc'[p] # "timeout",
         UNCHANGED <<now, started, polledAt>>
  PROVE  DeadlineInv'
<1>1. /\ polledAt[p] \in Nat /\ MadeAt(p) \in Nat /\ MadeAt(p)' \in Nat /\ Timeout \in Nat
  BY StrategyOfType, PollingAssumption DEF DeadlineInv, TypeInv, TypeOK, MadeAt, StrategyOf
<1>2. polledAt'[p] = started'[p] \/ polledAt'[p] <= MadeAt(p)' + Timeout
  BY <1>1 DEF DeadlineInv
<1>3. ASSUME NEW r \in Polls, r # p
      PROVE  /\ pc'[r] # "idle" =>
                  polledAt'[r] = started'[r] \/ polledAt'[r] <= MadeAt(r)' + Timeout
             /\ pc'[r] = "timeout" => ended'[r] > MadeAt(r)' + Timeout
  BY <1>3 DEF DeadlineInv
<1> QED
  BY <1>2, <1>3 DEF DeadlineInv

LEMMA DeadlineInit == Init => DeadlineInv
<1> SUFFICES ASSUME Init PROVE DeadlineInv
  OBVIOUS
<1>1. \A s \in Polls \union {Shared} : strategy[s] = DefaultStrategy(0)
  BY DEF Init
<1>2. \A s \in Polls \union {Shared} : strategy[s].end = 0 + Timeout /\ strategy[s].made = 0
  BY <1>1, NewStrategy
<1>3. \A p \in Polls : pc[p] = "idle"
  BY DEF Init
<1> QED
  BY <1>2, <1>3, TypeInit, PollingAssumption DEF Init, DeadlineInv

LEMMA DeadlineStep == DeadlineInv /\ [Next]_vars => DeadlineInv'
<1> SUFFICES ASSUME DeadlineInv, [Next]_vars PROVE DeadlineInv'
  OBVIOUS
<1> USE PollingAssumption
<1>0. TypeInv /\ TypeInv'
  BY TypeStep DEF DeadlineInv
<1>1. /\ now \in Nat /\ strategy \in [Polls \union {Shared} -> Strategy]
      /\ started \in [Polls -> Nat] /\ polledAt \in [Polls -> Nat]
      /\ \A p \in Polls : StrategyOf(p) \in Polls \union {Shared} /\ MadeAt(p) \in Nat
  BY <1>0, StrategyOfType DEF TypeInv, TypeOK, Strategy, MadeAt
<1>2. CASE Tick \/ UNCHANGED vars
  <2>1. now' \in Nat /\ now <= now'
    BY <1>1, <1>2 DEF Tick, vars
  <2>2. UNCHANGED <<options, strategy, pollVars>>
    BY <1>2 DEF Tick, vars
  <2>3. \A p \in Polls : MadeAt(p)' = MadeAt(p)
    BY <2>2 DEF MadeAt, StrategyOf
  <2>4. \A s \in Polls \union {Shared} : strategy[s].made <= now'
    BY <1>1, <2>1 DEF DeadlineInv, Strategy
  <2> QED
    BY <1>0, <2>2, <2>3, <2>4 DEF DeadlineInv, pollVars
<1>3. ASSUME NEW p \in Polls, Progress(p) PROVE DeadlineInv'
  <2>1. UNCHANGED <<now, options, strategy, pollVars>>
    BY <1>3 DEF Progress
  <2>2. \A r \in Polls : MadeAt(r)' = MadeAt(r)
    BY <2>1 DEF MadeAt, StrategyOf
  <2> QED
    BY <1>0, <2>1, <2>2 DEF DeadlineInv, pollVars
<1>4. ASSUME NEW p \in Polls, Make(p) PROVE DeadlineInv'
  <2>1. /\ strategy' = [strategy EXCEPT ![p] = DefaultStrategy(now)]
        /\ pc[p] = "idle" /\ options[p].strategy = "own"
        /\ UNCHANGED <<now, options, pollVars>>
    BY <1>4 DEF Make
  <2>2. strategy'[p].made = now /\ strategy'[p].end = now + Timeout
    BY <1>1, <2>1, NewStrategy
  <2>3. \A s \in Polls \union {Shared} : s # p => strategy'[s] = strategy[s]
    BY <1>1, <2>1
  <2>4. \A s \in Polls \union {Shared} :
          strategy'[s].end = strategy'[s].made + Timeout /\ strategy'[s].made <= now
    BY <1>1, <2>2, <2>3 DEF DeadlineInv
  <2>5. \A r \in Polls : r # p => MadeAt(r)' = MadeAt(r)
    BY <2>1, <2>3 DEF MadeAt, StrategyOf
  <2> QED
    BY <1>0, <2>1, <2>4, <2>5 DEF DeadlineInv, pollVars
<1>5. ASSUME NEW p \in Polls, Start(p) PROVE DeadlineInv'
  <2>1. pc'[p] = "sign" /\ started'[p] = now /\ polledAt'[p] = now
    BY <1>0, <1>5 DEF Start, TypeInv, TypeOK
  <2>2. \A r \in Polls : r # p => /\ pc'[r] = pc[r] /\ started'[r] = started[r]
                                /\ polledAt'[r] = polledAt[r]
    BY <1>0, <1>5 DEF Start, TypeInv, TypeOK
  <2>3. UNCHANGED <<now, options, strategy, ended>>
    BY <1>5 DEF Start
  <2>4. \A r \in Polls : MadeAt(r)' = MadeAt(r)
    BY <2>3 DEF MadeAt, StrategyOf
  <2> QED
    BY <1>0, <2>1, <2>2, <2>3, <2>4 DEF DeadlineInv
<1>6. ASSUME NEW p \in Polls, pc[p] # "idle", UNCHANGED <<now, options, started, polledAt>>,
             UNCHANGED strategy,
             \A r \in Polls : r # p => pc'[r] = pc[r] /\ ended'[r] = ended[r],
             pc'[p] # "timeout"
      PROVE  DeadlineInv'
  <2>1. \A r \in Polls : MadeAt(r)' = MadeAt(r)
    BY <1>6 DEF MadeAt, StrategyOf
  <2>2. MadeAt(p)' >= MadeAt(p)
    BY <1>1, <2>1
  <2>3. \A s \in Polls \union {Shared} :
          strategy'[s].end = strategy'[s].made + Timeout /\ strategy'[s].made <= now
    BY <1>6 DEF DeadlineInv
  <2> QED
    BY <1>0, <1>6, <2>1, <2>2, <2>3, DeadlineKept
<1>7. ASSUME NEW p \in Polls, Reuse(p) \/ Sign(p) PROVE DeadlineInv'
  <2>1. /\ pc[p] = "sign" /\ pc' = [pc EXCEPT ![p] = "read"]
        /\ UNCHANGED <<now, options, strategy, started, polledAt, ended>>
    BY <1>7 DEF Reuse, Sign, Send
  <2>2. pc'[p] = "read" /\ \A r \in Polls : r # p => pc'[r] = pc[r]
    BY <1>0, <2>1 DEF TypeInv, TypeOK
  <2> QED
    BY <1>6, <2>1, <2>2
<1>8. ASSUME NEW p \in Polls, SignFails(p) \/ ReadFails(p) \/ ReadOutcome(p)
      PROVE  DeadlineInv'
  <2>1. \E outcome \in {"failed", "replied", "rejected", "noReply"} : End(p, outcome)
    BY <1>8 DEF SignFails, ReadFails, ReadOutcome
  <2>2. UNCHANGED strategy /\ pc[p] \in {"sign", "read"}
    BY <1>8 DEF SignFails, ReadFails, ReadOutcome, Answered
  <2>3. /\ UNCHANGED <<now, options, started, polledAt>>
        /\ \A r \in Polls : r # p => pc'[r] = pc[r] /\ ended'[r] = ended[r]
        /\ pc'[p] # "timeout"
    BY <1>0, <2>1 DEF End, TypeInv, TypeOK
  <2> QED
    BY <1>6, <2>2, <2>3
<1>9. ASSUME NEW p \in Polls, ReadPending(p) PROVE DeadlineInv'
  <2> DEFINE s == StrategyOf(p)
             st == IF options[p].strategy = "none" THEN DefaultStrategy(now) ELSE strategy[s]
             used == [st EXCEPT !.first = FALSE]
  <2>1. /\ strategy' = [strategy EXCEPT ![s] = used]
        /\ pc[p] = "read" /\ UNCHANGED <<now, options, started, polledAt, ended>>
    BY <1>9 DEF ReadPending, Answered
  <2>2. st \in Strategy /\ st.end = st.made + Timeout /\ st.made <= now
    <3>1. CASE options[p].strategy = "none"
      BY <1>1, <3>1, NewStrategy
    <3>2. CASE options[p].strategy # "none"
      BY <1>1, <3>2 DEF DeadlineInv
    <3> QED
      BY <3>1, <3>2
  <2>3. strategy[s].made <= st.made
    <3>1. CASE options[p].strategy = "none"
      BY <1>1, <3>1, NewStrategy DEF DeadlineInv
    <3>2. CASE options[p].strategy # "none"
      BY <1>1, <3>2 DEF MadeAt
    <3> QED
      BY <3>1, <3>2
  <2>4. used.end = st.end /\ used.made = st.made
    BY <2>2, UsedStrategy
  <2>5. strategy'[s] = used /\ \A r \in Polls \union {Shared} : r # s => strategy'[r] = strategy[r]
    <3> HIDE DEF used, s
    <3>1. s \in Polls \union {Shared}
      BY <1>1 DEF s
    <3> QED
      BY <1>1, <2>1, <3>1
  <2>6. \A r \in Polls \union {Shared} :
          strategy'[r].end = strategy'[r].made + Timeout /\ strategy'[r].made <= now
    <3> HIDE DEF used, st, s
    <3> QED
      BY <2>2, <2>4, <2>5 DEF DeadlineInv
  <2>7. ASSUME NEW r \in Polls, r # p PROVE MadeAt(r)' = MadeAt(r)
    <3>1. StrategyOf(r)' = StrategyOf(r)
      BY <2>1 DEF StrategyOf
    <3>2. CASE StrategyOf(r) # s
      BY <1>1, <2>5, <3>1, <3>2 DEF MadeAt
    <3>3. CASE StrategyOf(r) = s
      <4>1. s = Shared /\ options[p].strategy # "none"
        BY <2>7, <3>3 DEF StrategyOf
      <4>2. strategy'[s].made = strategy[s].made
        BY <2>4, <2>5, <4>1
      <4> QED
        BY <3>1, <3>3, <4>2 DEF MadeAt
    <3> QED
      BY <3>2, <3>3
  <2>8. MadeAt(p)' >= MadeAt(p)
    <3>1. MadeAt(p)' = st.made
      BY <2>1, <2>4, <2>5 DEF MadeAt, StrategyOf
    <3>2. st.made \in Nat /\ MadeAt(p) \in Nat /\ MadeAt(p) <= st.made
      BY <1>1, <2>2, <2>3 DEF MadeAt, Strategy
    <3> QED
      BY <3>1, <3>2
  <2>9. pc'[p] # "timeout" /\ \A r \in Polls : r # p => pc'[r] = pc[r]
    <3>1. \E c \in {"delay", "backoff"} : pc' = [pc EXCEPT ![p] = c]
      BY <1>9 DEF ReadPending
    <3> QED
      BY <1>0, <3>1 DEF TypeInv, TypeOK
  <2> QED
    BY <1>0, <2>1, <2>6, <2>7, <2>8, <2>9, DeadlineKept
<1>10. ASSUME NEW p \in Polls, DelayOver(p) PROVE DeadlineInv'
  <2>1. /\ pc[p] = "delay" /\ pc' = [pc EXCEPT ![p] = "backoff"]
        /\ UNCHANGED <<now, options, strategy, started, polledAt, ended>>
    BY <1>10 DEF DelayOver
  <2>2. pc'[p] = "backoff" /\ \A r \in Polls : r # p => pc'[r] = pc[r]
    BY <1>0, <2>1 DEF TypeInv, TypeOK
  <2> QED
    BY <1>6, <2>1, <2>2
<1>11. ASSUME NEW p \in Polls, BackoffOver(p) PROVE DeadlineInv'
  <2> DEFINE s == StrategyOf(p)
             grown == [strategy[s] EXCEPT !.throttle = Earlier(@ + 1, MaxThrottle)]
  <2>1. strategy' = [strategy EXCEPT ![s] = grown] /\ pc[p] = "backoff"
    BY <1>11 DEF BackoffOver
  <2>2. grown.end = strategy[s].end /\ grown.made = strategy[s].made
    BY <1>1, GrownStrategy
  <2>3. \A r \in Polls \union {Shared} :
          strategy'[r].end = strategy[r].end /\ strategy'[r].made = strategy[r].made
    <3> HIDE DEF grown, s
    <3> QED
      BY <1>1, <2>1, <2>2 DEF s
  <2>4. \A r \in Polls \union {Shared} :
          strategy'[r].end = strategy'[r].made + Timeout /\ strategy'[r].made <= now
    BY <2>3 DEF DeadlineInv
  <2>5. strategy[s].end = MadeAt(p) + Timeout
    BY <1>1 DEF DeadlineInv, MadeAt
  <2>6. ASSUME UNCHANGED options PROVE \A r \in Polls : MadeAt(r)' = MadeAt(r)
    BY <1>1, <2>3, <2>6 DEF MadeAt, StrategyOf
  <2>7. CASE now > strategy[s].end /\ End(p, "timeout")
    <3>1. now > MadeAt(p) + Timeout
      BY <2>5, <2>7
    <3>2. /\ ended'[p] = now /\ pc'[p] = "timeout"
          /\ \A r \in Polls : r # p => pc'[r] = pc[r] /\ ended'[r] = ended[r]
          /\ UNCHANGED <<now, options, started, polledAt>>
      BY <1>0, <2>7 DEF End, TypeInv, TypeOK
    <3>3. \A r \in Polls : MadeAt(r)' = MadeAt(r)
      BY <2>6, <3>2
    <3> QED
      BY <1>0, <2>1, <2>4, <3>1, <3>2, <3>3 DEF DeadlineInv
  <2>8. CASE /\ now <= strategy[s].end
             /\ pc' = [pc EXCEPT ![p] = "sign"]
             /\ polledAt' = [polledAt EXCEPT ![p] = now]
             /\ UNCHANGED <<now, options, started, ended>>
    <3>1. now <= MadeAt(p) + Timeout
      BY <2>5, <2>8
    <3>2. /\ polledAt'[p] = now /\ pc'[p] = "sign"
          /\ \A r \in Polls : r # p => pc'[r] = pc[r] /\ polledAt'[r] = polledAt[r]
      BY <1>0, <2>8 DEF TypeInv, TypeOK
    <3>3. \A r \in Polls : MadeAt(r)' = MadeAt(r)
      BY <2>6, <2>8
    <3> QED
      BY <1>0, <2>4, <2>8, <3>1, <3>2, <3>3 DEF DeadlineInv
  <2> QED
    BY <1>11, <2>7, <2>8 DEF BackoffOver
<1> QED
  BY <1>2, <1>3, <1>4, <1>5, <1>7, <1>8, <1>9, <1>10, <1>11 DEF Next, PollStep

\* Whatever strategy the options name, and whoever else uses it, a poll times out
\* only when that strategy is older than the timeout.
THEOREM TimesOutOnlyByAge == Spec => []TimesOutByAge
<1>1. DeadlineInv => TimesOutByAge
  BY DEF DeadlineInv, TimesOutByAge, MadeAt
<1> QED
  BY <1>1, DeadlineInit, DeadlineStep, PTL DEF Spec

\* Whatever strategy the options name, a poll begins no iteration but its first
\* later than the timeout after the strategy was made, however long the backoffs
\* and the replicas' answers take.
THEOREM PollsNoLater == Spec => []NoLatePoll
<1>1. DeadlineInv => NoLatePoll
  BY DEF DeadlineInv, NoLatePoll, MadeAt
<1> QED
  BY <1>1, DeadlineInit, DeadlineStep, PTL DEF Spec

-----------------------------------------------------------------------------
(* Signatures of a pre-signed poll *)

\* The one signature of a pre-signed poll is carried through every iteration.
SignatureInv ==
  /\ TypeInv
  /\ \A p \in Polls : options[p].preSign =>
       /\ pc[p] = "idle" => signatures[p] = 0
       /\ signatures[p] <= 1
       /\ signatures[p] = 1 /\ pc[p] \in {"sign", "delay", "backoff"} => request[p] # None

LEMMA SignatureInit == Init => SignatureInv
BY TypeInit DEF Init, SignatureInv

LEMMA SignatureStep == SignatureInv /\ [Next]_vars => SignatureInv'
<1> SUFFICES ASSUME SignatureInv, [Next]_vars PROVE SignatureInv'
  OBVIOUS
<1>0. TypeInv /\ TypeInv'
  BY TypeStep DEF SignatureInv
<1>1. CASE Tick \/ UNCHANGED vars
  BY <1>0, <1>1 DEF Tick, vars, pollVars, SignatureInv
<1>2. ASSUME NEW p \in Polls, Progress(p) PROVE SignatureInv'
  BY <1>0, <1>2 DEF Progress, pollVars, SignatureInv
<1>11. ASSUME NEW p \in Polls, Make(p) PROVE SignatureInv'
  BY <1>0, <1>11 DEF Make, pollVars, SignatureInv
<1>3. ASSUME NEW p \in Polls, Start(p) PROVE SignatureInv'
  <2>1. pc[p] = "idle" /\ UNCHANGED <<options, signatures>>
    BY <1>3 DEF Start
  <2>2. pc'[p] = "sign" /\ \A r \in Polls : r # p => pc'[r] = pc[r] /\ request'[r] = request[r]
    BY <1>0, <1>3 DEF Start, TypeInv, TypeOK
  <2> QED
    BY <1>0, <2>1, <2>2 DEF SignatureInv
<1>4. ASSUME NEW p \in Polls, Reuse(p) PROVE SignatureInv'
  <2>1. pc[p] = "sign" /\ UNCHANGED <<options, signatures, request>>
    BY <1>4 DEF Reuse, Send
  <2>2. pc'[p] = "read" /\ \A r \in Polls : r # p => pc'[r] = pc[r]
    BY <1>0, <1>4 DEF Reuse, Send, TypeInv, TypeOK
  <2> QED
    BY <1>0, <2>1, <2>2 DEF SignatureInv
<1>5. ASSUME NEW p \in Polls, Sign(p) PROVE SignatureInv'
  <2>1. UNCHANGED <<options, request>> /\ ~(options[p].preSign /\ request[p] # None)
    BY <1>5 DEF Sign, Send
  <2>2. pc[p] = "sign" /\ pc'[p] = "read" /\ \A r \in Polls : r # p => pc'[r] = pc[r]
    BY <1>0, <1>5 DEF Sign, Send, TypeInv, TypeOK
  <2>3. /\ signatures[p] = 0 => signatures'[p] = 1
        /\ \A r \in Polls : r # p => signatures'[r] = signatures[r]
    BY <1>0, <1>5 DEF Sign, TypeInv, TypeOK, Earlier, Several
  <2>4. options[p].preSign => signatures[p] = 0
    <3>1. options[p].preSign => signatures[p] <= 1 /\ signatures[p] # 1
      BY <2>1, <2>2 DEF SignatureInv
    <3>2. signatures[p] \in Nat
      BY <1>0 DEF TypeInv, TypeOK
    <3>3. signatures[p] <= 1 /\ signatures[p] # 1 => signatures[p] = 0
      BY <3>2
    <3> QED
      BY <3>1, <3>3
  <2> QED
    BY <1>0, <2>1, <2>2, <2>3, <2>4 DEF SignatureInv
<1>6. ASSUME NEW p \in Polls, NEW outcome \in Outcomes, End(p, outcome), pc[p] # "idle"
      PROVE  SignatureInv'
  <2>1. UNCHANGED <<options, signatures, request>>
    BY <1>6 DEF End
  <2>2. pc'[p] = outcome /\ \A r \in Polls : r # p => pc'[r] = pc[r]
    BY <1>0, <1>6 DEF End, TypeInv, TypeOK
  <2> QED
    BY <1>0, <1>6, <2>1, <2>2 DEF SignatureInv, Outcomes
<1>7. ASSUME NEW p \in Polls, SignFails(p) \/ ReadFails(p) \/ ReadOutcome(p)
      PROVE  SignatureInv'
  <2>1. pc[p] # "idle" /\ \E outcome \in Outcomes : End(p, outcome)
    BY <1>7 DEF SignFails, ReadFails, ReadOutcome, Answered, Outcomes
  <2> QED
    BY <1>6, <2>1
<1>8. ASSUME NEW p \in Polls, ReadPending(p) PROVE SignatureInv'
  <2>1. pc[p] = "read" /\ UNCHANGED <<options, signatures>>
    BY <1>8 DEF ReadPending, Answered
  <2>2. request' = [request EXCEPT ![p] = IF options[p].preSign THEN current[p] ELSE None]
    BY <1>8 DEF ReadPending
  <2>3. options[p].preSign => request'[p] # None
    BY <1>0, <2>1, <2>2 DEF TypeInv, TypeOK
  <2>4. \A r \in Polls : r # p => pc'[r] = pc[r] /\ request'[r] = request[r]
    BY <1>0, <1>8, <2>2 DEF ReadPending, TypeInv, TypeOK
  <2>5. pc'[p] # "idle"
    BY <1>0, <1>8 DEF ReadPending, TypeInv, TypeOK
  <2> QED
    BY <1>0, <2>1, <2>3, <2>4, <2>5 DEF SignatureInv
<1>9. ASSUME NEW p \in Polls, DelayOver(p) PROVE SignatureInv'
  <2>1. pc[p] = "delay" /\ UNCHANGED <<options, signatures, request>>
    BY <1>9 DEF DelayOver
  <2>2. pc'[p] = "backoff" /\ \A r \in Polls : r # p => pc'[r] = pc[r]
    BY <1>0, <1>9 DEF DelayOver, TypeInv, TypeOK
  <2> QED
    BY <1>0, <2>1, <2>2 DEF SignatureInv
<1>10. ASSUME NEW p \in Polls, BackoffOver(p) PROVE SignatureInv'
  <2>1. pc[p] = "backoff"
    BY <1>10 DEF BackoffOver
  <2>2. CASE End(p, "timeout")
    BY <1>6, <2>1, <2>2 DEF Outcomes
  <2>3. CASE /\ pc' = [pc EXCEPT ![p] = "sign"]
             /\ UNCHANGED <<options, signatures, request>>
    <3>1. pc'[p] = "sign" /\ \A r \in Polls : r # p => pc'[r] = pc[r]
      BY <1>0, <2>3 DEF TypeInv, TypeOK
    <3> QED
      BY <1>0, <2>1, <2>3, <3>1 DEF SignatureInv
  <2> QED
    BY <1>10, <2>2, <2>3 DEF BackoffOver
<1> QED
  BY <1>1, <1>2, <1>3, <1>4, <1>5, <1>7, <1>8, <1>9, <1>10, <1>11 DEF Next, PollStep

\* A poll with preSignReadStateRequest asks the identity for one signature,
\* however many iterations it takes and whatever strategy it uses.
THEOREM SignsOnce == Spec => []OneSignature
<1>1. SignatureInv => OneSignature
  BY DEF SignatureInv, OneSignature
<1> QED
  BY <1>1, SignatureInit, SignatureStep, PTL DEF Spec


-----------------------------------------------------------------------------
(* An actor polls as Polling allows *)

LEMMA MethodPolls ==
  ASSUME NEW p \in Polls, MethodStep(p)
  PROVE  UNCHANGED vars \/ Start(p) \/ PollStep(p)
BY DEF MethodStep, AgentThrows, QueryReturns, CallReturns, VerifyFails, Verified, Poll,
       PollReturns, Decode

LEMMA ActorPolls == [ActorNext]_allVars => [Next]_vars
<1> SUFFICES ASSUME [ActorNext]_allVars PROVE [Next]_vars
  OBVIOUS
<1>1. CASE Tick /\ UNCHANGED actorVars
  BY <1>1 DEF Next
<1>2. CASE UNCHANGED allVars
  BY <1>2 DEF allVars
<1>3. ASSUME NEW p \in Polls, Invoke(p) \/ Evaluate(p) PROVE UNCHANGED vars
  BY <1>3 DEF Invoke, Evaluate
<1>4. ASSUME NEW p \in Polls, Process(p) PROVE Next
  BY <1>4 DEF Process, Next
<1>5. ASSUME NEW p \in Polls, MethodStep(p) PROVE [Next]_vars
  BY <1>5, MethodPolls DEF Next
<1>6. ASSUME NEW p \in Polls, Prepare(p) PROVE Next
  BY <1>6 DEF Prepare, Next
<1> QED
  BY <1>1, <1>2, <1>3, <1>4, <1>5, <1>6 DEF ActorNext

LEMMA ActorInitPolls == ActorInit => Init
BY DEF ActorInit

\* An actor uses pollForResponse as Polling describes: whatever Polling
\* guarantees of a poll holds of the polls of an actor.
THEOREM ActorUsesPolling == ActorSpec => Spec
BY ActorInitPolls, ActorPolls, PTL DEF ActorSpec, Spec

\* The poll of a method times out only when its strategy, made before the call was
\* handed to the agent or shared with other polls, is older than the timeout.
THEOREM ActorTimesOutByAge == ActorSpec => []TimesOutByAge
BY ActorUsesPolling, TimesOutOnlyByAge, PTL

\* Nor does it begin an iteration but the first after that age.
THEOREM ActorPollsNoLater == ActorSpec => []NoLatePoll
BY ActorUsesPolling, PollsNoLater, PTL

\* And it signs once when the caller asked for a pre-signed request.
THEOREM ActorSignsOnce == ActorSpec => []OneSignature
BY ActorUsesPolling, SignsOnce, PTL

-----------------------------------------------------------------------------
(* Types *)

ActorTypeInv == TypeInv /\ ActorTypeOK

LEMMA Statuses ==
  ASSUME TypeOK, NEW p \in Polls
  PROVE  Reported(p) \subseteq Pending \union {"replied", "rejected", "done"}
<1>1. status[p] \in Pending \union {"replied", "rejected", "done"}
  BY DEF TypeOK
<1> QED
  BY <1>1 DEF Reported, Pending

LEMMA ResponseType ==
  ASSUME TypeOK, NEW p \in Polls, NEW r \in [http : {200, 202}, body : BodiesFor(p)]
  PROVE  r \in Responses
<1>1. BodiesFor(p) \subseteq Bodies
  BY Statuses DEF BodiesFor, Bodies, NoBody
<1> QED
  BY <1>1 DEF Responses

LEMMA ActorTypeInit == ActorInit => ActorTypeInv
<1> SUFFICES ASSUME ActorInit PROVE ActorTypeInv
  OBVIOUS
<1>1. TypeInv /\ TypeOK
  BY TypeInit, ActorInitPolls DEF TypeInv
<1>2. Nothing \in Responses
  BY DEF Nothing, NoBody, Responses, Bodies
<1> QED
  BY <1>1, <1>2 DEF ActorInit, ActorTypeInv, ActorTypeOK, Running

\* The caller of p moves on; the canister does not.
LEMMA GoType ==
  ASSUME ActorTypeInv, TypeInv', NEW p \in Polls, NEW c \in Running \union Finished,
         Go(p, c), response' \in [Polls -> Responses]
  PROVE  ActorTypeInv'
BY DEF Go, ActorTypeInv, ActorTypeOK, TypeInv

LEMMA ActorTypeStep == ActorTypeInv /\ [ActorNext]_allVars => ActorTypeInv'
<1> SUFFICES ASSUME ActorTypeInv, [ActorNext]_allVars PROVE ActorTypeInv'
  OBVIOUS
<1>1. TypeInv /\ TypeInv' /\ TypeOK /\ TypeOK'
  BY ActorPolls, TypeStep DEF ActorTypeInv, TypeInv
<1>2. CASE UNCHANGED actorVars
  BY <1>1, <1>2 DEF actorVars, ActorTypeInv, ActorTypeOK
<1>3. ASSUME NEW p \in Polls, Process(p) \/ Evaluate(p) PROVE ActorTypeInv'
  <2>1. UNCHANGED <<kind, call, response>>
    BY <1>3 DEF Process, Evaluate
  <2>2. \E R \in SUBSET Ran : executed' = [executed EXCEPT ![p] = @ \union R]
    BY <1>3 DEF Process, Evaluate
  <2>3. executed' \in [Polls -> SUBSET Ran]
    BY <2>2 DEF ActorTypeInv, ActorTypeOK
  <2> QED
    BY <1>1, <2>1, <2>3 DEF ActorTypeInv, ActorTypeOK
<1>4. ASSUME NEW p \in Polls,
             \/ Invoke(p) \/ AgentThrows(p) \/ QueryReturns(p) \/ VerifyFails(p)
             \/ Verified(p) \/ PollReturns(p) \/ Decode(p)
      PROVE  ActorTypeInv'
  <2>1. \E c \in Running \union Finished : Go(p, c)
    BY <1>4 DEF Invoke, AgentThrows, QueryReturns, VerifyFails, Verified, PollReturns,
                Decode, Running, Finished
  <2>2. UNCHANGED response
    BY <1>4 DEF Invoke, AgentThrows, QueryReturns, VerifyFails, Verified, PollReturns, Decode
  <2>3. response' \in [Polls -> Responses]
    BY <2>2 DEF ActorTypeInv, ActorTypeOK
  <2> QED
    BY <1>1, <2>1, <2>3, GoType
<1>5. ASSUME NEW p \in Polls, CallReturns(p) PROVE ActorTypeInv'
  <2>1. PICK r \in [http : {200, 202}, body : BodiesFor(p)] :
          response' = [response EXCEPT ![p] = r]
    BY <1>5 DEF CallReturns
  <2>2. response' \in [Polls -> Responses]
    BY <1>1, <2>1, ResponseType DEF ActorTypeInv, ActorTypeOK
  <2>3. \E c \in Running \union Finished : Go(p, c)
    BY <1>5 DEF CallReturns, Running, Finished
  <2> QED
    BY <1>1, <2>2, <2>3, GoType
<1>6. ASSUME NEW p \in Polls, Poll(p) \/ Prepare(p) PROVE UNCHANGED actorVars
  BY <1>6 DEF Poll, Prepare
<1> QED
  BY <1>2, <1>3, <1>4, <1>5, <1>6 DEF ActorNext, MethodStep, allVars

\* Every reachable state of an actor is well typed.
THEOREM ActorTypeCorrect == ActorSpec => []ActorTypeOK
<1>1. ActorTypeInv => ActorTypeOK
  BY DEF ActorTypeInv
<1> QED
  BY <1>1, ActorTypeInit, ActorTypeStep, PTL DEF ActorSpec

-----------------------------------------------------------------------------
(* The abstract call *)

\* Whatever says that the call replied or rejected is backed by a run of it: the
\* status of its request, the outcome of a poll, the status a certificate shows,
\* and the place the caller has reached.
AgreeInv ==
  /\ ActorTypeInv
  /\ \A p \in Polls :
       /\ kind[p] = "update" /\ status[p] \in Ran => status[p] \in executed[p]
       /\ call[p] \in {"verify", "poll"} => kind[p] = "update"
       /\ pc[p] \in Ran => pc[p] \in executed[p]
       /\ call[p] = "verify" /\ response[p].body.status \in Ran =>
            response[p].body.status \in executed[p]
       /\ call[p] = "decode" => "replied" \in executed[p]

LEMMA AgreeInit == ActorInit => AgreeInv
BY ActorTypeInit DEF ActorInit, Init, AgreeInv, Ran

\* What a replica reports as replied or rejected has run so.
LEMMA ReportedRan ==
  ASSUME AgreeInv, NEW p \in Polls, kind[p] = "update",
         NEW s \in Ran, s \in Reported(p)
  PROVE  s \in executed[p]
<1>1. s \notin Pending
  BY DEF Pending, Ran
<1>2. status[p] = s
  BY <1>1 DEF Reported, Pending
<1> QED
  BY <1>2 DEF AgreeInv

\* A step that leaves the canister, and every caller but that of p, alone.
LEMMA AgreeKept ==
  ASSUME AgreeInv, ActorTypeInv', NEW p \in Polls,
         UNCHANGED <<kind, executed, status>>,
         \A r \in Polls : r # p => /\ call'[r] = call[r] /\ pc'[r] = pc[r]
                                 /\ response'[r] = response[r],
         call'[p] \in {"verify", "poll"} => kind[p] = "update",
         pc'[p] \in Ran => pc'[p] \in executed[p],
         call'[p] = "verify" /\ response'[p].body.status \in Ran =>
           response'[p].body.status \in executed[p],
         call'[p] = "decode" => "replied" \in executed[p]
  PROVE  AgreeInv'
BY DEF AgreeInv

\* pollForResponse ends as replied or rejected only when a replica says so.
LEMMA PollAgrees ==
  ASSUME AgreeInv, NEW p \in Polls, PollStep(p), kind[p] = "update"
  PROVE  /\ UNCHANGED status
         /\ \A r \in Polls : r # p => pc'[r] = pc[r]
         /\ pc'[p] \in Ran => pc'[p] \in executed[p]
<1>0. TypeOK
  BY DEF AgreeInv, ActorTypeInv, TypeInv
<1>1. CASE ReadOutcome(p)
  <2>1. \/ Answered(p, "replied") /\ End(p, "replied")
        \/ Answered(p, "rejected") /\ End(p, "rejected")
        \/ End(p, "noReply")
    BY <1>1 DEF ReadOutcome
  <2>2. ASSUME NEW s \in Ran, Answered(p, s) PROVE s \in executed[p]
    BY <2>2, ReportedRan DEF Answered
  <2> QED
    BY <1>0, <2>1, <2>2 DEF End, TypeOK, Ran
<1>2. CASE ~ReadOutcome(p)
  <2>1. \E c \in {"read", "failed", "delay", "backoff", "timeout", "sign"} :
          pc' = [pc EXCEPT ![p] = c]
    BY <1>2 DEF PollStep, Reuse, Sign, Send, SignFails, ReadFails, ReadPending, DelayOver,
                BackoffOver, End
  <2>2. UNCHANGED status
    BY <1>2 DEF PollStep, Reuse, Sign, Send, SignFails, ReadFails, ReadPending, DelayOver,
                BackoffOver, End
  <2> QED
    BY <1>0, <2>1, <2>2 DEF TypeOK, Ran
<1> QED
  BY <1>1, <1>2

\* A run of the call adds its result to what the runs ended with.
LEMMA ProcessRuns ==
  ASSUME ActorTypeInv, NEW p \in Polls, Process(p)
  PROVE  /\ Sent(p) /\ UNCHANGED <<kind, call, response, pc>>
         /\ \A q \in Polls : q # p => executed'[q] = executed[q] /\ status'[q] = status[q]
         /\ executed'[p] = executed[p] \union ({status'[p]} \intersect Ran)
         /\ \/ UNCHANGED executed
            \/ \E r \in Ran : executed' = [executed EXCEPT ![p] = @ \union {r}]
<1>1. /\ Sent(p) /\ UNCHANGED <<kind, call, response, pc>>
      /\ executed' = [executed EXCEPT ![p] = @ \union ({status'[p]} \intersect Ran)]
      /\ \E s \in Follows(status[p]) : status' = [status EXCEPT ![p] = s]
  BY DEF Process, Progress, pollVars
<1>2. executed \in [Polls -> SUBSET Ran]
  BY DEF ActorTypeInv, ActorTypeOK
<1>3. /\ \A q \in Polls : q # p => executed'[q] = executed[q] /\ status'[q] = status[q]
      /\ executed'[p] = executed[p] \union ({status'[p]} \intersect Ran)
  BY <1>1, <1>2 DEF ActorTypeInv, TypeInv, TypeOK
<1>4. CASE status'[p] \in Ran
  <2>1. {status'[p]} \intersect Ran = {status'[p]}
    BY <1>4
  <2>2. executed' = [executed EXCEPT ![p] = @ \union {status'[p]}]
    BY <1>1, <2>1
  <2> QED
    BY <1>1, <1>3, <1>4, <2>2
<1>5. CASE status'[p] \notin Ran
  <2>1. executed[p] \union ({status'[p]} \intersect Ran) = executed[p]
    BY <1>5
  <2>2. executed' = executed
    BY <1>1, <1>2, <2>1
  <2> QED
    BY <1>1, <1>3, <2>2
<1> QED
  BY <1>4, <1>5

LEMMA AgreeStep == AgreeInv /\ [ActorNext]_allVars => AgreeInv'
<1> SUFFICES ASSUME AgreeInv, [ActorNext]_allVars PROVE AgreeInv'
  OBVIOUS
<1>0. ActorTypeInv /\ ActorTypeInv' /\ TypeOK /\ TypeOK'
  BY ActorTypeStep DEF AgreeInv, ActorTypeInv, TypeInv
<1>1. /\ call \in [Polls -> Running \union Finished]
      /\ pc \in [Polls -> PCs]
      /\ response \in [Polls -> Responses]
      /\ executed \in [Polls -> SUBSET Ran]
  BY <1>0 DEF ActorTypeInv, ActorTypeOK, TypeOK
<1>2. CASE UNCHANGED allVars \/ (Tick /\ UNCHANGED actorVars)
  <2>1. UNCHANGED <<kind, call, response, executed, pc, status>>
    BY <1>2 DEF allVars, vars, pollVars, actorVars, Tick
  <2> QED
    BY <1>0, <2>1 DEF AgreeInv
<1>14. ASSUME NEW p \in Polls, Prepare(p) PROVE AgreeInv'
  <2>1. UNCHANGED <<kind, call, response, executed, pc, status>>
    BY <1>14 DEF Prepare, Make, pollVars, actorVars
  <2> QED
    BY <1>0, <2>1 DEF AgreeInv
<1>3. ASSUME NEW p \in Polls, Process(p) PROVE AgreeInv'
  <2>1. \A q \in Polls : executed[q] \subseteq executed'[q]
    BY <1>0, <1>3, ProcessRuns
  <2>2. \A q \in Polls : status'[q] \in Ran =>
          status'[q] \in executed'[q] \/ status'[q] = status[q]
    BY <1>0, <1>3, ProcessRuns
  <2>3. UNCHANGED <<kind, call, response, pc>>
    BY <1>0, <1>3, ProcessRuns
  <2> QED
    BY <1>0, <2>1, <2>2, <2>3 DEF AgreeInv
<1>4. ASSUME NEW p \in Polls, Evaluate(p) PROVE AgreeInv'
  <2>1. UNCHANGED <<kind, call, response, pc, status>>
    BY <1>4 DEF Evaluate, vars, pollVars
  <2>2. \A r \in Polls : executed[r] \subseteq executed'[r]
    BY <1>1, <1>4 DEF Evaluate
  <2> QED
    BY <1>0, <2>1, <2>2 DEF AgreeInv
<1>5. ASSUME NEW p \in Polls, NEW c \in Running \union Finished, Go(p, c),
             UNCHANGED <<vars, response>>, c \notin {"verify", "poll"},
             c = "decode" => "replied" \in executed[p]
      PROVE  AgreeInv'
  <2>1. call'[p] = c /\ \A r \in Polls : r # p => call'[r] = call[r]
    BY <1>1, <1>5 DEF Go
  <2>2. UNCHANGED <<kind, executed, status, pc, response>>
    BY <1>5 DEF Go, vars, pollVars
  <2>3. pc[p] \in Ran => pc[p] \in executed[p]
    BY DEF AgreeInv
  <2> QED
    BY <1>0, <1>5, <2>1, <2>2, <2>3, AgreeKept
<1>6. ASSUME NEW p \in Polls, Invoke(p) \/ AgentThrows(p) \/ VerifyFails(p) PROVE AgreeInv'
  <2>1. \E c \in {"agent", "unencodable", "threw"} : Go(p, c)
    BY <1>6 DEF Invoke, AgentThrows, VerifyFails
  <2>2. UNCHANGED <<vars, response>>
    BY <1>6 DEF Invoke, AgentThrows, VerifyFails
  <2> QED
    BY <1>5, <2>1, <2>2 DEF Running, Finished
<1>7. ASSUME NEW p \in Polls, QueryReturns(p) PROVE AgreeInv'
  BY <1>5, <1>7 DEF QueryReturns, Running, Finished
<1>8. ASSUME NEW p \in Polls, Decode(p) PROVE AgreeInv'
  BY <1>5, <1>8 DEF Decode, Running, Finished
<1>9. ASSUME NEW p \in Polls, PollReturns(p) PROVE AgreeInv'
  <2>1. pc[p] = "replied" => "replied" \in executed[p]
    BY DEF AgreeInv, Ran
  <2> QED
    BY <1>5, <1>9, <2>1 DEF PollReturns, Running, Finished
<1>10. ASSUME NEW p \in Polls, Start(p)
       PROVE  /\ UNCHANGED status
              /\ pc'[p] = "sign" /\ \A r \in Polls : r # p => pc'[r] = pc[r]
  BY <1>1, <1>10 DEF Start
<1>11. ASSUME NEW p \in Polls, CallReturns(p) PROVE AgreeInv'
  <2>1. PICK r \in [http : {200, 202}, body : BodiesFor(p)] :
          /\ response' = [response EXCEPT ![p] = r]
          /\ \/ r.body.type = "v3" /\ Go(p, "verify") /\ UNCHANGED vars
             \/ (Go(p, "threw") \/ Go(p, "refused")) /\ UNCHANGED vars
             \/ Start(p) /\ Go(p, "poll")
    BY <1>11 DEF CallReturns
  <2>2. /\ response'[p] = r /\ \A q \in Polls : q # p => response'[q] = response[q]
        /\ \A q \in Polls : q # p => call'[q] = call[q]
        /\ UNCHANGED <<kind, executed>>
    BY <1>1, <2>1 DEF Go
  <2>3. kind[p] = "update"
    BY <1>11 DEF CallReturns
  <2>4. pc[p] \in Ran => pc[p] \in executed[p]
    BY DEF AgreeInv
  <2>5. CASE r.body.type = "v3" /\ Go(p, "verify") /\ UNCHANGED vars
    <3>1. r.body.status \in Reported(p)
      BY <2>1, <2>5 DEF BodiesFor, NoBody
    <3>2. r.body.status \in Ran => r.body.status \in executed[p]
      BY <2>3, <3>1, ReportedRan
    <3>3. call'[p] = "verify" /\ UNCHANGED <<pc, status>>
      BY <1>1, <2>5 DEF Go, vars, pollVars
    <3> QED
      BY <1>0, <2>2, <2>3, <2>4, <3>2, <3>3, AgreeKept
  <2>6. CASE (Go(p, "threw") \/ Go(p, "refused")) /\ UNCHANGED vars
    <3>1. call'[p] \in {"threw", "refused"} /\ UNCHANGED <<pc, status>>
      BY <1>1, <2>6 DEF Go, vars, pollVars
    <3> QED
      BY <1>0, <2>2, <2>3, <2>4, <3>1, AgreeKept
  <2>7. CASE Start(p) /\ Go(p, "poll")
    <3>1. call'[p] = "poll"
      BY <1>1, <2>7 DEF Go
    <3> QED
      BY <1>0, <1>10, <2>2, <2>3, <2>7, <3>1, AgreeKept DEF Ran
  <2> QED
    BY <2>1, <2>5, <2>6, <2>7
<1>12. ASSUME NEW p \in Polls, Verified(p) PROVE AgreeInv'
  <2>1. call[p] = "verify" /\ kind[p] = "update" /\ UNCHANGED response
    BY <1>12 DEF Verified, AgreeInv
  <2>2. response[p].body.status \in Ran => response[p].body.status \in executed[p]
    BY <2>1 DEF AgreeInv
  <2>3. CASE Start(p) /\ Go(p, "poll")
    <3>1. /\ call'[p] = "poll" /\ \A r \in Polls : r # p => call'[r] = call[r]
          /\ UNCHANGED <<kind, executed>>
      BY <1>1, <2>3 DEF Go
    <3> QED
      BY <1>0, <1>10, <2>1, <2>3, <3>1, AgreeKept DEF Ran
  <2>4. CASE UNCHANGED vars /\ (Go(p, "reject") \/ Go(p, "threw"))
    BY <1>5, <2>1, <2>4 DEF Running, Finished
  <2>5. CASE /\ UNCHANGED vars /\ Go(p, "decode") /\ response[p].body.status = "replied"
    BY <1>5, <2>1, <2>2, <2>5 DEF Running, Finished, Ran
  <2> QED
    BY <1>12, <2>3, <2>4, <2>5 DEF Verified
<1>13. ASSUME NEW p \in Polls, Poll(p) PROVE AgreeInv'
  <2>1. call[p] = "poll" /\ PollStep(p) /\ UNCHANGED <<kind, call, response, executed>>
    BY <1>13 DEF Poll, actorVars
  <2>2. kind[p] = "update"
    BY <2>1 DEF AgreeInv
  <2>3. /\ UNCHANGED status
        /\ \A r \in Polls : r # p => pc'[r] = pc[r]
        /\ pc'[p] \in Ran => pc'[p] \in executed[p]
    BY <2>1, <2>2, PollAgrees
  <2> QED
    BY <1>0, <2>1, <2>2, <2>3, AgreeKept
<1> QED
  BY <1>2, <1>3, <1>4, <1>6, <1>7, <1>8, <1>9, <1>11, <1>12, <1>13, <1>14
     DEF ActorNext, MethodStep

LEMMA PromiseInit == ActorInit => Promise!Init
<1> SUFFICES ASSUME ActorInit PROVE Promise!Init
  OBVIOUS
<1>1. \A p \in Polls : call[p] = "idle" /\ executed[p] = {}
  BY DEF ActorInit
<1>2. {p \in Polls : Sent(p)} = {}
  BY <1>1 DEF Sent
<1>3. \A p \in Polls : OutcomeOf(call[p]) = "none"
  BY <1>1 DEF OutcomeOf
<1> QED
  BY <1>2, <1>3 DEF ActorInit, Promise!Init

\* What the abstract call sees of a step of the caller of p.
LEMMA CallerMoves ==
  ASSUME ActorTypeInv, NEW p \in Polls, NEW c \in Running \union Finished, Go(p, c)
  PROVE  /\ UNCHANGED executed
         /\ [q \in Polls |-> OutcomeOf(call[q])]' =
              [[q \in Polls |-> OutcomeOf(call[q])] EXCEPT ![p] = OutcomeOf(c)]
         /\ c \notin {"idle", "unencodable"} =>
              {q \in Polls : Sent(q)}' = {q \in Polls : Sent(q)} \union {p}
         /\ ~Sent(p) /\ c \in {"idle", "unencodable"} =>
              {q \in Polls : Sent(q)}' = {q \in Polls : Sent(q)}
<1>1. call'[p] = c /\ \A q \in Polls : q # p => call'[q] = call[q]
  BY DEF Go, ActorTypeInv, ActorTypeOK
<1>2. \A q \in Polls : q # p => Sent(q)' = Sent(q)
  BY <1>1 DEF Sent
<1>3. Sent(p)' <=> c \notin {"idle", "unencodable"}
  BY <1>1 DEF Sent
<1>4. \A q \in Polls : OutcomeOf(call[q])' = IF q = p THEN OutcomeOf(c) ELSE OutcomeOf(call[q])
  BY <1>1 DEF OutcomeOf
<1>5. [q \in Polls |-> OutcomeOf(call[q])]' =
        [[q \in Polls |-> OutcomeOf(call[q])] EXCEPT ![p] = OutcomeOf(c)]
  BY <1>4
<1>6. UNCHANGED executed
  BY DEF Go
<1>7. c \notin {"idle", "unencodable"} =>
        {q \in Polls : Sent(q)}' = {q \in Polls : Sent(q)} \union {p}
  BY <1>2, <1>3
<1>8. ~Sent(p) /\ c \in {"idle", "unencodable"} =>
        {q \in Polls : Sent(q)}' = {q \in Polls : Sent(q)}
  BY <1>2, <1>3
<1> QED
  BY <1>5, <1>6, <1>7, <1>8

\* Outcomes of the places of a caller.
LEMMA OutcomeValues ==
  /\ \A c \in Running : OutcomeOf(c) = "none"
  /\ OutcomeOf("value") = "value" /\ OutcomeOf("reject") = "reject"
  /\ OutcomeOf("refused") = "refused"
  /\ OutcomeOf("threw") = "error" /\ OutcomeOf("unencodable") = "error"
BY DEF OutcomeOf, Running

\* The canister runs the call of p.
LEMMA Executes ==
  ASSUME ActorTypeInv, NEW p \in Polls, Sent(p), UNCHANGED call,
         NEW r \in Ran, executed' = [executed EXCEPT ![p] = @ \union {r}]
  PROVE  Promise!Execute(p)
<1>1. \A q \in Polls : Sent(q)' = Sent(q)
  BY DEF Sent
<1> QED
  BY <1>1 DEF Promise!Execute, Promise!Results, Ran

\* The caller of a call that was sent moves on without an outcome.
LEMMA MovesSilently ==
  ASSUME ActorTypeInv, NEW p \in Polls, call[p] \in Running \ {"idle"},
         NEW c \in {"verify", "poll", "decode"}, Go(p, c)
  PROVE  UNCHANGED Promise!callVars
<1>1. Sent(p) /\ c \in Running
  BY DEF Sent, Running
<1>2. UNCHANGED executed /\ {q \in Polls : Sent(q)}' = {q \in Polls : Sent(q)} \union {p}
  BY <1>1, CallerMoves
<1>3. [q \in Polls |-> OutcomeOf(call[q])]' =
        [[q \in Polls |-> OutcomeOf(call[q])] EXCEPT ![p] = OutcomeOf(c)]
  BY <1>1, CallerMoves
<1>4. OutcomeOf(c) = OutcomeOf(call[p])
  BY <1>1, OutcomeValues
<1> QED
  BY <1>1, <1>2, <1>3, <1>4 DEF Promise!callVars

\* The caller of a call gets an error.
LEMMA GivesUp ==
  ASSUME ActorTypeInv, NEW p \in Polls, NEW c \in {"threw", "unencodable"}, Go(p, c),
         call[p] \in Running, call[p] = "idle" <=> c = "unencodable"
  PROVE  Promise!GiveUp(p)
<1>1. Sent(p) <=> c = "threw"
  BY DEF Sent, Running
<1>2. {q \in Polls : Sent(q)}' = {q \in Polls : Sent(q)} /\ UNCHANGED executed
  BY <1>1, CallerMoves DEF Finished
<1>3. [q \in Polls |-> OutcomeOf(call[q])]' =
        [[q \in Polls |-> OutcomeOf(call[q])] EXCEPT ![p] = "error"]
  BY CallerMoves, OutcomeValues DEF Finished
<1> QED
  BY <1>2, <1>3, OutcomeValues DEF Promise!GiveUp

\* The caller of a call learns what a run of it did, or that a replica refused it.
LEMMA Answers ==
  ASSUME ActorTypeInv, NEW p \in Polls, call[p] \in Running \ {"idle"},
         NEW c \in {"value", "reject", "refused"}, Go(p, c),
         c = "value" => "replied" \in executed[p],
         c = "reject" => "rejected" \in executed[p]
  PROVE  Promise!Answer(p) \/ Promise!Refuse(p)
<1>1. Sent(p)
  BY DEF Sent, Running
<1>2. {q \in Polls : Sent(q)}' = {q \in Polls : Sent(q)} /\ UNCHANGED executed
  BY <1>1, CallerMoves DEF Finished
<1>3. [q \in Polls |-> OutcomeOf(call[q])]' =
        [[q \in Polls |-> OutcomeOf(call[q])] EXCEPT ![p] = c]
  BY CallerMoves, OutcomeValues DEF Finished
<1> QED
  BY <1>1, <1>2, <1>3, OutcomeValues DEF Promise!Answer, Promise!Refuse

LEMMA PromiseStep == AgreeInv /\ AgreeInv' /\ [ActorNext]_allVars => [Promise!Next]_(Promise!callVars)
<1> SUFFICES ASSUME AgreeInv, AgreeInv', [ActorNext]_allVars
             PROVE  [Promise!Next]_(Promise!callVars)
  OBVIOUS
<1>0. ActorTypeInv /\ ActorTypeInv'
  BY DEF AgreeInv
<1>1. ASSUME UNCHANGED <<call, executed>> PROVE UNCHANGED Promise!callVars
  BY <1>1 DEF Promise!callVars, Sent
<1>2. CASE UNCHANGED allVars \/ (Tick /\ UNCHANGED actorVars)
  BY <1>1, <1>2 DEF allVars, actorVars
<1>3. ASSUME NEW p \in Polls, Process(p) PROVE [Promise!Next]_(Promise!callVars)
  <2>1. UNCHANGED call /\ Sent(p)
    BY <1>3 DEF Process
  <2>2. \/ UNCHANGED executed
        \/ \E r \in Ran : executed' = [executed EXCEPT ![p] = @ \union {r}]
    BY <1>0, <1>3, ProcessRuns
  <2>3. UNCHANGED Promise!callVars \/ Promise!Execute(p)
    BY <1>0, <1>1, <2>1, <2>2, Executes
  <2> QED
    BY <2>3 DEF Promise!Next
<1>4. ASSUME NEW p \in Polls, Evaluate(p) PROVE Promise!Execute(p)
  BY <1>0, <1>4, Executes DEF Evaluate
<1>5. ASSUME NEW p \in Polls, Invoke(p) PROVE Promise!Ask(p) \/ Promise!GiveUp(p)
  <2>1. call[p] = "idle" /\ ~Sent(p)
    BY <1>5 DEF Invoke, Sent
  <2>2. CASE Go(p, "agent")
    <3>1. /\ UNCHANGED executed
          /\ {q \in Polls : Sent(q)}' = {q \in Polls : Sent(q)} \union {p}
          /\ [q \in Polls |-> OutcomeOf(call[q])]' =
               [[q \in Polls |-> OutcomeOf(call[q])] EXCEPT ![p] = OutcomeOf("agent")]
      BY <1>0, <2>2, CallerMoves DEF Running
    <3>2. OutcomeOf("agent") = "none" /\ OutcomeOf(call[p]) = "none"
      BY <2>1, OutcomeValues DEF Running
    <3> QED
      BY <2>1, <3>1, <3>2 DEF Promise!Ask
  <2>3. CASE Go(p, "unencodable")
    BY <1>0, <2>1, <2>3, GivesUp DEF Running
  <2> QED
    BY <1>5, <2>2, <2>3 DEF Invoke
<1>6. ASSUME NEW p \in Polls, call[p] \in {"agent", "verify", "poll", "decode"},
             \/ \E c \in {"verify", "poll", "decode", "threw", "refused"} : Go(p, c)
             \/ "replied" \in executed[p] /\ Go(p, "value")
             \/ "rejected" \in executed[p] /\ Go(p, "reject")
      PROVE  [Promise!Next]_(Promise!callVars)
  <2>1. call[p] \in Running \ {"idle"}
    BY <1>6 DEF Running
  <2>2. CASE \E c \in {"verify", "poll", "decode"} : Go(p, c)
    BY <1>0, <2>1, <2>2, MovesSilently
  <2>3. CASE Go(p, "threw")
    BY <1>0, <2>1, <2>3, GivesUp DEF Promise!Next
  <2>4. CASE "replied" \in executed[p] /\ Go(p, "value")
    BY <1>0, <2>1, <2>4, Answers DEF Promise!Next
  <2>5. CASE "rejected" \in executed[p] /\ Go(p, "reject")
    BY <1>0, <2>1, <2>5, Answers DEF Promise!Next
  <2>6. CASE Go(p, "refused")
    BY <1>0, <2>1, <2>6, Answers DEF Promise!Next
  <2> QED
    BY <1>6, <2>2, <2>3, <2>4, <2>5, <2>6
<1>7. ASSUME NEW p \in Polls, MethodStep(p) PROVE [Promise!Next]_(Promise!callVars)
  <2>1. CASE AgentThrows(p) \/ VerifyFails(p) \/ QueryReturns(p) \/ CallReturns(p)
    BY <1>6, <2>1 DEF AgentThrows, VerifyFails, QueryReturns, CallReturns
  <2>2. CASE Verified(p)
    <3>1. response[p].body.status = "rejected" => "rejected" \in executed[p]
      BY <2>2 DEF Verified, AgreeInv, Ran
    <3> QED
      BY <1>6, <2>2, <3>1 DEF Verified
  <2>3. CASE Poll(p)
    BY <1>1, <2>3 DEF Poll, actorVars
  <2>4. CASE PollReturns(p)
    <3>1. pc[p] = "rejected" => "rejected" \in executed[p]
      BY DEF AgreeInv, Ran
    <3> QED
      BY <1>6, <2>4, <3>1 DEF PollReturns
  <2>5. CASE Decode(p)
    <3>1. "replied" \in executed[p]
      BY <2>5 DEF Decode, AgreeInv
    <3> QED
      BY <1>6, <2>5, <3>1 DEF Decode
  <2> QED
    BY <1>7, <2>1, <2>2, <2>3, <2>4, <2>5 DEF MethodStep
<1>8. ASSUME NEW p \in Polls, Prepare(p) PROVE UNCHANGED Promise!callVars
  BY <1>1, <1>8 DEF Prepare, actorVars
<1> QED
  BY <1>2, <1>3, <1>4, <1>5, <1>7, <1>8 DEF ActorNext, Promise!Next

\* A method of an actor implements the abstract call: it returns a value only when
\* some run of the call replied, throws a reject only when one rejected or, without
\* a certificate, when a replica refused a call that was sent, and its outcome is
\* final, however often the call ran.
THEOREM ActorKeepsPromise == ActorSpec => KeepsPromise
BY AgreeInit, AgreeStep, PromiseInit, PromiseStep, PTL
   DEF ActorSpec, KeepsPromise, Promise!Spec
=============================================================================
