-------------------------- MODULE AgentCallProofs --------------------------
(***************************************************************************)
(* Theorems about AgentCall.  The invariants are proved one on top of the  *)
(* other: types, then time, then the bookkeeping of requests and answers.  *)
(***************************************************************************)
EXTENDS AgentCall, TLAPS

-----------------------------------------------------------------------------
(* Types *)

Sending == {"sign", "delay", "fetching"}

\* TypeOK, with what it rests on: a call that builds a request has an identity
\* and a call that sends one has built it.
TypeInv ==
  /\ TypeOK
  /\ \A c \in Calls : pc[c] \in {"guard", "build"} => signer[c] \in Identities
  /\ \A c \in Calls : pc[c] \in Sending => req[c] \in RequestId /\ req[c].call = c

LEMMA ExpiryIsInt ==
  ASSUME TypeOK PROVE IngressExpiry \in Int
<1>1. env.skew \in Int
  BY TimeAssumption DEF TypeOK
<1>2. now + env.skew + Delta + timeDiff \in Int
  BY <1>1, TimeAssumption DEF TypeOK
<1>3. ASSUME NEW x \in Int PROVE x \div Granule \in Int
  BY TimeAssumption
<1> QED
  BY <1>2, <1>3, TimeAssumption DEF IngressExpiry

\* A promise that starts now has the type of the shared promise.
LEMMA SyncRecord ==
  ASSUME NEW t \in Nat, NEW p \in BOOLEAN
  PROVE  [pending |-> p, start |-> t] \in [pending : BOOLEAN, start : Nat]
BY Zenon

LEMMA JoinSyncType ==
  ASSUME TypeOK, JoinSync PROVE sync' \in [pending : BOOLEAN, start : Nat]
<1>1. [pending |-> TRUE, start |-> now] \in [pending : BOOLEAN, start : Nat]
  BY SyncRecord DEF TypeOK
<1> QED
  BY <1>1 DEF TypeOK, JoinSync

LEMMA EnterType ==
  ASSUME TypeInv, NEW c \in Calls, NEW cs \in BOOLEAN, Enter(c, cs),
         Entered
  PROVE  TypeInv'
<1> USE DEF TypeInv, TypeOK, Entered, counts
<1>1. /\ callSync' \in [Calls -> BOOLEAN]
      /\ signer' \in [Calls -> Identities \union {Null}]
      /\ pc' \in [Calls -> PCs]
  BY DEF Enter, PCs
<1>4. /\ sync' \in [pending : BOOLEAN, start : Nat]
      /\ rootKey' \in {"set", "absent", "fetching", "none"}
  BY JoinSyncType DEF Enter, JoinKey
<1>2. \A d \in Calls : pc'[d] \in {"guard", "build"} => signer'[d] \in Identities
  BY DEF Enter, PCs
<1>3. \A d \in Calls : pc'[d] \in Sending => req[d] \in RequestId /\ req[d].call = d
  BY DEF Enter, Sending
<1> QED
  BY <1>1, <1>2, <1>3, <1>4

LEMMA TypeStep == TypeInv /\ [Next]_vars => TypeInv'
<1> SUFFICES ASSUME TypeInv, [Next]_vars PROVE TypeInv'
  OBVIOUS
<1> USE CallAssumption, TimeAssumption DEF counts
<1>1. CASE Tick
  BY <1>1 DEF Tick, TypeInv, TypeOK, agentVars, callVars
<1>2. ASSUME NEW i \in Identities, ReplaceIdentity(i) PROVE TypeInv'
  BY <1>2 DEF ReplaceIdentity, TypeInv, TypeOK, callVars
<1>3. CASE InvalidateIdentity
  BY <1>3 DEF InvalidateIdentity, TypeInv, TypeOK, callVars
<1>4. ASSUME NEW c \in Calls, StartCall(c) PROVE TypeInv'
  BY <1>4, EnterType DEF StartCall
<1>5. ASSUME NEW c \in Calls, Build(c) PROVE TypeInv'
  <2>1. IngressExpiry \in Int
    BY ExpiryIsInt DEF TypeInv
  <2>2. MakeNonce(c) \in Nat
    BY DEF MakeNonce, TypeInv, TypeOK
  <2>3. signer[c] \in Identities
    BY <1>5 DEF Build, TypeInv
  <2> QED
    BY <1>5, <2>1, <2>2, <2>3
    DEF Build, Count, TypeInv, TypeOK, agentVars, counts, RequestId, PCs, Sending
<1>6. ASSUME NEW c \in Calls, Signed(c) \/ Resend(c) PROVE TypeInv'
  <2>1. CurrentFetch(c) \in Message
    BY <1>6 DEF Signed, Resend, CurrentFetch, Message, Endpoint, TypeInv, TypeOK, Sending
  <2> QED
    BY <1>6, <2>1 DEF Signed, Resend, TypeInv, TypeOK, agentVars, counts, PCs, Sending
<1>7. ASSUME NEW c \in Calls,
             SignRejected(c) \/ FetchRejected(c) \/ AnswerOk(c) \/ AnswerError(c)
      PROVE  TypeInv'
  BY <1>7 DEF SignRejected, FetchRejected, AnswerOk, AnswerError, Retry,
              TypeInv, TypeOK, agentVars, counts, PCs, Sending
<1>8. ASSUME NEW c \in Calls, AnswerNotFound(c) PROVE TypeInv'
  BY <1>8, EnterType DEF AnswerNotFound
<1>9. ASSUME NEW c \in Calls, AnswerExpiry(c) PROVE TypeInv'
  <2>1. sync' \in [pending : BOOLEAN, start : Nat]
    BY <1>9, JoinSyncType DEF AnswerExpiry, TypeInv, TypeOK
  <2> QED
    BY <1>9, <2>1 DEF AnswerExpiry, Count, TypeInv, TypeOK, PCs, Sending
<1>10. ASSUME NEW c \in Calls, Reenter(c) PROVE TypeInv'
  <2>1. callSync[c] \in BOOLEAN
    BY DEF TypeInv, TypeOK
  <2> QED
    BY <1>10, <2>1, EnterType DEF Reenter
<1>11. CASE SyncOk
  <2>1. PICK r \in (sync.start - Lag)..now : timeDiff' = r - (sync.start + env.skew)
    BY <1>11 DEF SyncOk
  <2>2. timeDiff' \in Int
    BY <2>1 DEF TypeInv, TypeOK
  <2> QED
    BY <1>11, <2>2 DEF SyncOk, ResumeWaiters, TypeInv, TypeOK, counts, PCs, Sending
<1>12. CASE SyncNone
  <2>1. fruitless' \in [Calls -> Nat]
    BY <1>12 DEF SyncNone, Count, TypeInv, TypeOK
  <2>2. /\ pc' \in [Calls -> PCs] /\ sync' \in [pending : BOOLEAN, start : Nat]
        /\ \A c \in Calls : pc'[c] \in {"guard"} \union Sending => pc'[c] = pc[c]
        /\ \A c \in Calls : pc'[c] = "build" => pc[c] \in {"guard", "build"}
    BY <1>12 DEF SyncNone, ResumeWaiters, TypeInv, TypeOK, PCs, Sending
  <2> QED
    BY <1>12, <2>1, <2>2 DEF SyncNone, TypeInv, TypeOK
<1>13. CASE SyncThrow \/ KeyStep
  <2>1. /\ sync' \in [pending : BOOLEAN, start : Nat]
        /\ rootKey' \in {"set", "absent", "fetching", "none"}
    BY <1>13 DEF SyncThrow, KeyStep, KeyFetched, KeyThrows, TypeInv, TypeOK
  <2>2. /\ pc' \in [Calls -> PCs]
        /\ \A c \in Calls : pc'[c] \in {"guard"} \union Sending => pc'[c] = pc[c]
        /\ \A c \in Calls : pc'[c] = "build" => pc[c] \in {"guard", "build"}
    BY <1>13 DEF SyncThrow, KeyStep, KeyFetched, KeyThrows, ResumeWaiters, FailWaiters, Waiting,
                 TypeInv, TypeOK, PCs, Sending
  <2> QED
    BY <1>13, <2>1, <2>2 DEF SyncThrow, KeyStep, KeyFetched, KeyThrows, TypeInv, TypeOK
<1>14. ASSUME NEW m \in net, Replica(m) PROVE TypeInv'
  <2>1. m \in Message
    BY DEF TypeInv, TypeOK
  <2> QED
    BY <1>14, <2>1 DEF Replica, NotFound, RefuseExpiry, Accept, RejectUncertified, RefuseOther,
                       Answer, Message, TypeInv, TypeOK, agentVars, counts, Sending
<1>15. CASE UNCHANGED vars
  BY <1>15 DEF vars, agentVars, callVars, TypeInv, TypeOK
<1> QED
  BY <1>1, <1>2, <1>3, <1>4, <1>5, <1>6, <1>7, <1>8, <1>9, <1>10, <1>11, <1>12,
     <1>13, <1>14, <1>15 DEF Next, CallStep, SyncStep

LEMMA TypeInit == Init => TypeInv
<1> SUFFICES ASSUME Init PROVE TypeInv
  OBVIOUS
<1> USE CallAssumption, TimeAssumption DEF Init
<1>1. TypeOK
  <2>5. sync \in [pending : BOOLEAN, start : Nat]
    <3>1. [pending |-> FALSE, start |-> StartTime] \in [pending : BOOLEAN, start : Nat]
      BY SyncRecord
    <3> QED
      BY <3>1, Zenon
  <2>1. /\ now \in Nat /\ timeDiff \in Int
        /\ identity \in Identities \union {Null}
    OBVIOUS
  <2>6. hasSynced \in BOOLEAN
    BY Zenon
  <2>7. rootKey \in {"set", "absent", "fetching", "none"}
    OBVIOUS
  <2>2. /\ pc \in [Calls -> PCs]
        /\ callSync \in [Calls -> BOOLEAN]
        /\ signer \in [Calls -> Identities \union {Null}]
        /\ req \in [Calls -> RequestId \union {NoRequest}]
    BY DEF PCs
  <2>3. /\ attempt \in [Calls -> Nat] /\ tries \in [Calls -> Nat]
        /\ started \in [Calls -> Nat] /\ resyncs \in [Calls -> Nat]
        /\ fruitless \in [Calls -> Nat]
        /\ resp \in [Calls -> {"none", "ok", "reject", "404", "expiry", "error"}]
    OBVIOUS
  <2>4. env \in [skew : Skews, v3 : V3Modes] /\ net \subseteq Message /\ ingress \subseteq RequestId
    OBVIOUS
  <2> QED
    BY <2>1, <2>2, <2>3, <2>4, <2>5, <2>6, <2>7 DEF TypeOK
<1>2. \A c \in Calls : pc[c] = "idle"
  OBVIOUS
<1> QED
  BY <1>1, <1>2 DEF TypeInv, Sending

\* Every reachable state is well typed.
THEOREM TypeCorrect == Spec => []TypeOK
<1>1. TypeInv => TypeOK
  BY DEF TypeInv
<1> QED
  BY <1>1, TypeInit, TypeStep, PTL DEF Spec

-----------------------------------------------------------------------------
(* At most one execution of a call that was never refused for its expiry *)

Usable(ep) == ep = "v2" \/ env.v3 = "all"

\* What the call sent belongs to the call.
OwnRequests == \A m \in net : m.id.call = m.call

\* A call that did not start yet has done nothing.
IdleFresh ==
  \A c \in Calls : pc[c] = "idle" => callSync[c] /\ attempt[c] = 0 /\ resyncs[c] = 0

\* A call that asks for a synchronisation has counted it.
ResyncCounted == \A c \in Calls : pc[c] \in {"resync", "reenter"} => resyncs[c] >= 1

\* Where no replica serves v3, nothing a call sent to v3 was accepted.
NothingOnV3 ==
  env.v3 = "none" => \A c \in Calls : callSync[c] =>
    /\ \A m \in net : m.call = c => m.ep = "v3"
    /\ \A i \in ingress : i.call # c

\* The answer 404 comes from v3 only, and only from a replica without it.
NotFoundOnV3 ==
  \A c \in Calls : pc[c] = "fetching" /\ resp[c] = "404" =>
    callSync[c] /\ env.v3 # "all"

\* Whatever can be or was executed for the call is its current request, and
\* there is none while the call is on its way to the next one.
OneLiveRequest ==
  env.v3 # "mixed" => \A c \in Calls : resyncs[c] = 0 =>
    /\ \A m \in net : m.call = c /\ Usable(m.ep) => m.id = req[c] /\ pc[c] \notin Entering
    /\ \A i \in ingress : i.call = c => i = req[c] /\ pc[c] \notin Entering

RequestInv ==
  OwnRequests /\ IdleFresh /\ ResyncCounted /\ NothingOnV3 /\ NotFoundOnV3 /\ OneLiveRequest

\* Entering call() keeps RequestInv when nothing of the call can be executed.
LEMMA EnterRequest ==
  ASSUME TypeInv, RequestInv, NEW c \in Calls, NEW cs \in BOOLEAN, Enter(c, cs),
         Entered,
         cs => callSync[c],
         env.v3 # "mixed" /\ resyncs[c] = 0 =>
           /\ \A m \in net : m.call = c => ~Usable(m.ep)
           /\ \A i \in ingress : i.call # c
  PROVE  RequestInv'
<1> USE DEF Entered, counts
<1>1. OwnRequests' /\ IdleFresh' /\ ResyncCounted' /\ NothingOnV3' /\ NotFoundOnV3'
  BY DEF RequestInv, OwnRequests, IdleFresh, ResyncCounted, NothingOnV3, NotFoundOnV3, Enter,
         TypeInv, TypeOK
<1>2. OneLiveRequest'
  BY DEF RequestInv, OneLiveRequest, Usable, Enter, TypeInv, TypeOK
<1> QED
  BY <1>1, <1>2 DEF RequestInv

LEMMA RequestStep == TypeInv /\ RequestInv /\ [Next]_vars => RequestInv'
<1> SUFFICES ASSUME TypeInv, RequestInv, [Next]_vars PROVE RequestInv'
  OBVIOUS
<1> USE CallAssumption DEF counts
<1>1. CASE Tick \/ InvalidateIdentity \/ UNCHANGED vars
           \/ \E i \in Identities : ReplaceIdentity(i)
  BY <1>1 DEF Tick, InvalidateIdentity, ReplaceIdentity, vars, agentVars, callVars,
              RequestInv, OwnRequests, IdleFresh, ResyncCounted, NothingOnV3, NotFoundOnV3,
              OneLiveRequest, Usable
<1>2. ASSUME NEW c \in Calls, StartCall(c) PROVE RequestInv'
  <2>1. PICK cs \in BOOLEAN : Enter(c, cs)
    BY <1>2 DEF StartCall
  <2>2. env.v3 # "mixed" /\ resyncs[c] = 0 =>
          /\ \A m \in net : m.call = c => ~Usable(m.ep)
          /\ \A i \in ingress : i.call # c
    BY <1>2 DEF StartCall, RequestInv, OneLiveRequest, Entering
  <2>3. callSync[c]
    BY <1>2 DEF StartCall, RequestInv, IdleFresh
  <2> QED
    BY <1>2, <2>1, <2>2, <2>3, EnterRequest DEF StartCall
<1>3. ASSUME NEW c \in Calls, Build(c) PROVE RequestInv'
  BY <1>3 DEF Build, agentVars, TypeInv, TypeOK, Entering, Usable,
              RequestInv, OwnRequests, IdleFresh, ResyncCounted, NothingOnV3, NotFoundOnV3,
              OneLiveRequest
<1>4. ASSUME NEW c \in Calls, Signed(c) \/ Resend(c) PROVE RequestInv'
  <2>1. req[c].call = c
    BY <1>4 DEF Signed, Resend, TypeInv, Sending
  <2>2. /\ CurrentFetch(c).call = c /\ CurrentFetch(c).id = req[c]
        /\ CurrentFetch(c).ep = IF callSync[c] THEN "v3" ELSE "v2"
    BY DEF CurrentFetch, Endpoint
  <2>3. OwnRequests' /\ IdleFresh' /\ ResyncCounted' /\ NothingOnV3' /\ NotFoundOnV3'
    BY <1>4, <2>1, <2>2
    DEF Signed, Resend, agentVars, TypeInv, TypeOK, RequestInv,
        OwnRequests, IdleFresh, ResyncCounted, NothingOnV3, NotFoundOnV3
  <2>4. OneLiveRequest'
    BY <1>4, <2>1, <2>2
    DEF Signed, Resend, agentVars, TypeInv, TypeOK, Entering, Usable, RequestInv,
        OneLiveRequest
  <2> QED
    BY <2>3, <2>4 DEF RequestInv
<1>5. ASSUME NEW c \in Calls,
             SignRejected(c) \/ FetchRejected(c) \/ AnswerOk(c) \/ AnswerError(c)
                \/ AnswerExpiry(c)
      PROVE  RequestInv'
  BY <1>5 DEF SignRejected, FetchRejected, AnswerOk, AnswerError, AnswerExpiry, Retry, Count,
              agentVars, TypeInv, TypeOK, Entering, Usable, RequestInv, OwnRequests, IdleFresh,
              ResyncCounted, NothingOnV3, NotFoundOnV3, OneLiveRequest
<1>6. ASSUME NEW c \in Calls, AnswerNotFound(c) PROVE RequestInv'
  <2>1. callSync[c] /\ env.v3 # "all"
    BY <1>6 DEF AnswerNotFound, RequestInv, NotFoundOnV3
  <2>2. env.v3 # "mixed" => env.v3 = "none"
    BY <2>1 DEF TypeInv, TypeOK
  <2>3. env.v3 # "mixed" /\ resyncs[c] = 0 =>
          /\ \A m \in net : m.call = c => ~Usable(m.ep)
          /\ \A i \in ingress : i.call # c
    BY <2>1, <2>2 DEF RequestInv, NothingOnV3, Usable
  <2> QED
    BY <1>6, <2>1, <2>3, EnterRequest DEF AnswerNotFound
<1>7. ASSUME NEW c \in Calls, Reenter(c) PROVE RequestInv'
  <2>1. resyncs[c] # 0
    BY <1>7 DEF Reenter, RequestInv, ResyncCounted, TypeInv, TypeOK
  <2>2. callSync[c] \in BOOLEAN
    BY DEF TypeInv, TypeOK
  <2> QED
    BY <1>7, <2>1, <2>2, EnterRequest DEF Reenter
<1>8. CASE SyncOk \/ SyncNone \/ SyncThrow \/ KeyStep
  BY <1>8 DEF SyncOk, SyncNone, SyncThrow, KeyStep, KeyFetched, KeyThrows, ResumeWaiters,
              FailWaiters, Waiting, TypeInv, TypeOK, Entering, Usable, RequestInv,
              OwnRequests, IdleFresh, ResyncCounted, NothingOnV3, NotFoundOnV3,
              OneLiveRequest
<1>9. ASSUME NEW m \in net, Replica(m) PROVE RequestInv'
  <2>1. /\ m \in Message /\ m.id.call = m.call /\ m.call \in Calls
    BY DEF TypeInv, TypeOK, Message, RequestInv, OwnRequests
  <2>2. m = CurrentFetch(m.call) => m.ep = IF callSync[m.call] THEN "v3" ELSE "v2"
    BY DEF CurrentFetch, Endpoint
  <2>3. OwnRequests' /\ IdleFresh' /\ ResyncCounted'
    BY <1>9 DEF Replica, agentVars, RequestInv, OwnRequests, IdleFresh, ResyncCounted
  <2>4. NotFoundOnV3'
    BY <1>9, <2>1, <2>2
    DEF Replica, NotFound, RefuseExpiry, Accept, RejectUncertified, RefuseOther, Answer,
        TypeInv, TypeOK, RequestInv, NotFoundOnV3
  <2>5. NothingOnV3'
    BY <1>9, <2>1
    DEF Replica, NotFound, RefuseExpiry, Accept, RejectUncertified, RefuseOther, Served,
        RequestInv, NothingOnV3
  <2>6. OneLiveRequest'
    <3>1. /\ UNCHANGED <<env, pc, req, resyncs>>
          /\ net' \subseteq net
      BY <1>9 DEF Replica
    <3>2. CASE UNCHANGED ingress
      BY <3>1, <3>2 DEF OneLiveRequest, RequestInv, Usable, TypeInv, TypeOK
    <3>3. CASE Accept(m)
      <4>1. /\ ingress' = ingress \union {m.id}
            /\ env.v3 # "mixed" => Usable(m.ep)
        BY <3>3 DEF Accept, Served, Usable, TypeInv, TypeOK
      <4>2. env.v3 # "mixed" /\ resyncs[m.call] = 0 =>
              m.id = req[m.call] /\ pc[m.call] \notin Entering
        BY <2>1, <4>1 DEF RequestInv, OneLiveRequest
      <4> QED
        BY <2>1, <3>1, <4>1, <4>2 DEF RequestInv, OneLiveRequest, Usable
    <3> QED
      BY <1>9, <3>2, <3>3 DEF Replica, NotFound, RefuseExpiry, RejectUncertified, RefuseOther
  <2> QED
    BY <2>3, <2>4, <2>5, <2>6 DEF RequestInv
<1> QED
  BY <1>1, <1>2, <1>3, <1>4, <1>5, <1>6, <1>7, <1>8, <1>9 DEF Next, CallStep, SyncStep

LEMMA RequestInit == Init => RequestInv
BY DEF Init, RequestInv, OwnRequests, IdleFresh, ResyncCounted, NothingOnV3,
       NotFoundOnV3, OneLiveRequest

\* Whatever the network loses, delays or reorders, a call that was never
\* refused for its expiry is executed at most once where the replicas agree on
\* the endpoints they serve.
THEOREM AtMostOnce == Spec => []AtMostOnceUnlessResynced
<1>1. TypeInv /\ RequestInv => AtMostOnceUnlessResynced
  BY DEF TypeInv, TypeOK, RequestId, RequestInv, OneLiveRequest, AtMostOnceUnlessResynced
<1> QED
  BY <1>1, TypeInit, TypeStep, RequestInit, RequestStep, PTL DEF Spec

-----------------------------------------------------------------------------
(* No call waits for a promise that nobody settles *)

WaitersServed ==
  \A c \in Calls :
    /\ pc[c] = "resync" => sync.pending
    /\ pc[c] = "guard" => sync.pending \/ rootKey = "fetching"

LEMMA WaitersStep == TypeInv /\ WaitersServed /\ [Next]_vars => WaitersServed'
<1> SUFFICES ASSUME TypeInv, WaitersServed, [Next]_vars PROVE WaitersServed'
  OBVIOUS
<1>1. ASSUME NEW c \in Calls, NEW cs, Enter(c, cs) PROVE WaitersServed'
  BY <1>1 DEF Enter, JoinSync, JoinKey, NeedsTime, TypeInv, TypeOK, WaitersServed
<1>2. ASSUME NEW c \in Calls, StartCall(c) \/ AnswerNotFound(c) \/ Reenter(c)
      PROVE  WaitersServed'
  BY <1>1, <1>2 DEF StartCall, AnswerNotFound, Reenter
<1>3. ASSUME NEW c \in Calls,
             Build(c) \/ Signed(c) \/ SignRejected(c) \/ Resend(c) \/ FetchRejected(c)
               \/ AnswerOk(c) \/ AnswerError(c)
      PROVE  WaitersServed'
  BY <1>3 DEF Build, Signed, SignRejected, Resend, FetchRejected, AnswerOk, AnswerError,
              Retry, agentVars, TypeInv, TypeOK, WaitersServed
<1>4. ASSUME NEW c \in Calls, AnswerExpiry(c) PROVE WaitersServed'
  BY <1>4 DEF AnswerExpiry, JoinSync, TypeInv, TypeOK, WaitersServed
<1>5. CASE SyncStep
  BY <1>5 DEF SyncStep, SyncOk, SyncNone, SyncThrow, ResumeWaiters, FailWaiters, Waiting,
              TypeInv, TypeOK, WaitersServed
<1>7. CASE KeyStep
  BY <1>7 DEF KeyStep, KeyFetched, KeyThrows, ResumeWaiters, FailWaiters, Waiting,
              TypeInv, TypeOK, WaitersServed
<1>6. CASE \/ Tick \/ InvalidateIdentity \/ UNCHANGED vars
           \/ (\E i \in Identities : ReplaceIdentity(i)) \/ \E m \in net : Replica(m)
  BY <1>6 DEF Tick, InvalidateIdentity, ReplaceIdentity, Replica, vars, agentVars, callVars,
              WaitersServed
<1> QED
  BY <1>2, <1>3, <1>4, <1>5, <1>6, <1>7 DEF Next, CallStep

LEMMA WaitersInit == Init => WaitersServed
BY DEF Init, WaitersServed

\* A call that waits for the clock or for the root key, on its way in or after
\* a refusal, waits for a fetch that is under way: none ends without resuming
\* all of them.
THEOREM WaitersAreServed == Spec => []WaitersServed
BY WaitersInit, TypeInit, TypeStep, WaitersStep, PTL DEF Spec

-----------------------------------------------------------------------------
(* The synchronisations and the requests of a call *)

\* A call that asked for a synchronisation more often than it was sent back
\* without a time waits for one, has failed, or belongs to a synced agent.
ResyncInv ==
  \A c \in Calls :
    /\ resyncs[c] <= MaxCount
    /\ resyncs[c] <= fruitless[c]
         + (IF hasSynced \/ pc[c] \in {"resync", "failed"} THEN 1 ELSE 0)

LEMMA ResyncStep ==
  TypeInv /\ RequestInv /\ WaitersServed /\ ResyncInv /\ [Next]_vars => ResyncInv'
<1> SUFFICES ASSUME TypeInv, RequestInv, WaitersServed, ResyncInv, [Next]_vars
             PROVE  ResyncInv'
  OBVIOUS
<1> USE CallAssumption DEF counts
<1>1. CASE Tick \/ InvalidateIdentity \/ UNCHANGED vars
           \/ (\E i \in Identities : ReplaceIdentity(i)) \/ \E m \in net : Replica(m)
  BY <1>1 DEF Tick, InvalidateIdentity, ReplaceIdentity, Replica, vars, agentVars,
              callVars, ResyncInv
<1>2. ASSUME NEW c \in Calls, StartCall(c) PROVE ResyncInv'
  <2>1. resyncs[c] = 0
    BY <1>2 DEF StartCall, RequestInv, IdleFresh
  <2> QED
    BY <1>2, <2>1 DEF StartCall, Enter, Entered, TypeInv, TypeOK, ResyncInv
<1>3. ASSUME NEW c \in Calls, AnswerNotFound(c) \/ Reenter(c) PROVE ResyncInv'
  <2>1. PICK cs : Enter(c, cs)
    BY <1>3 DEF AnswerNotFound, Reenter
  <2> QED
    BY <1>3, <2>1 DEF AnswerNotFound, Reenter, Enter, Entered, TypeInv, TypeOK, ResyncInv
<1>4. ASSUME NEW c \in Calls,
             Build(c) \/ Signed(c) \/ Resend(c) \/ SignRejected(c) \/ FetchRejected(c)
               \/ AnswerOk(c) \/ AnswerError(c)
      PROVE  ResyncInv'
  BY <1>4 DEF Build, Signed, Resend, SignRejected, FetchRejected, AnswerOk, AnswerError,
              Retry, agentVars, TypeInv, TypeOK, ResyncInv
<1>5. ASSUME NEW c \in Calls, AnswerExpiry(c) PROVE ResyncInv'
  BY <1>5 DEF AnswerExpiry, Count, TypeInv, TypeOK, ResyncInv
<1>6. CASE SyncOk \/ SyncThrow \/ KeyStep
  BY <1>6 DEF SyncOk, SyncThrow, KeyStep, KeyFetched, KeyThrows, ResumeWaiters, FailWaiters,
              Waiting, WaitersServed, TypeInv, TypeOK, ResyncInv
<1>7. CASE SyncNone
  <2> SUFFICES ASSUME NEW c \in Calls
               PROVE  /\ resyncs'[c] <= MaxCount
                      /\ resyncs'[c] <= fruitless'[c]
                           + (IF hasSynced' \/ pc'[c] \in {"resync", "failed"} THEN 1 ELSE 0)
    BY DEF ResyncInv
  <2>1. /\ pc[c] \in PCs /\ resyncs[c] \in Nat /\ fruitless[c] \in Nat
        /\ hasSynced' = hasSynced /\ resyncs' = resyncs
    BY <1>7 DEF SyncNone, TypeInv, TypeOK
  <2>2. IF pc[c] = "resync" THEN fruitless'[c] = Count(fruitless[c])
        ELSE /\ fruitless'[c] = fruitless[c]
             /\ pc[c] = "failed" => pc'[c] = "failed"
    BY <1>7 DEF SyncNone, ResumeWaiters
  <2> QED
    BY <2>1, <2>2 DEF Count, ResyncInv
<1> QED
  BY <1>1, <1>2, <1>3, <1>4, <1>5, <1>6, <1>7 DEF Next, CallStep, SyncStep

LEMMA ResyncInit == Init => ResyncInv
BY CallAssumption DEF Init, ResyncInv

\* However the synchronisations end, a call asks for one once, and once more
\* for each that came back without a time.
THEOREM ResyncsAreBounded == Spec => []ResyncsBounded
<1>1. TypeInv /\ ResyncInv => ResyncsBounded
  BY DEF TypeInv, TypeOK, ResyncInv, ResyncsBounded
<1> QED
  BY <1>1, TypeInit, TypeStep, RequestInit, RequestStep, WaitersInit, WaitersStep, ResyncInit,
     ResyncStep, PTL DEF Spec

\* The requests built and about to be built are paid for by the first entry,
\* the fallback to v2 and the synchronisations that are over.
AttemptInv ==
  \A c \in Calls :
    /\ attempt[c] <= MaxCount
    /\ attempt[c] + (IF pc[c] \in {"guard", "build"} THEN 1 ELSE 0)
         <= (IF pc[c] = "idle" THEN 0 ELSE 1) + (IF callSync[c] THEN 0 ELSE 1)
            + resyncs[c] - (IF pc[c] \in {"resync", "reenter"} THEN 1 ELSE 0)

LEMMA AttemptStep == TypeInv /\ RequestInv /\ AttemptInv /\ [Next]_vars => AttemptInv'
<1> SUFFICES ASSUME TypeInv, RequestInv, AttemptInv, [Next]_vars PROVE AttemptInv'
  OBVIOUS
<1> USE CallAssumption DEF counts
<1>1. CASE Tick \/ InvalidateIdentity \/ UNCHANGED vars
           \/ (\E i \in Identities : ReplaceIdentity(i)) \/ \E m \in net : Replica(m)
  BY <1>1 DEF Tick, InvalidateIdentity, ReplaceIdentity, Replica, vars, agentVars,
              callVars, AttemptInv
<1>2. ASSUME NEW c \in Calls, StartCall(c) PROVE AttemptInv'
  <2>1. resyncs[c] = 0 /\ attempt[c] = 0
    BY <1>2 DEF StartCall, RequestInv, IdleFresh
  <2> QED
    BY <1>2, <2>1 DEF StartCall, Enter, Entered, TypeInv, TypeOK, AttemptInv
<1>3. ASSUME NEW c \in Calls, AnswerNotFound(c) PROVE AttemptInv'
  <2>1. callSync[c]
    BY <1>3 DEF AnswerNotFound, RequestInv, NotFoundOnV3
  <2> QED
    BY <1>3, <2>1 DEF AnswerNotFound, Enter, Entered, TypeInv, TypeOK, AttemptInv
<1>4. ASSUME NEW c \in Calls, Reenter(c) PROVE AttemptInv'
  BY <1>4 DEF Reenter, Enter, Entered, TypeInv, TypeOK, AttemptInv
<1>5. ASSUME NEW c \in Calls, Build(c) \/ Signed(c) \/ Resend(c) \/ SignRejected(c)
      PROVE  AttemptInv'
  BY <1>5 DEF Build, Count, Signed, Resend, SignRejected, agentVars, TypeInv, TypeOK,
              AttemptInv
<1>6. ASSUME NEW c \in Calls, FetchRejected(c) \/ AnswerOk(c) \/ AnswerError(c)
      PROVE  AttemptInv'
  BY <1>6 DEF FetchRejected, AnswerOk, AnswerError, Retry, agentVars, TypeInv, TypeOK,
              AttemptInv
<1>8. ASSUME NEW c \in Calls, AnswerExpiry(c) PROVE AttemptInv'
  <2>1. resyncs'[c] = resyncs[c] + 1 \/ resyncs'[c] = MaxCount \/ resyncs'[c] = resyncs[c]
    BY <1>8 DEF AnswerExpiry, Count, TypeInv, TypeOK
  <2>2. pc'[c] = "resync" => resyncs[c] >= MaxCount \/ resyncs'[c] = resyncs[c] + 1
    BY <1>8 DEF AnswerExpiry, Count, TypeInv, TypeOK
  <2> QED
    BY <1>8, <2>1, <2>2 DEF AnswerExpiry, Count, TypeInv, TypeOK, AttemptInv
<1>7. CASE SyncOk \/ SyncNone \/ SyncThrow \/ KeyStep
  BY <1>7 DEF SyncOk, SyncNone, SyncThrow, KeyStep, KeyFetched, KeyThrows, ResumeWaiters,
              FailWaiters, Waiting, TypeInv, TypeOK, AttemptInv
<1> QED
  BY <1>1, <1>2, <1>3, <1>4, <1>5, <1>6, <1>7, <1>8 DEF Next, CallStep, SyncStep

\* However the synchronisations end, a call builds one request, one after the
\* fallback to v2 and one after each synchronisation it asked for.
THEOREM RequestsAreBounded == Spec => []RequestsBounded
<1>1. Init => AttemptInv
  BY CallAssumption DEF Init, AttemptInv
<1>2. TypeInv /\ AttemptInv => RequestsBounded
  BY DEF TypeInv, TypeOK, AttemptInv, RequestsBounded
<1> QED
  BY <1>1, <1>2, TypeInit, TypeStep, RequestInit, RequestStep, AttemptStep, PTL DEF Spec

-----------------------------------------------------------------------------
(* A call takes finitely many steps *)

\* No request is tried again more often than #retryTimes says.
TriesInv == \A c \in Calls : tries[c] <= RetryTimes

LEMMA TriesStep == TypeInv /\ TriesInv /\ [Next]_vars => TriesInv'
<1> SUFFICES ASSUME TypeInv, TriesInv, [Next]_vars PROVE TriesInv'
  OBVIOUS
<1> USE CallAssumption DEF Entered
<1>1. ASSUME UNCHANGED tries PROVE TriesInv'
  BY <1>1 DEF TriesInv
<1>2. ASSUME NEW c \in Calls, Build(c) PROVE TriesInv'
  BY <1>2 DEF Build, TriesInv, TypeInv, TypeOK
<1>3. ASSUME NEW c \in Calls, FetchRejected(c) \/ AnswerError(c) PROVE TriesInv'
  BY <1>3 DEF FetchRejected, AnswerError, Retry, TriesInv, TypeInv, TypeOK
<1>4. ASSUME NEW c \in Calls,
             StartCall(c) \/ Signed(c) \/ SignRejected(c) \/ Resend(c) \/ AnswerOk(c)
               \/ AnswerNotFound(c) \/ AnswerExpiry(c) \/ Reenter(c)
      PROVE  TriesInv'
  BY <1>1, <1>4 DEF StartCall, Signed, SignRejected, Resend, AnswerOk, AnswerNotFound,
                    AnswerExpiry, Reenter
<1>5. CASE \/ Tick \/ InvalidateIdentity \/ UNCHANGED vars \/ SyncStep \/ KeyStep
           \/ (\E i \in Identities : ReplaceIdentity(i)) \/ \E m \in net : Replica(m)
  BY <1>1, <1>5 DEF Tick, InvalidateIdentity, ReplaceIdentity, Replica, SyncStep, SyncOk,
                    SyncNone, SyncThrow, KeyStep, KeyFetched, KeyThrows, vars, callVars
<1> QED
  BY <1>2, <1>3, <1>4, <1>5 DEF Next, CallStep

\* More than the steps of a call with one request, its tries included.
Round == 2 * RetryTimes + 9

\* What is ahead of a call at p, before its next request or within its current
\* one, of which it has had n retries.
Ahead(p, n) ==
  CASE p = "idle"     -> 6
    [] p = "resync"   -> 5
    [] p = "reenter"  -> 4
    [] p = "guard"    -> 3
    [] p = "build"    -> 2
    [] p = "sign"     -> 2 * RetryTimes + 8
    [] p = "delay"    -> 2 * (RetryTimes - n) + 7
    [] p = "fetching" -> 2 * (RetryTimes - n) + 6

Ended(p) == p \in {"done", "failed"}

\* The requests a call may still build: the one it is about to build, the one
\* after the fallback to v2, the one after a synchronisation of its own.
Builds(c) ==
  (IF pc[c] \in {"idle", "guard", "build", "resync", "reenter"} THEN 1 ELSE 0)
    + (IF callSync[c] THEN 1 ELSE 0)
    + (IF hasSynced \/ pc[c] = "resync" THEN 0 ELSE 1)

\* These requests count first, then what is ahead of the call.
StepsLeft(c) == IF Ended(pc[c]) THEN 0 ELSE Builds(c) * Round + Ahead(pc[c], tries[c])

\* The call comes back from a synchronisation that found no time.
SentBack(c) == pc[c] = "resync" /\ BackWithoutTime(c)'

\* Whenever a call moves, by a step of its own or of a promise it waits for,
\* it has fewer steps left, and no other step gives it more, except that it may
\* start all over when a synchronisation of its own comes back without a time.
CallAdvances ==
  \A c \in Calls :
    /\ StepsLeft(c) \in Nat /\ StepsLeft(c)' \in Nat
    /\ ~SentBack(c) =>
         /\ StepsLeft(c)' <= StepsLeft(c)
         /\ pc'[c] # pc[c] => StepsLeft(c)' < StepsLeft(c)

CallInv == TypeInv /\ RequestInv /\ TriesInv

LEMMA Rounds ==
  ASSUME NEW a \in 0..3, NEW b \in 0..3
  PROVE  /\ Round \in Nat /\ a * Round \in Nat
         /\ b < a => b * Round <= a * Round - Round
<1>1. Round \in Nat
  BY CallAssumption DEF Round
<1>2. (a = 0 \/ a = 1 \/ a = 2 \/ a = 3) /\ (b = 0 \/ b = 1 \/ b = 2 \/ b = 3)
  OBVIOUS
<1> QED
  BY <1>1, <1>2

\* What is ahead of a call that has not ended is less than a round.
LEMMA AheadIsPositive ==
  ASSUME NEW p \in PCs, ~Ended(p), NEW n \in 0..RetryTimes
  PROVE  Ahead(p, n) \in Nat \ {0}
BY CallAssumption DEF Ahead, PCs, Ended

LEMMA CallBounds ==
  ASSUME CallInv, CallInv', NEW c \in Calls
  PROVE  /\ pc[c] \in PCs /\ tries[c] \in 0..RetryTimes /\ Builds(c) \in 0..3
         /\ pc'[c] \in PCs /\ tries'[c] \in 0..RetryTimes /\ Builds(c)' \in 0..3
<1> USE CallAssumption
<1>1. pc[c] \in PCs /\ tries[c] \in 0..RetryTimes
  BY DEF CallInv, TypeInv, TypeOK, TriesInv
<1>2. pc'[c] \in PCs /\ tries'[c] \in 0..RetryTimes
  BY DEF CallInv, TypeInv, TypeOK, TriesInv
<1>3. Builds(c) \in 0..3 /\ Builds(c)' \in 0..3
  BY DEF Builds
<1> QED
  BY <1>1, <1>2, <1>3

\* Call c moves: it ends, has less ahead of it before as many requests, or
\* uses up a request.
Moves(c) ==
  /\ ~Ended(pc[c])
  /\ \/ Ended(pc'[c])
     \/ Builds(c)' <= Builds(c) /\ Ahead(pc'[c], tries'[c]) < Ahead(pc[c], tries[c])
     \/ Builds(c)' < Builds(c) /\ Ahead(pc'[c], tries'[c]) < Round

\* Call c stays where it is.
Stays(c) == pc'[c] = pc[c] /\ tries'[c] = tries[c] /\ Builds(c)' <= Builds(c)

LEMMA Advance ==
  ASSUME CallInv, CallInv', NEW c \in Calls
  PROVE  /\ StepsLeft(c) \in Nat /\ StepsLeft(c)' \in Nat
         /\ Moves(c) => StepsLeft(c)' < StepsLeft(c)
         /\ Stays(c) => StepsLeft(c)' <= StepsLeft(c)
<1> DEFINE here == Ahead(pc[c], tries[c])
           next == Ahead(pc'[c], tries'[c])
           b == Builds(c)
           bn == Builds(c)'
<1>1. /\ pc[c] \in PCs /\ tries[c] \in 0..RetryTimes /\ b \in 0..3
      /\ pc'[c] \in PCs /\ tries'[c] \in 0..RetryTimes /\ bn \in 0..3
  BY CallBounds
<1>2. /\ Round \in Nat /\ b * Round \in Nat /\ bn * Round \in Nat
      /\ bn < b => bn * Round <= b * Round - Round
  BY <1>1, Rounds
<1>3. ~Ended(pc[c]) => here \in Nat \ {0}
  BY <1>1, AheadIsPositive
<1>4. ~Ended(pc'[c]) => next \in Nat \ {0}
  BY <1>1, AheadIsPositive
<1>5. StepsLeft(c) = IF Ended(pc[c]) THEN 0 ELSE b * Round + here
  BY DEF StepsLeft
<1>6. StepsLeft(c)' = IF Ended(pc'[c]) THEN 0 ELSE bn * Round + next
  BY DEF StepsLeft
<1>7. bn <= b => bn * Round <= b * Round
  BY <1>1, <1>2
<1>8. Moves(c) <=> /\ ~Ended(pc[c])
                   /\ \/ Ended(pc'[c])
                      \/ bn <= b /\ next < here
                      \/ bn < b /\ next < Round
  BY DEF Moves
<1>9. Stays(c) => pc'[c] = pc[c] /\ next = here /\ bn <= b
  BY DEF Stays
<1> HIDE DEF here, next, b, bn
<1>10. StepsLeft(c) \in Nat /\ StepsLeft(c)' \in Nat
  BY <1>2, <1>3, <1>4, <1>5, <1>6
<1>11. Moves(c) => StepsLeft(c)' < StepsLeft(c)
  BY <1>1, <1>2, <1>3, <1>4, <1>5, <1>6, <1>7, <1>8
<1>12. Stays(c) => StepsLeft(c)' <= StepsLeft(c)
  BY <1>1, <1>2, <1>3, <1>4, <1>5, <1>6, <1>7, <1>9
<1> QED
  BY <1>10, <1>11, <1>12

LEMMA MoveStep ==
  ASSUME CallInv, [Next]_vars, NEW c \in Calls, ~SentBack(c)
  PROVE  Moves(c) \/ Stays(c)
<1> USE CallAssumption DEF Entered
<1>0. /\ pc \in [Calls -> PCs] /\ tries \in [Calls -> Nat] /\ tries[c] <= RetryTimes
      /\ callSync \in [Calls -> BOOLEAN] /\ hasSynced \in BOOLEAN
  BY DEF CallInv, TypeInv, TypeOK, TriesInv
<1>1. ASSUME UNCHANGED <<pc, tries, callSync, hasSynced>> PROVE Stays(c)
  BY <1>1 DEF Stays, Builds
<1>2. ASSUME NEW d \in Calls, StartCall(d) \/ CallStep(d), d # c PROVE Stays(c)
  BY <1>0, <1>2
  DEF StartCall, CallStep, Build, Signed, SignRejected, Resend, FetchRejected, AnswerOk,
      AnswerError, AnswerNotFound, AnswerExpiry, Reenter, Enter, Retry, agentVars, Stays, Builds
<1>3. CASE StartCall(c) \/ Reenter(c)
  <2>1. PICK cs \in BOOLEAN : Enter(c, cs) /\ (pc[c] = "idle" \/ cs = callSync[c])
    BY <1>0, <1>3 DEF StartCall, Reenter
  <2>2. pc[c] = "idle" => callSync[c]
    BY DEF CallInv, RequestInv, IdleFresh
  <2> QED
    BY <1>0, <1>3, <2>1, <2>2 DEF StartCall, Reenter, Enter, Moves, Builds, Ahead, Ended
<1>4. CASE AnswerNotFound(c)
  <2>1. callSync[c]
    BY <1>4 DEF AnswerNotFound, CallInv, RequestInv, NotFoundOnV3
  <2> QED
    BY <1>0, <1>4, <2>1 DEF AnswerNotFound, Enter, Moves, Builds, Ahead, Ended
<1>5. CASE Build(c)
  BY <1>0, <1>5 DEF Build, agentVars, Moves, Builds, Ahead, Round, Ended
<1>6. CASE Signed(c) \/ Resend(c)
  BY <1>0, <1>6 DEF Signed, Resend, agentVars, Moves, Builds, Ahead, Ended
<1>7. CASE AnswerExpiry(c)
  BY <1>0, <1>7 DEF AnswerExpiry, Moves, Builds, Ahead, Ended
<1>8. CASE FetchRejected(c) \/ AnswerError(c)
  BY <1>0, <1>8 DEF FetchRejected, AnswerError, Retry, agentVars, Moves, Builds, Ahead, Ended
<1>9. CASE SignRejected(c) \/ AnswerOk(c)
  BY <1>0, <1>9 DEF SignRejected, AnswerOk, Moves, Ended
<1>10. CASE SyncStep \/ KeyStep
  BY <1>0, <1>10
  DEF SyncStep, SyncOk, SyncNone, SyncThrow, KeyStep, KeyFetched, KeyThrows, ResumeWaiters,
      FailWaiters, Waiting, SentBack, BackWithoutTime, Moves, Stays, Builds, Ahead, Ended
<1>11. CASE \/ Tick \/ InvalidateIdentity \/ UNCHANGED vars
            \/ (\E i \in Identities : ReplaceIdentity(i)) \/ \E m \in net : Replica(m)
  BY <1>1, <1>11 DEF Tick, InvalidateIdentity, ReplaceIdentity, Replica, vars, agentVars,
                     callVars
<1> QED
  BY <1>2, <1>3, <1>4, <1>5, <1>6, <1>7, <1>8, <1>9, <1>10, <1>11 DEF Next, CallStep

\* Apart from synchronisations without a time, no call moves more often than a
\* bound that depends on #retryTimes only: the retries, the fallback and the
\* synchronisation cannot keep each other going.
THEOREM CallTakesFinitelyManySteps == Spec => [][CallAdvances]_vars
<1>1. Init => TriesInv
  BY CallAssumption DEF Init, TriesInv
<1>2. CallInv /\ [Next]_vars => CallInv'
  BY TypeStep, RequestStep, TriesStep DEF CallInv
<1>3. Init => CallInv
  BY <1>1, TypeInit, RequestInit DEF CallInv
<1>4. CallInv /\ CallInv' /\ [Next]_vars => CallAdvances
  <2> SUFFICES ASSUME CallInv, CallInv', [Next]_vars, NEW c \in Calls
               PROVE  /\ StepsLeft(c) \in Nat /\ StepsLeft(c)' \in Nat
                      /\ ~SentBack(c) =>
                           /\ StepsLeft(c)' <= StepsLeft(c)
                           /\ pc'[c] # pc[c] => StepsLeft(c)' < StepsLeft(c)
    BY DEF CallAdvances
  <2>1. Stays(c) => pc'[c] = pc[c]
    BY DEF Stays
  <2> QED
    BY <2>1, MoveStep, Advance
<1> QED
  BY <1>2, <1>3, <1>4, PTL DEF Spec

-----------------------------------------------------------------------------
(* The expiry after a synchronisation *)

\* The clock difference in use is the client's error, up to the age of the
\* certified time and the duration of the synchronisation.
TimeInv ==
  /\ Syncing => sync.start <= now /\ now <= sync.start + MaxSync
  /\ hasSynced => -Lag <= timeDiff + env.skew /\ timeDiff + env.skew <= MaxSync

LEMMA TimeStep == TypeInv /\ TimeInv /\ [Next]_vars => TimeInv'
<1> SUFFICES ASSUME TypeInv, TimeInv, [Next]_vars PROVE TimeInv'
  OBVIOUS
<1> USE TimeAssumption
<1>0. /\ now \in Nat /\ sync.start \in Nat /\ timeDiff \in Int /\ env.skew \in Int
  BY DEF TypeInv, TypeOK
<1>1. CASE Tick
  BY <1>0, <1>1 DEF Tick, agentVars, Syncing, TimeInv
<1>2. ASSUME JoinSync \/ UNCHANGED sync, UNCHANGED rootKey \/ JoinKey,
             UNCHANGED <<now, env, hasSynced, timeDiff>>
      PROVE  TimeInv'
  BY <1>0, <1>2 DEF JoinSync, JoinKey, Syncing, TimeInv
<1>3. ASSUME NEW c \in Calls, StartCall(c) \/ AnswerNotFound(c) \/ Reenter(c)
      PROVE  TimeInv'
  <2>1. PICK cs : Enter(c, cs)
    BY <1>3 DEF StartCall, AnswerNotFound, Reenter
  <2> QED
    BY <1>2, <1>3, <2>1 DEF StartCall, AnswerNotFound, Reenter, Entered, Enter
<1>4. ASSUME NEW c \in Calls,
             Build(c) \/ Signed(c) \/ Resend(c) \/ SignRejected(c) \/ FetchRejected(c)
               \/ AnswerOk(c) \/ AnswerError(c) \/ AnswerExpiry(c)
      PROVE  TimeInv'
  BY <1>2, <1>4 DEF Build, Signed, Resend, SignRejected, FetchRejected, AnswerOk,
                    AnswerError, AnswerExpiry, agentVars
<1>5. CASE InvalidateIdentity \/ UNCHANGED vars
           \/ (\E i \in Identities : ReplaceIdentity(i)) \/ \E m \in net : Replica(m)
  BY <1>2, <1>5 DEF InvalidateIdentity, ReplaceIdentity, Replica, vars, agentVars
<1>6. CASE SyncOk
  <2>1. PICK r \in (sync.start - Lag)..now : timeDiff' = r - (sync.start + env.skew)
    BY <1>6 DEF SyncOk
  <2>2. sync.start <= now /\ now <= sync.start + MaxSync
    BY <1>6 DEF SyncOk, Syncing, TimeInv
  <2>3. timeDiff' + env.skew = r - sync.start /\ env' = env /\ ~sync'.pending
    BY <1>0, <1>6, <2>1 DEF SyncOk, TypeInv, TypeOK
  <2> QED
    BY <1>0, <2>1, <2>2, <2>3 DEF Syncing, TimeInv
<1>7. CASE SyncNone \/ SyncThrow
  <2>1. ~sync'.pending /\ UNCHANGED <<env, hasSynced, timeDiff>>
    BY <1>7 DEF SyncNone, SyncThrow, TypeInv, TypeOK
  <2> QED
    BY <2>1 DEF Syncing, TimeInv
<1>8. CASE KeyStep
  BY <1>0, <1>8 DEF KeyStep, KeyFetched, KeyThrows, Syncing, TimeInv, TypeInv, TypeOK
<1> QED
  BY <1>1, <1>3, <1>4, <1>5, <1>6, <1>7, <1>8 DEF Next, CallStep, SyncStep

\* Rounding down loses less than a granule.
LEMMA RoundDown ==
  ASSUME NEW x \in Int
  PROVE  LET r == (x \div Granule) * Granule
         IN  r \in Int /\ x - Granule < r /\ r <= x
<1>1. PICK q \in Int : q = x \div Granule
  BY TimeAssumption
<1>2. q * Granule <= x /\ x < (q + 1) * Granule
  BY <1>1, TimeAssumption
<1> QED
  BY <1>1, <1>2, TimeAssumption

\* Once the agent has synchronised, a request built now is within the window
\* of the replica, for every error of the client's clock.
THEOREM ExpiryAcceptedOnceSynced ==
  ASSUME Lag + Granule <= Delta, MaxSync <= Drift
  PROVE  Spec => []SyncedExpiryAccepted
<1>1. Init => TimeInv
  BY DEF Init, Syncing, TimeInv
<1>2. TypeInv /\ TimeInv => SyncedExpiryAccepted
  <2> SUFFICES ASSUME TypeInv, TimeInv, hasSynced PROVE ValidExpiry(IngressExpiry)
    BY DEF SyncedExpiryAccepted
  <2> DEFINE x == now + env.skew + Delta + timeDiff
  <2>1. now \in Nat /\ env.skew \in Int /\ timeDiff \in Int
    BY TimeAssumption DEF TypeInv, TypeOK
  <2>2. x \in Int /\ now + Delta - Lag <= x /\ x <= now + Delta + MaxSync
    BY <2>1, TimeAssumption DEF TimeInv
  <2>3. IngressExpiry \in Int /\ x - Granule < IngressExpiry /\ IngressExpiry <= x
    BY <2>2, RoundDown DEF IngressExpiry
  <2> HIDE DEF x
  <2> QED
    BY <2>1, <2>2, <2>3, TimeAssumption DEF ValidExpiry
<1> QED
  BY <1>1, <1>2, TypeInit, TypeStep, TimeStep, PTL DEF Spec
=============================================================================
