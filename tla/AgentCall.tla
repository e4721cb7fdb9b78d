----------------------------- MODULE AgentCall -----------------------------
(***************************************************************************)
(* Update calls of one HttpAgent (packages/agent/src/agent/http/index.ts): *)
(* the identity captured on entry, the guards for the root key and for the *)
(* shared time synchronisation, the request and its expiry, the fetch with *)
(* its retries, the fallback from the v3 to the v2 endpoint and the        *)
(* re-entry after an "Invalid request expiry" answer.  The replica and the *)
(* network are the environment.                                            *)
(*                                                                         *)
(* JavaScript runs to completion between awaits: an action is the code     *)
(* from one await that can last (a fetch, a delay, a signature, a shared   *)
(* promise) to the next.                                                   *)
(***************************************************************************)
EXTENDS Integers, FiniteSets

CONSTANTS
  Calls,          \* the invocations of HttpAgent.call
  FixedNonce,     \* those given options.nonce
  Identities,     \* identities the application installs
  Null,           \* no identity (after invalidateIdentity)
  RetryTimes,     \* #retryTimes
  MaxIterations,  \* of the ExponentialBackoff
  MaxElapsed,     \* of the ExponentialBackoff
  Delta,          \* #maxIngressExpiryInMinutes
  Granule,        \* the unit an expiry is rounded down to
  ShouldSyncTime, \* #shouldSyncTime
  RootKeys,       \* the root key at the start: set, to be fetched, or neither
  SyncOutcomes,   \* how a time synchronisation may end
  V3Modes,        \* who serves the v3 endpoint: every replica, none, some
  Skews,          \* client clock - network clock
  Drift,          \* how far beyond Delta the replica accepts an expiry
  Lag,            \* how old a certified time may be
  MaxSync,        \* bound: a synchronisation ends within this time
  MaxCount,       \* bound: the counters of a call stop here
  StartTime,      \* bound: the network time at the start
  MaxTime         \* bound: the network time at the end

ASSUME CallAssumption ==
  /\ FixedNonce \subseteq Calls
  /\ Null \notin Identities
  /\ RetryTimes \in Nat /\ MaxIterations \in Nat /\ MaxElapsed \in Nat
  /\ ShouldSyncTime \in BOOLEAN
  /\ RootKeys \subseteq {"set", "absent", "none"}
  /\ MaxCount \in Nat \ {0}
  /\ SyncOutcomes \subseteq {"ok", "none", "throw"}
  /\ V3Modes \subseteq {"all", "none", "mixed"}

ASSUME TimeAssumption ==
  /\ Skews \subseteq Int
  /\ Delta \in Nat /\ Granule \in Nat \ {0} /\ Drift \in Nat /\ Lag \in Nat
  /\ MaxSync \in Nat /\ StartTime \in Nat /\ MaxTime \in Nat
  /\ StartTime > Lag

VARIABLES
  now,        \* network time
  env,        \* what the environment fixes once: [skew, v3]
  identity,   \* #identity
  hasSynced,  \* #hasSyncedTime
  timeDiff,   \* #timeDiffMsecs
  sync,       \* #syncTimePromise: [pending, start]
  rootKey,    \* rootKey, and whether #rootKeyPromise is pending
  pc,         \* where each call is suspended
  callSync,   \* options.callSync of each call
  signer,     \* the identity each call captured on entry
  attempt,    \* how many requests each call has built
  req,        \* the request a call is sending: the fields its id is made of
  tries,      \* retries of the current request
  started,    \* when the backoff of the current request was created
  resp,       \* the answer to the fetch in flight, once the replica gave it
  resyncs,    \* synchronisations asked for by the call after a refusal
  fruitless,  \* those of them that returned without a time
  net,        \* requests on their way to a replica
  ingress     \* the request ids a replica accepted for execution

agentVars == <<identity, hasSynced, timeDiff, sync, rootKey>>
counts    == <<resyncs, fruitless>>
callVars  == <<pc, callSync, signer, attempt, req, tries, started, resp, counts>>
vars      == <<now, env, agentVars, callVars, net, ingress>>

(***************************************************************************)
(* Values                                                                  *)
(***************************************************************************)
PCs == {"idle", "guard", "build", "sign", "delay", "fetching", "resync",
        "reenter", "done", "failed"}

\* The calls that wait for the shared time synchronisation or for the root key.
Waiting == {"guard", "resync"}

\* The call is on its way from its entry to its next request.
Entering == {"idle", "guard", "build"}

\* The counters of a call serve its properties and its nonces.  They stop at
\* MaxCount, because a call may repeat itself without bound: from there on its
\* requests share a nonce.
Count(n) == IF n < MaxCount THEN n + 1 ELSE n

RequestId ==
  [call : Calls, nonce : Nat, sender : Identities, expiry : Int]

NoRequest == [call |-> Null, nonce |-> 0, sender |-> Null, expiry |-> 0]

Endpoint(c) == IF callSync[c] THEN "v3" ELSE "v2"

Message == [call : Calls, try : Nat, att : Nat, ep : {"v2", "v3"}, id : RequestId]

\* The fetch call c is waiting for.
CurrentFetch(c) ==
  [call |-> c, try |-> tries[c], att |-> attempt[c], ep |-> Endpoint(c), id |-> req[c]]

\* Expiry.fromDeltaInMilliseconds of Delta, from the client's clock.
IngressExpiry == ((now + env.skew + Delta + timeDiff) \div Granule) * Granule

\* What a replica accepts: not expired, and not too far in the future.
ValidExpiry(expiry) == now < expiry /\ expiry <= now + Delta + Drift

MakeNonce(c) == IF c \in FixedNonce THEN 0 ELSE attempt[c] + 1

Init ==
  /\ now = StartTime
  /\ env \in [skew : Skews, v3 : V3Modes]
  /\ identity \in Identities
  /\ hasSynced = FALSE /\ timeDiff = 0
  /\ sync = [pending |-> FALSE, start |-> StartTime]
  /\ rootKey \in RootKeys
  /\ pc = [c \in Calls |-> "idle"]
  /\ callSync = [c \in Calls |-> TRUE]
  /\ signer = [c \in Calls |-> Null]
  /\ attempt = [c \in Calls |-> 0]
  /\ req = [c \in Calls |-> NoRequest]
  /\ tries = [c \in Calls |-> 0]
  /\ started = [c \in Calls |-> StartTime]
  /\ resp = [c \in Calls |-> "none"]
  /\ resyncs = [c \in Calls |-> 0]
  /\ fruitless = [c \in Calls |-> 0]
  /\ net = {}
  /\ ingress = {}

(***************************************************************************)
(* Time and the application                                                *)
(***************************************************************************)
Tick ==
  /\ now < MaxTime
  /\ sync.pending /\ rootKey = "set" => now < sync.start + MaxSync
  /\ now' = now + 1
  /\ UNCHANGED <<env, agentVars, callVars, net, ingress>>

ReplaceIdentity(i) ==
  /\ identity # i
  /\ identity' = i
  /\ UNCHANGED <<now, env, hasSynced, timeDiff, sync, rootKey, callVars, net, ingress>>

InvalidateIdentity ==
  /\ identity # Null
  /\ identity' = Null
  /\ UNCHANGED <<now, env, hasSynced, timeDiff, sync, rootKey, callVars, net, ingress>>

(***************************************************************************)
(* HttpAgent.call                                                          *)
(***************************************************************************)

\* syncTime(): join the synchronisation in flight, or start one.
JoinSync ==
  sync' = IF sync.pending THEN sync ELSE [pending |-> TRUE, start |-> now]

\* #rootKeyGuard: join the fetch of the root key in flight, or start one.
JoinKey == rootKey' = IF rootKey = "absent" THEN "fetching" ELSE rootKey

\* #syncTimeGuard has to wait.
NeedsTime == ShouldSyncTime /\ ~hasSynced

\* call() up to the end of #asyncGuard, entered with callSync = cs.  Both
\* guards wait at the same time; without an identity, or without a root key
\* and leave to fetch it, the call throws.
Enter(c, cs) ==
  /\ callSync' = [callSync EXCEPT ![c] = cs]
  /\ signer' = [signer EXCEPT ![c] = identity]
  /\ \/ /\ identity = Null \/ rootKey = "none"
        /\ pc' = [pc EXCEPT ![c] = "failed"]
        /\ UNCHANGED <<sync, rootKey>>
     \/ /\ identity # Null /\ rootKey # "none"
        /\ NeedsTime \/ rootKey # "set"
        /\ pc' = [pc EXCEPT ![c] = "guard"]
        /\ IF NeedsTime THEN JoinSync ELSE UNCHANGED sync
        /\ JoinKey
     \/ /\ identity # Null /\ rootKey = "set"
        /\ ~NeedsTime
        /\ pc' = [pc EXCEPT ![c] = "build"]
        /\ UNCHANGED <<sync, rootKey>>

\* What no entry into call() changes.
Entered == UNCHANGED <<now, env, identity, hasSynced, timeDiff, attempt, req, tries,
                       started, resp, counts, net, ingress>>

StartCall(c) ==
  /\ pc[c] = "idle"
  /\ \E cs \in BOOLEAN : Enter(c, cs)
  /\ Entered

\* The request, its expiry and its nonce; then the identity is asked to sign.
Build(c) ==
  /\ pc[c] = "build"
  /\ attempt' = [attempt EXCEPT ![c] = Count(@)]
  /\ req' = [req EXCEPT ![c] = [call |-> c, nonce |-> MakeNonce(c),
                                sender |-> signer[c], expiry |-> IngressExpiry]]
  /\ tries' = [tries EXCEPT ![c] = 0]
  /\ pc' = [pc EXCEPT ![c] = "sign"]
  /\ UNCHANGED <<now, env, agentVars, callSync, signer, started, resp, counts,
                 net, ingress>>

\* The identity signed: the backoff is created and the first fetch goes out.
Signed(c) ==
  /\ pc[c] = "sign"
  /\ started' = [started EXCEPT ![c] = now]
  /\ resp' = [resp EXCEPT ![c] = "none"]
  /\ net' = net \union {CurrentFetch(c)}
  /\ pc' = [pc EXCEPT ![c] = "fetching"]
  /\ UNCHANGED <<now, env, agentVars, callSync, signer, attempt, req, tries,
                 counts, ingress>>

\* id.transformRequest rejects, outside the try block.
SignRejected(c) ==
  /\ pc[c] = "sign"
  /\ pc' = [pc EXCEPT ![c] = "failed"]
  /\ UNCHANGED <<now, env, agentVars, callSync, signer, attempt, req, tries,
                 started, resp, counts, net, ingress>>

\* Mutant: the retry builds a request of its own.
ResendRebuilt(c) ==
  /\ pc[c] = "delay"
  /\ resp' = [resp EXCEPT ![c] = "none"]
  /\ attempt' = [attempt EXCEPT ![c] = @ + 1]
  /\ req' = [req EXCEPT ![c].nonce = MakeNonce(c)]
  /\ UNCHANGED <<now, env, agentVars, callSync, signer, tries, started, counts,
                 ingress>>
  /\ net' = net \union {CurrentFetch(c)'}
  /\ pc' = [pc EXCEPT ![c] = "fetching"]

\* The delay before a retry is over: the same request again.
Resend(c) ==
  /\ pc[c] = "delay"
  /\ resp' = [resp EXCEPT ![c] = "none"]
  /\ net' = net \union {CurrentFetch(c)}
  /\ pc' = [pc EXCEPT ![c] = "fetching"]
  /\ UNCHANGED <<now, env, agentVars, callSync, signer, attempt, req, tries,
                 started, counts, ingress>>

\* A failed fetch: another try, unless they or the backoff are used up.
Retry(c) ==
  IF /\ tries[c] < RetryTimes
     /\ now - started[c] < MaxElapsed /\ tries[c] < MaxIterations
  THEN /\ tries' = [tries EXCEPT ![c] = @ + 1]
       /\ pc' = [pc EXCEPT ![c] = "delay"]
  ELSE /\ pc' = [pc EXCEPT ![c] = "failed"]
       /\ UNCHANGED tries

\* fetch() rejects: the request or its answer was lost, or is only late.
FetchRejected(c) ==
  /\ pc[c] = "fetching"
  /\ Retry(c)
  /\ UNCHANGED <<now, env, agentVars, callSync, signer, attempt, req, started,
                 resp, counts, net, ingress>>

\* Status 200 or 202: call() returns, whatever the body says.
AnswerOk(c) ==
  /\ pc[c] = "fetching" /\ resp[c] \in {"ok", "reject"}
  /\ pc' = [pc EXCEPT ![c] = "done"]
  /\ UNCHANGED <<now, env, agentVars, callSync, signer, attempt, req, tries,
                 started, resp, counts, net, ingress>>

AnswerError(c) ==
  /\ pc[c] = "fetching" /\ resp[c] = "error"
  /\ Retry(c)
  /\ UNCHANGED <<now, env, agentVars, callSync, signer, attempt, req, started,
                 resp, counts, net, ingress>>

\* Mutant: the call is made again on v3.
AnswerNotFoundSame(c) ==
  /\ pc[c] = "fetching" /\ resp[c] = "404"
  /\ Enter(c, callSync[c])
  /\ Entered

\* The v3 endpoint does not exist: the whole call again, on v2.
AnswerNotFound(c) ==
  /\ pc[c] = "fetching" /\ resp[c] = "404"
  /\ Enter(c, FALSE)
  /\ Entered

\* "Invalid request expiry": synchronise and call again, or give up.
AnswerExpiry(c) ==
  /\ pc[c] = "fetching" /\ resp[c] = "expiry"
  /\ \/ /\ ~hasSynced
        /\ JoinSync
        /\ resyncs' = [resyncs EXCEPT ![c] = Count(@)]
        /\ pc' = [pc EXCEPT ![c] = "resync"]
     \/ /\ hasSynced
        /\ pc' = [pc EXCEPT ![c] = "failed"]
        /\ UNCHANGED <<sync, resyncs>>
  /\ UNCHANGED <<now, env, identity, hasSynced, timeDiff, rootKey, callSync, signer,
                 attempt, req, tries, started, resp, fruitless, net, ingress>>

\* syncTime() returned to the call that asked for it: this.call(...) again.
Reenter(c) ==
  /\ pc[c] = "reenter"
  /\ Enter(c, callSync[c])
  /\ Entered

(***************************************************************************)
(* HttpAgent.syncTime and fetchRootKey, shared by the calls that wait      *)
(***************************************************************************)

\* The promise they share resolved in every call that waited for it.
ResumeWaiters ==
  [c \in Calls |-> CASE pc[c] = "guard"  -> "build"
                     [] pc[c] = "resync" -> "reenter"
                     [] OTHER            -> pc[c]]

\* The promise they share was rejected in every call that waited for it.
FailWaiters == [c \in Calls |-> IF pc[c] \in Waiting THEN "failed" ELSE pc[c]]

\* status() has the root key: a synchronisation that waited for it reads the
\* clock, the calls that waited for nothing else go on.
KeyFetched ==
  /\ rootKey = "fetching"
  /\ rootKey' = "set"
  /\ sync' = [sync EXCEPT !.start = now]
  /\ pc' = IF sync.pending THEN pc ELSE ResumeWaiters
  /\ UNCHANGED <<now, env, identity, hasSynced, timeDiff, callSync, signer, attempt,
                 req, tries, started, resp, counts, net, ingress>>

\* status() throws: every call that waited throws, and so does a
\* synchronisation that waited; the next call fetches the key again.
KeyThrows ==
  /\ rootKey = "fetching"
  /\ rootKey' = "absent"
  /\ sync' = [sync EXCEPT !.pending = FALSE]
  /\ pc' = FailWaiters
  /\ UNCHANGED <<now, env, identity, hasSynced, timeDiff, callSync, signer, attempt,
                 req, tries, started, resp, counts, net, ingress>>

\* The read_state requests of syncTime() are under way.
Syncing == sync.pending /\ rootKey = "set"

\* Mutant: hasSyncedTime stays false.
SyncOkForgotten ==
  /\ Syncing /\ "ok" \in SyncOutcomes
  /\ \E replicaTime \in (sync.start - Lag)..now :
       timeDiff' = replicaTime - (sync.start + env.skew)
  /\ sync' = [sync EXCEPT !.pending = FALSE]
  /\ pc' = ResumeWaiters
  /\ UNCHANGED <<now, env, identity, rootKey, hasSynced, callSync, signer, attempt, req,
                 tries, started, resp, counts, net, ingress>>

\* Mutant: the local time is read when the answers are there.
SyncOkLateClock ==
  /\ Syncing /\ "ok" \in SyncOutcomes
  /\ \E replicaTime \in (sync.start - Lag)..now :
       timeDiff' = replicaTime - (now + env.skew)
  /\ hasSynced' = TRUE
  /\ sync' = [sync EXCEPT !.pending = FALSE]
  /\ pc' = ResumeWaiters
  /\ UNCHANGED <<now, env, identity, rootKey, callSync, signer, attempt, req, tries,
                 started, resp, counts, net, ingress>>

\* Some read_state answered: the newest certified time is adopted.
SyncOk ==
  /\ Syncing /\ "ok" \in SyncOutcomes
  /\ \E replicaTime \in (sync.start - Lag)..now :
       timeDiff' = replicaTime - (sync.start + env.skew)
  /\ hasSynced' = TRUE
  /\ sync' = [sync EXCEPT !.pending = FALSE]
  /\ pc' = ResumeWaiters
  /\ UNCHANGED <<now, env, identity, rootKey, callSync, signer, attempt, req, tries,
                 started, resp, counts, net, ingress>>

\* No read_state answered: canisterStatus swallows the errors, there is no
\* time to adopt, and syncTime() returns normally.
SyncNone ==
  /\ Syncing /\ "none" \in SyncOutcomes
  /\ sync' = [sync EXCEPT !.pending = FALSE]
  /\ pc' = ResumeWaiters
  /\ fruitless' = [c \in Calls |-> IF pc[c] = "resync" THEN Count(fruitless[c])
                                   ELSE fruitless[c]]
  /\ UNCHANGED <<now, env, identity, hasSynced, timeDiff, rootKey, callSync, signer,
                 attempt, req, tries, started, resp, resyncs, net, ingress>>

\* Mutant: the rejection does not reach the calls that wait.
SyncThrowUnheard ==
  /\ Syncing /\ "throw" \in SyncOutcomes
  /\ sync' = [sync EXCEPT !.pending = FALSE]
  /\ UNCHANGED <<now, env, identity, hasSynced, timeDiff, rootKey, callVars, net,
                 ingress>>

\* A certificate did not verify: syncTime() throws in every call waiting.
SyncThrow ==
  /\ Syncing /\ "throw" \in SyncOutcomes
  /\ sync' = [sync EXCEPT !.pending = FALSE]
  /\ pc' = FailWaiters
  /\ UNCHANGED <<now, env, identity, rootKey, hasSynced, timeDiff, callSync, signer,
                 attempt, req, tries, started, resp, counts, net, ingress>>

(***************************************************************************)
(* The replica.  A request may reach it late, even after its fetch was     *)
(* given up; only the fetch in flight sees the answer.                     *)
(***************************************************************************)
Answer(m, status) ==
  resp' = IF pc[m.call] = "fetching" /\ m = CurrentFetch(m.call)
            THEN [resp EXCEPT ![m.call] = status]
            ELSE resp

Served(ep) == ep = "v2" \/ env.v3 # "none"

NotFound(m) ==
  /\ m.ep = "v3" /\ env.v3 # "all"
  /\ Answer(m, "404")
  /\ UNCHANGED ingress

RefuseExpiry(m) ==
  /\ Served(m.ep) /\ ~ValidExpiry(m.id.expiry)
  /\ Answer(m, "expiry")
  /\ UNCHANGED ingress

\* An accepted id is executed once, however often it is accepted.
Accept(m) ==
  /\ Served(m.ep) /\ ValidExpiry(m.id.expiry)
  /\ ingress' = ingress \union {m.id}
  /\ \E status \in {"ok", "error"} : Answer(m, status)

\* The replica does not take the message in and says so with status 200: the
\* body is a reject that no certificate covers.
RejectUncertified(m) ==
  /\ Served(m.ep) /\ ValidExpiry(m.id.expiry)
  /\ Answer(m, "reject")
  /\ UNCHANGED ingress

\* Overload, a gateway error: not accepted, any other status.
RefuseOther(m) ==
  /\ Answer(m, "error")
  /\ UNCHANGED ingress

Replica(m) ==
  /\ net' = net \ {m}
  /\ \/ NotFound(m) \/ RefuseExpiry(m) \/ Accept(m)
     \/ RejectUncertified(m) \/ RefuseOther(m)
  /\ UNCHANGED <<now, env, agentVars, pc, callSync, signer, attempt, req, tries,
                 started, counts>>

(***************************************************************************)
(* The specification                                                       *)
(***************************************************************************)
CallStep(c) ==
  \/ Build(c) \/ Signed(c) \/ SignRejected(c) \/ Resend(c)
  \/ FetchRejected(c) \/ AnswerOk(c) \/ AnswerError(c)
  \/ AnswerNotFound(c) \/ AnswerExpiry(c) \/ Reenter(c)

SyncStep == SyncOk \/ SyncNone \/ SyncThrow

KeyStep == KeyFetched \/ KeyThrows

Next ==
  \/ Tick
  \/ \E i \in Identities : ReplaceIdentity(i)
  \/ InvalidateIdentity
  \/ \E c \in Calls : StartCall(c) \/ CallStep(c)
  \/ SyncStep \/ KeyStep
  \/ \E m \in net : Replica(m)

Spec == Init /\ [][Next]_vars

\* Timers fire and promises settle: a fetch is answered or rejected, a
\* signature is given or refused, status() and a synchronisation end (its
\* agent tries nothing again, and its certificates are not checked for time).
FairSpec ==
  /\ Spec
  /\ \A c \in Calls : WF_vars(CallStep(c))
  /\ WF_vars(SyncStep) /\ WF_vars(KeyStep)

(***************************************************************************)
(* Properties                                                              *)
(***************************************************************************)

\* Every variable has a value of its type: the agent and its calls.
TypeOK ==
  /\ now \in Nat
  /\ env \in [skew : Skews, v3 : V3Modes]
  /\ identity \in Identities \union {Null}
  /\ hasSynced \in BOOLEAN /\ timeDiff \in Int
  /\ sync \in [pending : BOOLEAN, start : Nat]
  /\ rootKey \in {"set", "absent", "fetching", "none"}
  /\ pc \in [Calls -> PCs]
  /\ callSync \in [Calls -> BOOLEAN]
  /\ signer \in [Calls -> Identities \union {Null}]
  /\ attempt \in [Calls -> Nat]
  /\ req \in [Calls -> RequestId \union {NoRequest}]
  /\ tries \in [Calls -> Nat]
  /\ started \in [Calls -> Nat]
  /\ resp \in [Calls -> {"none", "ok", "reject", "404", "expiry", "error"}]
  /\ resyncs \in [Calls -> Nat] /\ fruitless \in [Calls -> Nat]
  /\ net \subseteq Message
  /\ ingress \subseteq RequestId

\* A call executes at most once as long as it was never refused for its
\* expiry, although fetches are lost, repeated and answered late and although
\* the call moves from v3 to v2: every retry carries the id of the first try,
\* and the move happens only when nothing was accepted on v3.  (Where some
\* replicas serve v3 and others do not, it may execute twice.)
AtMostOnceUnlessResynced ==
  env.v3 # "mixed" =>
    \A a, b \in ingress : a.call = b.call /\ resyncs[a.call] = 0 => a = b

\* A call asks for a time synchronisation once, and once more for each that
\* came back without a time: the refusal that follows a successful one is final.
ResyncsBounded == \A c \in Calls : resyncs[c] <= 1 + fruitless[c]

\* One call builds one request, one more after the fallback to v2 and one more
\* after each synchronisation it asked for, in any order: there is no other way
\* for it to send anything new, and no 404 sends it back to v3.
RequestsBounded == \A c \in Calls : attempt[c] <= 2 + resyncs[c]

\* After a synchronisation the expiry of a request built now is one the
\* replica accepts, however wrong the client's clock: the age of the certified
\* time, the duration of the synchronisation and the rounding stay within the
\* window (the run's constants keep Lag + Granule <= Delta, MaxSync <= Drift).
SyncedExpiryAccepted == hasSynced => ValidExpiry(IngressExpiry)

\* Call c comes back from a synchronisation that found no time.
BackWithoutTime(c) == pc[c] = "reenter" /\ ~hasSynced

\* Every call returns or throws, or for ever comes back from synchronisations
\* that find no time, is refused for its expiry and asks for the next one: no
\* other loop of retries, fallbacks and synchronisations goes on for ever, and
\* no call waits for a promise nobody settles.
CallSettles ==
  \A c \in Calls :
    \/ pc[c] # "idle" ~> pc[c] \in {"done", "failed"}
    \/ []<>BackWithoutTime(c)
=============================================================================
