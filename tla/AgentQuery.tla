----------------------------- MODULE AgentQuery -----------------------------
(***************************************************************************)
(* Query calls of one HttpAgent (packages/agent/src/agent/http/index.ts).  *)
(* A query is sent, and at the same time the node keys of the canister's   *)
(* subnet are taken from the cache or fetched.  When both are there the    *)
(* signature of the response is verified; if that fails the cached keys    *)
(* are deleted, fetched again, and the same response is verified once      *)
(* more.  Meanwhile other queries use, delete and replace the same entry.  *)
(*                                                                         *)
(* The environment rotates the nodes of the subnet: the node set number e  *)
(* is {e, e + 1}.  A node that left may still answer, and a response may   *)
(* be forged.  Time synchronisation, part of the guards, is the subject of *)
(* AgentCall.                                                              *)
(***************************************************************************)
EXTENDS ExpirableMap

CONSTANTS
  Queries,        \* the invocations of HttpAgent.query
  Canisters,      \* canisters, all of one subnet
  Verifying,      \* values of the option verifyQuerySignatures
  RetryTimes,     \* #retryTimes
  MaxIterations,  \* of the ExponentialBackoff
  MaxElapsed,     \* of the ExponentialBackoff
  MaxIngress,     \* #maxIngressExpiryInMs
  CertAge,        \* how old the certificate of the node keys may be
  NodeLag,        \* how late the clock of a node may be
  MaxRotations,   \* bound: rotations of the subnet's nodes
  MaxTime         \* bound on the time

ASSUME QueryAssumption ==
  /\ Verifying \subseteq BOOLEAN
  /\ RetryTimes \in Nat /\ MaxIterations \in Nat /\ MaxElapsed \in Nat
  /\ MaxIngress \in Nat /\ CertAge \in Nat /\ NodeLag \in Nat
  /\ MaxRotations \in Nat /\ MaxTime \in Nat

VARIABLES
  now,
  rotations,  \* history: the number of the node set at each time
  verify,     \* #verifyQuerySignatures
  subnetKeys, \* #subnetKeys
  canister,   \* the canister each query asks
  pc,         \* where each query is
  ask,        \* where its makeQuery() is
  keys,       \* where its getSubnetStatus() is
  tries,      \* retries of its request
  began,      \* when it began
  resp,       \* the response makeQuery() returned: [signer, arrived]
  status,     \* the keys getSubnetStatus() returned: the time they are certified at
  missed      \* history: its last fetch of the keys brought none

envVars   == <<now, rotations, verify>>
askVars   == <<ask, tries, resp>>
keyVars   == <<subnetKeys, keys, status, missed>>
vars      == <<envVars, askVars, keyVars, canister, pc, began>>

Times == 0 .. MaxTime
\* Nodes, and whoever signs like one: those not yet members are forgers.
Nodes == 0 .. MaxRotations + 1
\* The node set certified at a time.
Members(t) == {rotations[t], rotations[t] + 1}

NoResponse == [signer |-> 0, arrived |-> 0]

Init ==
  /\ now = 0 /\ rotations = [t \in Times |-> 0]
  /\ verify \in Verifying
  /\ subnetKeys = {}
  /\ canister \in [Queries -> Canisters]
  /\ pc = [q \in Queries |-> "idle"]
  /\ ask = [q \in Queries |-> "none"]
  /\ keys = [q \in Queries |-> "none"]
  /\ tries = [q \in Queries |-> 0]
  /\ began = [q \in Queries |-> 0]
  /\ resp = [q \in Queries |-> NoResponse]
  /\ status = [q \in Queries |-> 0]
  /\ missed = [q \in Queries |-> FALSE]

\* Time passes, and a node may have been replaced.
Tick ==
  /\ now < MaxTime /\ now' = now + 1
  /\ \E e \in {rotations[now], rotations[now] + 1} :
       /\ e <= MaxRotations
       /\ rotations' = [t \in Times |-> IF t > now THEN e ELSE rotations[t]]
  /\ UNCHANGED <<verify, askVars, keyVars, canister, pc, began>>

(***************************************************************************)
(* getSubnetStatus and the verification                                    *)
(***************************************************************************)
Signs(r, t) == r.signer \in Members(t)

\* The promise of query() rejects; what it has under way goes on unheard.
Rejects(q) ==
  pc' = IF pc[q] \in {"both", "again"} THEN [pc EXCEPT ![q] = "failed"] ELSE pc

\* getSubnetStatus() found keys certified at t; they go to the local variable.
Have(q, t) ==
  /\ keys' = [keys EXCEPT ![q] = "have"]
  /\ status' = [status EXCEPT ![q] = t]

\* Mutant: the keys that did not fit stay in the cache.
RefreshCached(q, r, m) ==
  LET found == Get(m, canister[q], now)
  IN  /\ subnetKeys' = m
      /\ IF found = {}
           THEN /\ keys' = [keys EXCEPT ![q] = "fetching"]
                /\ pc' = [pc EXCEPT ![q] = "again"]
                /\ UNCHANGED status
           ELSE \E t \in found :
                  /\ Have(q, t)
                  /\ pc' = [pc EXCEPT ![q] = IF Signs(r, t) THEN "done" ELSE "badSignature"]

\* The keys may have changed: they are deleted, and getSubnetStatus() runs again.
Refresh(q, r, m) ==
  LET left  == Delete(m, canister[q])
      found == Get(left, canister[q], now)
  IN  /\ subnetKeys' = left
      /\ IF found = {}
           THEN /\ keys' = [keys EXCEPT ![q] = "fetching"]
                /\ pc' = [pc EXCEPT ![q] = "again"]
                /\ UNCHANGED status
           ELSE \E t \in found :
                  /\ Have(q, t)
                  /\ pc' = [pc EXCEPT ![q] = IF Signs(r, t) THEN "done" ELSE "badSignature"]

\* Response r and keys certified at t are both there; m is the cache.
Verify(q, r, t, m) ==
  IF Signs(r, t) \/ pc[q] = "again"
    THEN /\ pc' = [pc EXCEPT ![q] = IF Signs(r, t) THEN "done" ELSE "badSignature"]
         /\ Have(q, t)
         /\ subnetKeys' = m
    ELSE Refresh(q, r, m)

(***************************************************************************)
(* query                                                                   *)
(***************************************************************************)

\* The guards passed: the request is sent, and the keys are looked up.
StartQuery(q, c) ==
  /\ pc[q] = "idle"
  /\ pc' = [pc EXCEPT ![q] = "both"]
  /\ canister' = [canister EXCEPT ![q] = c]
  /\ ask' = [ask EXCEPT ![q] = "fetching"]
  /\ began' = [began EXCEPT ![q] = now]
  /\ IF ~verify THEN UNCHANGED keyVars
     ELSE /\ subnetKeys' = AfterGet(subnetKeys, c, now)
          /\ \/ /\ Get(subnetKeys, c, now) = {}
                /\ keys' = [keys EXCEPT ![q] = "fetching"]
                /\ UNCHANGED status
             \/ \E t \in Get(subnetKeys, c, now) : Have(q, t)
          /\ UNCHANGED missed
  /\ UNCHANGED <<envVars, tries, resp>>

\* No root key, no time, no identity, or no signature: the guards throw.
StartFails(q) ==
  /\ pc[q] = "idle"
  /\ pc' = [pc EXCEPT ![q] = "failed"]
  /\ UNCHANGED <<envVars, askVars, keyVars, canister, began>>

(***************************************************************************)
(* #requestAndRetryQuery                                                   *)
(***************************************************************************)

\* Mutant: the retry is not counted.
RetryUncounted(q) ==
  /\ ask' = [ask EXCEPT ![q] = "delay"]
  /\ UNCHANGED <<tries, pc>>

\* Another try, unless the tries or the backoff are used up.
Retry(q) ==
  IF tries[q] < RetryTimes /\ tries[q] < MaxIterations /\ now - began[q] < MaxElapsed
    THEN /\ ask' = [ask EXCEPT ![q] = "delay"]
         /\ tries' = [tries EXCEPT ![q] = @ + 1]
         /\ UNCHANGED pc
    ELSE /\ ask' = [ask EXCEPT ![q] = "failed"]
         /\ Rejects(q)
         /\ UNCHANGED tries

Resend(q) ==
  /\ ask[q] = "delay"
  /\ ask' = [ask EXCEPT ![q] = "fetching"]
  /\ UNCHANGED <<envVars, tries, resp, keyVars, canister, pc, began>>

\* fetch() rejects, or the status is not 200.
AskRejected(q) ==
  /\ ask[q] = "fetching" /\ Retry(q)
  /\ UNCHANGED <<envVars, resp, keyVars, canister, began>>

\* The signature is older than an ingress message may be.
Outdated(q) ==
  /\ ask[q] = "fetching" /\ verify
  /\ \E age \in 0 .. NodeLag : age > MaxIngress
  /\ Retry(q)
  /\ UNCHANGED <<envVars, resp, keyVars, canister, began>>

\* A response without a signature: no retry.
Unsigned(q) ==
  /\ ask[q] = "fetching" /\ verify
  /\ ask' = [ask EXCEPT ![q] = "failed"]
  /\ Rejects(q)
  /\ UNCHANGED <<envVars, tries, resp, keyVars, canister, began>>

\* A response of a node, of one that left the subnet, or a forged one.
Responded(q, signer) ==
  LET r == [signer |-> signer, arrived |-> now]
  IN  /\ ask[q] = "fetching"
      /\ ask' = [ask EXCEPT ![q] = "have"]
      /\ resp' = [resp EXCEPT ![q] = r]
      /\ IF pc[q] = "both" /\ verify /\ keys[q] = "have"
           THEN Verify(q, r, status[q], subnetKeys)
           ELSE /\ pc' = IF ~verify THEN [pc EXCEPT ![q] = "done"] ELSE pc
                /\ UNCHANGED <<subnetKeys, keys, status>>
      /\ UNCHANGED <<envVars, tries, missed, canister, began>>

(***************************************************************************)
(* fetchSubnetKeys                                                         *)
(***************************************************************************)

\* getSubnetStatus() returns the keys certified at t; m is the cache.
Found(q, t, m) ==
  IF pc[q] = "again" \/ (pc[q] = "both" /\ ask[q] = "have")
    THEN Verify(q, resp[q], t, m)
    ELSE Have(q, t) /\ subnetKeys' = m /\ UNCHANGED pc

\* The certified keys are cached, also for a query that failed meanwhile.
KeysAnswered(q) ==
  /\ keys[q] = "fetching"
  /\ \E t \in Times :
       /\ now - CertAge <= t /\ t <= now
       /\ Found(q, t, Put(subnetKeys, canister[q], t, now))
  /\ missed' = [missed EXCEPT ![q] = FALSE]
  /\ UNCHANGED <<envVars, askVars, canister, began>>

\* canisterStatus swallowed an error: the cache may still hold what another
\* query fetched.
KeysMissing(q) ==
  LET found == Get(subnetKeys, canister[q], now)
      m     == AfterGet(subnetKeys, canister[q], now)
  IN  /\ keys[q] = "fetching"
      /\ \/ \E t \in found : Found(q, t, m)
         \/ /\ found = {}
            /\ subnetKeys' = m
            /\ keys' = [keys EXCEPT ![q] = "failed"]
            /\ Rejects(q)
            /\ UNCHANGED status
      /\ missed' = [missed EXCEPT ![q] = TRUE]
      /\ UNCHANGED <<envVars, askVars, canister, began>>

\* A guard or the verification of the certificate throws.
KeysThrow(q) ==
  /\ keys[q] = "fetching"
  /\ keys' = [keys EXCEPT ![q] = "failed"]
  /\ Rejects(q)
  /\ UNCHANGED <<envVars, askVars, subnetKeys, status, missed, canister, began>>

(***************************************************************************)
(* The specification                                                       *)
(***************************************************************************)
AskStep(q) ==
  \/ Resend(q) \/ AskRejected(q) \/ Outdated(q) \/ Unsigned(q)
  \/ \E signer \in Nodes : Responded(q, signer)

KeyStep(q) == KeysAnswered(q) \/ KeysMissing(q) \/ KeysThrow(q)

Next ==
  \/ Tick
  \/ \E q \in Queries :
       \/ \E c \in Canisters : StartQuery(q, c)
       \/ StartFails(q) \/ AskStep(q) \/ KeyStep(q)

Spec == Init /\ [][Next]_vars

\* A fetch is answered or rejected, a timer fires.  A fetch of keys need not
\* end: canisterStatus verifies a certificate, and Certificate.verify repeats
\* itself as long as the synchronisations it asks for find no time.
FairSpec == Spec /\ \A q \in Queries : WF_vars(AskStep(q))

(***************************************************************************)
(* Properties                                                              *)
(***************************************************************************)
Ended == {"done", "badSignature", "failed"}

\* Types, and the cache has one entry for a canister.
TypeOK ==
  /\ now \in Times /\ rotations \in [Times -> 0 .. MaxRotations] /\ verify \in BOOLEAN
  /\ subnetKeys \subseteq [key : Canisters, value : Times, timestamp : Times]
  /\ \A e, f \in subnetKeys : e.key = f.key => e = f
  /\ canister \in [Queries -> Canisters]
  /\ pc \in [Queries -> {"idle", "both", "again"} \union Ended]
  /\ ask \in [Queries -> {"none", "fetching", "delay", "have", "failed"}]
  /\ keys \in [Queries -> {"none", "fetching", "have", "failed"}]
  /\ tries \in [Queries -> 0 .. RetryTimes]
  /\ began \in [Queries -> Times]
  /\ resp \in [Queries -> [signer : Nodes, arrived : Times]]
  /\ status \in [Queries -> Times]
  /\ missed \in [Queries -> BOOLEAN]

\* A response is returned only if its signer was a node of the subnet by keys
\* no older than the cache allows when the query began, whatever other queries
\* cached or deleted and however late a fetch they had given up was answered.
VerifiedByRecentKeys ==
  \A q \in Queries :
    verify /\ pc[q] = "done" =>
      /\ Signs(resp[q], status[q])
      /\ status[q] >= began[q] - ExpirationTime - CertAge

\* A response is rejected for its signature only by keys fetched after it
\* arrived, never because the cached ones are from before a rotation (unless
\* that fetch brought no keys).
RejectedByFreshKeys ==
  \A q \in Queries :
    pc[q] = "badSignature" /\ ~missed[q] => status[q] >= resp[q].arrived - CertAge

\* Every query returns or throws, unless its fetch of keys never ends: neither
\* its retries nor what other queries do to the cache keep it going.
QuerySettles ==
  \A q \in Queries :
    (pc[q] = "both" ~> pc[q] \in Ended) \/ <>[](keys[q] = "fetching")
=============================================================================
