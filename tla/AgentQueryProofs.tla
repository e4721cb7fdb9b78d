-------------------------- MODULE AgentQueryProofs --------------------------
(***************************************************************************)
(* Queries: typing, and how old the keys are that accept or reject a       *)
(* response, for any number of queries, retries and rotations.             *)
(***************************************************************************)
EXTENDS AgentQuery, TLAPS

\* A cache with one entry for a canister, none of the future, and none with
\* keys certified more than CertAge before they were stored.
GoodMap(m) ==
  /\ m \subseteq [key : Canisters, value : Times, timestamp : Times]
  /\ \A e, f \in m : e.key = f.key => e = f
  /\ \A e \in m : /\ e.timestamp <= now /\ e.value <= now
                  /\ e.value >= e.timestamp - CertAge

\* The variables that no case split needs to look into.
BaseOK ==
  /\ now \in Times /\ rotations \in [Times -> 0 .. MaxRotations]
  /\ canister \in [Queries -> Canisters]
  /\ tries \in [Queries -> 0 .. RetryTimes]
  /\ began \in [Queries -> Times]
  /\ resp \in [Queries -> [signer : Nodes, arrived : Times]]
  /\ status \in [Queries -> Times]
  /\ pc \in [Queries -> {"idle", "both", "again"} \union Ended]
  /\ ask \in [Queries -> {"none", "fetching", "delay", "have", "failed"}]
  /\ keys \in [Queries -> {"none", "fetching", "have", "failed"}]

Flags == verify \in BOOLEAN /\ missed \in [Queries -> BOOLEAN]

Recent(q, t) == t >= began[q] - ExpirationTime - CertAge

\* What holds of one query.
QueryOK(q) ==
  /\ began[q] <= now /\ resp[q].arrived <= now /\ status[q] <= now
  /\ pc[q] = "idle" => keys[q] = "none" /\ ask[q] = "none"
  /\ keys[q] = "have" => Recent(q, status[q])
  /\ pc[q] = "again" => ask[q] = "have"
  /\ verify /\ pc[q] = "done" =>
       ask[q] = "have" /\ keys[q] = "have" /\ Signs(resp[q], status[q])
  /\ pc[q] = "badSignature" =>
       /\ ask[q] = "have" /\ keys[q] = "have"
       /\ missed[q] \/ status[q] >= resp[q].arrived - CertAge

Inv ==
  /\ BaseOK /\ Flags
  /\ GoodMap(subnetKeys)
  /\ \A q \in Queries : QueryOK(q)

LEMMA TypeOfInv == Inv => TypeOK
BY DEF Inv, BaseOK, Flags, GoodMap, TypeOK

(***************************************************************************)
(* The cache                                                               *)
(***************************************************************************)

\* get() of a good map returns keys that are recent and not of the future,
\* and what it leaves is a good map.
LEMMA GetGood ==
  ASSUME BaseOK, NEW m, GoodMap(m), NEW c \in Canisters
  PROVE  /\ GoodMap(AfterGet(m, c, now))
         /\ GoodMap(Delete(m, c))
         /\ Get(Delete(m, c), c, now) = {}
         /\ \A t \in Get(m, c, now) :
              t \in Times /\ t <= now /\ t >= now - ExpirationTime - CertAge
<1>1. GoodMap(AfterGet(m, c, now)) /\ GoodMap(Delete(m, c))
  BY DEF GoodMap, AfterGet, Delete
<1>2. Get(Delete(m, c), c, now) = {}
  BY DEF Get, Delete
<1>3. ASSUME NEW t \in Get(m, c, now)
      PROVE  t \in Times /\ t <= now /\ t >= now - ExpirationTime - CertAge
  <2>1. PICK e \in m : t = e.value /\ ~Expired(e, now)
    BY DEF Get
  <2>2. e \in [key : Canisters, value : Times, timestamp : Times]
    BY DEF GoodMap
  <2>3. /\ e.value \in Times /\ e.timestamp \in Times
        /\ e.value <= now /\ e.value >= e.timestamp - CertAge
    BY <2>2 DEF GoodMap
  <2>4. now - e.timestamp <= ExpirationTime
    BY <2>1, <2>3, ExpirationAssumption, QueryAssumption DEF Expired, BaseOK, Times
  <2>. QED  BY <2>1, <2>3, <2>4, ExpirationAssumption, QueryAssumption DEF BaseOK, Times
<1>. QED  BY <1>1, <1>2, <1>3

\* set() of keys certified at most CertAge ago leaves a good map.
LEMMA PutGood ==
  ASSUME BaseOK, NEW m, GoodMap(m), NEW c \in Canisters,
         NEW t \in Times, t <= now, now - CertAge <= t
  PROVE  GoodMap(Put(m, c, t, now))
<1>. DEFINE n == Entry(c, t, now)
<1>1. /\ n \in [key : Canisters, value : Times, timestamp : Times]
      /\ n.key = c /\ n.value = t /\ n.timestamp = now
  BY DEF Entry, BaseOK
<1>2. Put(m, c, t, now) \subseteq {e \in m : e.key # c} \union {n}
  BY DEF Put, Delete, Prune
<1>. HIDE DEF n
<1>3. Put(m, c, t, now) \subseteq [key : Canisters, value : Times, timestamp : Times]
  BY <1>1, <1>2 DEF GoodMap
<1>4. \A e, f \in Put(m, c, t, now) : e.key = f.key => e = f
  BY <1>1, <1>2 DEF GoodMap
<1>5. now <= now /\ now - CertAge <= now
  BY QueryAssumption DEF BaseOK, Times
<1>6. \A e \in Put(m, c, t, now) : /\ e.timestamp <= now /\ e.value <= now
                                    /\ e.value >= e.timestamp - CertAge
  BY <1>1, <1>2, <1>5, QueryAssumption DEF GoodMap, BaseOK, Times
<1>. QED  BY <1>3, <1>4, <1>6 DEF GoodMap

\* The outcomes of a verification: accepted; rejected, the second time; or
\* the keys are deleted and fetched again.
LEMMA VerifyOutcome ==
  ASSUME BaseOK, NEW q \in Queries, NEW r, NEW t, NEW m, GoodMap(m), Verify(q, r, t, m)
  PROVE  /\ GoodMap(subnetKeys')
         /\ \/ /\ Signs(r, t) /\ Have(q, t)
               /\ pc' = [pc EXCEPT ![q] = "done"]
            \/ /\ pc[q] = "again" /\ Have(q, t)
               /\ pc' = [pc EXCEPT ![q] = "badSignature"]
            \/ /\ pc[q] # "again"
               /\ pc' = [pc EXCEPT ![q] = "again"]
               /\ keys' = [keys EXCEPT ![q] = "fetching"]
               /\ status' = status
<1>1. CASE Signs(r, t)
  BY <1>1 DEF Verify
<1>2. CASE ~Signs(r, t) /\ pc[q] = "again"
  BY <1>2 DEF Verify
<1>3. CASE ~Signs(r, t) /\ pc[q] # "again"
  <2>1. canister[q] \in Canisters
    BY DEF BaseOK
  <2>2. GoodMap(Delete(m, canister[q])) /\ Get(Delete(m, canister[q]), canister[q], now) = {}
    BY <2>1, GetGood
  <2>3. Refresh(q, r, m)
    BY <1>3 DEF Verify
  <2>. QED  BY <1>3, <2>2, <2>3 DEF Refresh
<1>. QED  BY <1>1, <1>2, <1>3

LEMMA HaveTyped ==
  ASSUME BaseOK, NEW q \in Queries, NEW t \in Times, Have(q, t)
  PROVE  /\ status' \in [Queries -> Times]
         /\ keys' \in [Queries -> {"none", "fetching", "have", "failed"}]
BY DEF BaseOK, Have

(***************************************************************************)
(* One query moves                                                         *)
(***************************************************************************)

\* Nothing of the other queries changes.
OthersStay(q) ==
  \A p \in Queries \ {q} :
    /\ pc'[p] = pc[p] /\ ask'[p] = ask[p] /\ keys'[p] = keys[p]
    /\ began'[p] = began[p] /\ resp'[p] = resp[p] /\ status'[p] = status[p]
    /\ missed'[p] = missed[p]

LEMMA OneMoves ==
  ASSUME Inv, NEW q \in Queries, OthersStay(q), UNCHANGED envVars,
         BaseOK', Flags', GoodMap(subnetKeys'), QueryOK(q)'
  PROVE  Inv'
<1>1. GoodMap(subnetKeys)'
  BY DEF GoodMap, envVars
<1>2. ASSUME NEW p \in Queries \ {q}
      PROVE  QueryOK(p)'
  <2>1. QueryOK(p)
    BY DEF Inv
  <2>. QED  BY <2>1 DEF QueryOK, OthersStay, Recent, Signs, Members, envVars
<1>. QED  BY <1>1, <1>2 DEF Inv

\* A query whose response is there is verified with keys certified at t.
LEMMA VerifiedOK ==
  ASSUME Inv, NEW q \in Queries, NEW t \in Times, t <= now, Recent(q, t),
         NEW m, GoodMap(m), Verify(q, resp'[q], t, m),
         UNCHANGED <<envVars, tries, canister, began>>,
         ask' \in [Queries -> {"none", "fetching", "delay", "have", "failed"}],
         resp' \in [Queries -> [signer : Nodes, arrived : Times]],
         missed' \in [Queries -> BOOLEAN],
         \A p \in Queries \ {q} :
           ask'[p] = ask[p] /\ resp'[p] = resp[p] /\ missed'[p] = missed[p],
         ask'[q] = "have", resp'[q].arrived <= now,
         pc[q] = "again" => missed'[q] \/ t >= resp'[q].arrived - CertAge
  PROVE  Inv'
<1>. USE DEF Inv
<1>1. /\ GoodMap(subnetKeys')
      /\ \/ /\ Signs(resp'[q], t) /\ Have(q, t)
            /\ pc' = [pc EXCEPT ![q] = "done"]
         \/ /\ pc[q] = "again" /\ Have(q, t)
            /\ pc' = [pc EXCEPT ![q] = "badSignature"]
         \/ /\ pc[q] # "again"
            /\ pc' = [pc EXCEPT ![q] = "again"]
            /\ keys' = [keys EXCEPT ![q] = "fetching"]
            /\ status' = status
  BY VerifyOutcome
<1>2. BaseOK'
  <2>1. /\ status' \in [Queries -> Times]
        /\ keys' \in [Queries -> {"none", "fetching", "have", "failed"}]
    BY <1>1, HaveTyped DEF BaseOK
  <2>2. pc' \in [Queries -> {"idle", "both", "again"} \union Ended]
    BY <1>1 DEF BaseOK, Ended
  <2>. QED  BY <2>1, <2>2 DEF BaseOK, envVars
<1>3. Flags'
  BY DEF Flags, envVars
<1>4. OthersStay(q)
  BY <1>1 DEF OthersStay, Have, BaseOK
<1>5. QueryOK(q)
  OBVIOUS
<1>6. QueryOK(q)'
  <2>1. Signs(resp'[q], t) => Signs(resp[q], t)'
    BY DEF Signs, Members, envVars
  <2>2. began'[q] <= now' /\ resp'[q].arrived <= now' /\ Recent(q, t)'
    BY <1>5 DEF QueryOK, Recent, envVars
  <2>3. CASE Signs(resp'[q], t) /\ Have(q, t) /\ pc' = [pc EXCEPT ![q] = "done"]
    <3>1. pc'[q] = "done" /\ keys'[q] = "have" /\ status'[q] = t /\ now' = now
      BY <2>3 DEF BaseOK, Have, envVars
    <3>. QED  BY <2>1, <2>2, <2>3, <3>1 DEF QueryOK, Recent, Signs
  <2>4. CASE pc[q] = "again" /\ Have(q, t) /\ pc' = [pc EXCEPT ![q] = "badSignature"]
    <3>1. pc'[q] = "badSignature" /\ keys'[q] = "have" /\ status'[q] = t /\ now' = now
      BY <2>4 DEF BaseOK, Have, envVars
    <3>. QED  BY <2>2, <2>4, <3>1 DEF QueryOK, Recent
  <2>5. CASE /\ pc' = [pc EXCEPT ![q] = "again"]
             /\ keys' = [keys EXCEPT ![q] = "fetching"] /\ status' = status
    <3>1. pc'[q] = "again" /\ keys'[q] = "fetching" /\ status'[q] <= now'
      BY <1>5, <2>5 DEF BaseOK, QueryOK, envVars
    <3>. QED  BY <2>2, <3>1 DEF QueryOK
  <2>. QED  BY <1>1, <2>3, <2>4, <2>5
<1>. QED  BY <1>1, <1>2, <1>3, <1>4, <1>6, OneMoves

(***************************************************************************)
(* The actions                                                             *)
(***************************************************************************)
LEMMA TickOK == Inv /\ Tick => Inv'
<1>. SUFFICES ASSUME Inv, Tick PROVE Inv'
  OBVIOUS
<1>. USE DEF Inv
<1>1. now' \in Times /\ now' = now + 1 /\ now \in Times
  BY QueryAssumption DEF Tick, BaseOK, Times
<1>2. PICK r \in 0 .. MaxRotations :
        rotations' = [t \in Times |-> IF t > now THEN r ELSE rotations[t]]
  <2>1. PICK r \in {rotations[now], rotations[now] + 1} :
          /\ r <= MaxRotations
          /\ rotations' = [t \in Times |-> IF t > now THEN r ELSE rotations[t]]
    BY DEF Tick
  <2>2. r \in 0 .. MaxRotations
    BY <1>1, <2>1, QueryAssumption DEF BaseOK
  <2>. QED  BY <2>1, <2>2
<1>3. \A t \in Times : t <= now => Members(t)' = Members(t)
  BY <1>1, <1>2 DEF Members, Times
<1>4. rotations' \in [Times -> 0 .. MaxRotations]
  BY <1>2 DEF BaseOK
<1>5. BaseOK' /\ Flags'
  BY <1>1, <1>4 DEF Tick, BaseOK, Flags, askVars, keyVars
<1>6. GoodMap(subnetKeys)'
  <2>1. \A e \in subnetKeys : e \in [key : Canisters, value : Times, timestamp : Times]
    BY DEF GoodMap
  <2>2. \A e \in subnetKeys : e.timestamp <= now' /\ e.value <= now'
    BY <1>1, <2>1, QueryAssumption DEF GoodMap, Times
  <2>. QED  BY <2>2 DEF GoodMap, Tick, keyVars
<1>7. ASSUME NEW q \in Queries
      PROVE  QueryOK(q)'
  <2>1. QueryOK(q) /\ status[q] \in Times /\ began[q] \in Times /\ resp[q].arrived \in Times
    BY DEF BaseOK
  <2>2. Signs(resp[q], status[q])' = Signs(resp[q], status[q])
    BY <1>3, <2>1 DEF Signs, QueryOK, Tick, askVars, keyVars
  <2>3. began[q] <= now' /\ resp[q].arrived <= now' /\ status[q] <= now'
    BY <1>1, <2>1, QueryAssumption DEF QueryOK, Times
  <2>. QED  BY <2>1, <2>2, <2>3 DEF QueryOK, Tick, askVars, keyVars, Recent
<1>. QED  BY <1>5, <1>6, <1>7

\* The first step of a query: cached keys are recent enough for it.
LEMMA StartQueryOK ==
  ASSUME Inv, NEW q \in Queries, NEW c \in Canisters, StartQuery(q, c)
  PROVE  Inv'
<1>. USE DEF Inv
<1>0. QueryOK(q) /\ pc[q] = "idle" /\ ask[q] = "none" /\ keys[q] = "none"
  BY DEF StartQuery, QueryOK
<1>1. /\ now' = now /\ rotations' = rotations /\ verify' = verify
      /\ tries' = tries /\ resp' = resp /\ missed' = missed
      /\ pc' = [pc EXCEPT ![q] = "both"] /\ canister' = [canister EXCEPT ![q] = c]
      /\ ask' = [ask EXCEPT ![q] = "fetching"] /\ began' = [began EXCEPT ![q] = now]
  BY DEF StartQuery, envVars, keyVars
<1>2. /\ GoodMap(subnetKeys')
      /\ \/ keys' = keys /\ status' = status
         \/ keys' = [keys EXCEPT ![q] = "fetching"] /\ status' = status
         \/ \E t \in Times : /\ t <= now /\ t >= now - ExpirationTime - CertAge
                             /\ Have(q, t)
  <2>1. CASE ~verify
    BY <2>1 DEF StartQuery, keyVars
  <2>2. CASE verify
    <3>1. GoodMap(AfterGet(subnetKeys, c, now))
      BY GetGood
    <3>2. \A t \in Get(subnetKeys, c, now) :
            t \in Times /\ t <= now /\ t >= now - ExpirationTime - CertAge
      BY GetGood
    <3>. QED  BY <2>2, <3>1, <3>2 DEF StartQuery
  <2>. QED  BY <2>1, <2>2
<1>3. BaseOK'
  <2>1. /\ status' \in [Queries -> Times]
        /\ keys' \in [Queries -> {"none", "fetching", "have", "failed"}]
    BY <1>2 DEF BaseOK, Have
  <2>2. pc' \in [Queries -> {"idle", "both", "again"} \union Ended]
    BY <1>1 DEF BaseOK
  <2>. QED  BY <1>1, <2>1, <2>2 DEF BaseOK
<1>4. Flags'
  BY <1>1 DEF Flags
<1>5. OthersStay(q)
  BY <1>1, <1>2 DEF OthersStay, Have, BaseOK
<1>6. QueryOK(q)'
  <2>1. pc'[q] = "both" /\ began'[q] = now
    BY <1>1 DEF BaseOK
  <2>2. status'[q] <= now /\ (keys'[q] = "have" => status'[q] >= now - ExpirationTime - CertAge)
    BY <1>0, <1>2 DEF BaseOK, Have, QueryOK
  <2>3. now <= now /\ resp[q].arrived <= now
    BY <1>0 DEF QueryOK, BaseOK, Times
  <2>. QED  BY <1>1, <2>1, <2>2, <2>3 DEF QueryOK, Recent
<1>. QED  BY <1>1, <1>2, <1>3, <1>4, <1>5, <1>6, OneMoves DEF envVars

LEMMA StartFailsOK ==
  ASSUME Inv, NEW q \in Queries, StartFails(q)
  PROVE  Inv'
<1>. USE DEF Inv
<1>1. /\ pc' = [pc EXCEPT ![q] = "failed"] /\ pc[q] = "idle"
      /\ UNCHANGED <<envVars, askVars, keyVars, canister, began>>
  BY DEF StartFails
<1>2. BaseOK' /\ Flags' /\ OthersStay(q)
  BY <1>1 DEF BaseOK, Flags, OthersStay, Ended, envVars, askVars, keyVars
<1>3. QueryOK(q) /\ pc'[q] = "failed"
  BY <1>1 DEF BaseOK
<1>4. QueryOK(q)'
  BY <1>1, <1>3 DEF QueryOK, Recent, envVars, askVars, keyVars
<1>. QED  BY <1>1, <1>2, <1>4, OneMoves DEF keyVars

\* A step that leaves the keys and the response alone, and that ends the query
\* only by its failure.
LEMMA AskOnlyOK ==
  ASSUME Inv, NEW q \in Queries, ask[q] \in {"fetching", "delay"},
         NEW a \in {"fetching", "delay", "failed"}, ask' = [ask EXCEPT ![q] = a],
         tries' \in [Queries -> 0 .. RetryTimes],
         pc' = pc \/ Rejects(q),
         UNCHANGED <<envVars, resp, keyVars, canister, began>>
  PROVE  Inv'
<1>. USE DEF Inv
<1>1. pc' = pc \/ (pc[q] \in {"both", "again"} /\ pc' = [pc EXCEPT ![q] = "failed"])
  BY DEF Rejects
<1>2. pc' \in [Queries -> {"idle", "both", "again"} \union Ended]
  BY <1>1 DEF BaseOK, Ended
<1>3. BaseOK' /\ Flags'
  BY <1>2 DEF BaseOK, Flags, envVars, keyVars
<1>4. OthersStay(q)
  BY <1>1 DEF OthersStay, BaseOK, keyVars
<1>5. QueryOK(q) /\ ask[q] # "none" /\ ask[q] # "have"
  OBVIOUS
<1>6. pc'[q] = pc[q] \/ pc'[q] = "failed"
  BY <1>1 DEF BaseOK
<1>7. QueryOK(q)'
  BY <1>5, <1>6 DEF QueryOK, Recent, envVars, keyVars
<1>. QED  BY <1>3, <1>4, <1>7, OneMoves DEF keyVars

LEMMA RetryTyped ==
  ASSUME Inv, NEW q \in Queries, Retry(q)
  PROVE  /\ \E a \in {"fetching", "delay", "failed"} : ask' = [ask EXCEPT ![q] = a]
         /\ tries' \in [Queries -> 0 .. RetryTimes]
         /\ pc' = pc \/ Rejects(q)
<1>1. tries[q] < RetryTimes => tries[q] + 1 \in 0 .. RetryTimes
  BY QueryAssumption DEF Inv, BaseOK
<1>. QED  BY <1>1 DEF Retry, Inv, BaseOK

LEMMA AskStepsOK ==
  ASSUME Inv, NEW q \in Queries,
         Resend(q) \/ AskRejected(q) \/ Outdated(q) \/ Unsigned(q)
  PROVE  Inv'
<1>1. CASE Resend(q)
  BY <1>1, AskOnlyOK DEF Resend, Inv, BaseOK
<1>2. CASE AskRejected(q)
  BY <1>2, RetryTyped, AskOnlyOK DEF AskRejected
<1>3. CASE Outdated(q)
  BY <1>3, RetryTyped, AskOnlyOK DEF Outdated
<1>4. CASE Unsigned(q)
  BY <1>4, AskOnlyOK DEF Unsigned, Inv, BaseOK
<1>. QED  BY <1>1, <1>2, <1>3, <1>4

LEMMA RespondedOK ==
  ASSUME Inv, NEW q \in Queries, NEW signer \in Nodes, Responded(q, signer)
  PROVE  Inv'
<1>. USE DEF Inv
<1>. DEFINE r == [signer |-> signer, arrived |-> now]
<1>1. /\ UNCHANGED <<envVars, tries, missed, canister, began>>
      /\ ask[q] = "fetching" /\ ask' = [ask EXCEPT ![q] = "have"]
      /\ resp' = [resp EXCEPT ![q] = r]
  BY DEF Responded
<1>2. r \in [signer : Nodes, arrived : Times] /\ r.arrived = now
  BY DEF BaseOK
<1>3. now <= now /\ status[q] \in Times /\ QueryOK(q)
  BY QueryAssumption DEF BaseOK, Times
<1>. HIDE DEF r
<1>4. /\ ask' \in [Queries -> {"none", "fetching", "delay", "have", "failed"}]
      /\ resp' \in [Queries -> [signer : Nodes, arrived : Times]]
      /\ missed' \in [Queries -> BOOLEAN]
      /\ ask'[q] = "have" /\ resp'[q] = r
      /\ \A p \in Queries \ {q} :
           ask'[p] = ask[p] /\ resp'[p] = resp[p] /\ missed'[p] = missed[p]
  BY <1>1, <1>2 DEF BaseOK, Flags
<1>5. CASE pc[q] = "both" /\ verify /\ keys[q] = "have"
  <2>1. Verify(q, resp'[q], status[q], subnetKeys)
    BY <1>4, <1>5 DEF Responded, r
  <2>2. status[q] <= now /\ Recent(q, status[q])
    BY <1>3, <1>5 DEF QueryOK
  <2>. QED  BY <1>1, <1>2, <1>3, <1>4, <1>5, <2>1, <2>2, VerifiedOK
<1>6. CASE ~(pc[q] = "both" /\ verify /\ keys[q] = "have")
  <2>1. /\ pc' = IF ~verify THEN [pc EXCEPT ![q] = "done"] ELSE pc
        /\ UNCHANGED <<subnetKeys, keys, status>>
    BY <1>6 DEF Responded
  <2>2. pc' \in [Queries -> {"idle", "both", "again"} \union Ended]
    BY <2>1 DEF BaseOK, Ended
  <2>3. BaseOK' /\ Flags'
    BY <1>1, <1>4, <2>1, <2>2 DEF BaseOK, Flags, envVars
  <2>4. OthersStay(q)
    BY <1>1, <1>4, <2>1 DEF OthersStay, BaseOK
  <2>5. pc'[q] = IF ~verify THEN "done" ELSE pc[q]
    BY <2>1 DEF BaseOK
  <2>6. QueryOK(q)'
    BY <1>1, <1>2, <1>3, <1>4, <2>1, <2>5 DEF QueryOK, Recent, envVars
  <2>. QED  BY <1>1, <2>1, <2>3, <2>4, <2>6, OneMoves
<1>. QED  BY <1>5, <1>6

\* getSubnetStatus() returned keys certified at t, and left m in the cache.
LEMMA FoundOK ==
  ASSUME Inv, NEW q \in Queries, keys[q] = "fetching",
         NEW t \in Times, t <= now, Recent(q, t),
         NEW m, GoodMap(m), Found(q, t, m),
         UNCHANGED <<envVars, askVars, canister, began>>,
         missed' \in [Queries -> BOOLEAN],
         \A p \in Queries \ {q} : missed'[p] = missed[p],
         missed'[q] \/ t >= now - CertAge
  PROVE  Inv'
<1>. USE DEF Inv
<1>1. QueryOK(q) /\ resp[q].arrived \in Times /\ now \in Times /\ CertAge \in Nat
  BY QueryAssumption DEF BaseOK
<1>2. CASE pc[q] = "again" \/ (pc[q] = "both" /\ ask[q] = "have")
  <2>1. Verify(q, resp[q], t, m)
    BY <1>2 DEF Found
  <2>2. ask[q] = "have" /\ resp[q].arrived <= now
    BY <1>1, <1>2 DEF QueryOK
  <2>3. missed'[q] \/ t >= resp[q].arrived - CertAge
    BY <1>1, <2>2 DEF Times
  <2>4. /\ ask' \in [Queries -> {"none", "fetching", "delay", "have", "failed"}]
        /\ resp' \in [Queries -> [signer : Nodes, arrived : Times]]
        /\ resp' = resp /\ ask' = ask /\ tries' = tries
    BY DEF BaseOK, askVars
  <2>. QED  BY <2>1, <2>2, <2>3, <2>4, VerifiedOK
<1>3. CASE ~(pc[q] = "again" \/ (pc[q] = "both" /\ ask[q] = "have"))
  <2>1. Have(q, t) /\ subnetKeys' = m /\ pc' = pc
    BY <1>3 DEF Found
  <2>2. BaseOK' /\ Flags'
    BY <2>1, HaveTyped DEF BaseOK, Flags, askVars, envVars
  <2>3. OthersStay(q) /\ keys'[q] = "have" /\ status'[q] = t
    BY <2>1 DEF OthersStay, Have, BaseOK, askVars
  <2>4. QueryOK(q)'
    BY <1>1, <1>3, <2>1, <2>3 DEF QueryOK, Recent, askVars, envVars
  <2>. QED  BY <2>1, <2>2, <2>3, <2>4, OneMoves
<1>. QED  BY <1>2, <1>3

\* Keys as old as the cache allows now are recent for a query that has begun.
LEMMA RecentNow ==
  ASSUME Inv, NEW q \in Queries, NEW t \in Times, t >= now - ExpirationTime - CertAge
  PROVE  Recent(q, t)
<1>1. QueryOK(q) /\ began[q] \in Times /\ now \in Times
  BY DEF Inv, BaseOK
<1>. QED  BY <1>1, ExpirationAssumption, QueryAssumption DEF QueryOK, Recent, Times

LEMMA KeysAnsweredOK ==
  ASSUME Inv, NEW q \in Queries, KeysAnswered(q)
  PROVE  Inv'
<1>1. PICK t \in Times : /\ now - CertAge <= t /\ t <= now
                         /\ Found(q, t, Put(subnetKeys, canister[q], t, now))
  BY DEF KeysAnswered
<1>2. canister[q] \in Canisters /\ BaseOK /\ GoodMap(subnetKeys)
  BY DEF Inv, BaseOK
<1>3. GoodMap(Put(subnetKeys, canister[q], t, now))
  BY <1>1, <1>2, PutGood
<1>4. t >= now - CertAge /\ t >= now - ExpirationTime - CertAge
  BY <1>1, <1>2, ExpirationAssumption, QueryAssumption DEF BaseOK, Times
<1>5. Recent(q, t)
  BY <1>4, RecentNow
<1>6. missed' \in [Queries -> BOOLEAN] /\ \A p \in Queries \ {q} : missed'[p] = missed[p]
  BY Zenon DEF KeysAnswered, Inv, Flags
<1>. QED  BY <1>1, <1>3, <1>4, <1>5, <1>6, FoundOK DEF KeysAnswered

\* A query that fails, or one that failed before, without keys.
LEMMA WithoutKeysOK ==
  ASSUME Inv, NEW q \in Queries, keys[q] = "fetching",
         keys' = [keys EXCEPT ![q] = "failed"], Rejects(q), GoodMap(subnetKeys'),
         UNCHANGED <<envVars, askVars, status, canister, began>>,
         missed' \in [Queries -> BOOLEAN],
         \A p \in Queries \ {q} : missed'[p] = missed[p]
  PROVE  Inv'
<1>. USE DEF Inv
<1>1. pc' = pc \/ pc' = [pc EXCEPT ![q] = "failed"]
  BY DEF Rejects
<1>2. pc' \in [Queries -> {"idle", "both", "again"} \union Ended]
  BY <1>1 DEF BaseOK, Ended
<1>3. BaseOK' /\ Flags'
  BY <1>2 DEF BaseOK, Flags, askVars, envVars
<1>4. OthersStay(q) /\ keys'[q] = "failed" /\ (pc'[q] = pc[q] \/ pc'[q] = "failed")
  BY <1>1 DEF OthersStay, BaseOK, askVars
<1>5. QueryOK(q)'
  <2>1. QueryOK(q)
    OBVIOUS
  <2>. QED  BY <1>4, <2>1 DEF QueryOK, Recent, askVars, envVars
<1>. QED  BY <1>3, <1>4, <1>5, OneMoves

LEMMA KeysMissingOK ==
  ASSUME Inv, NEW q \in Queries, KeysMissing(q)
  PROVE  Inv'
<1>. DEFINE m == AfterGet(subnetKeys, canister[q], now)
<1>1. canister[q] \in Canisters /\ BaseOK /\ GoodMap(subnetKeys)
  BY DEF Inv, BaseOK
<1>2. /\ GoodMap(m)
      /\ \A t \in Get(subnetKeys, canister[q], now) :
           t \in Times /\ t <= now /\ t >= now - ExpirationTime - CertAge
  BY <1>1, GetGood
<1>3. /\ missed' \in [Queries -> BOOLEAN] /\ missed'[q]
      /\ \A p \in Queries \ {q} : missed'[p] = missed[p]
  BY Zenon DEF KeysMissing, Inv, Flags
<1>4. CASE \E t \in Get(subnetKeys, canister[q], now) : Found(q, t, m)
  BY <1>2, <1>3, <1>4, RecentNow, FoundOK DEF KeysMissing
<1>5. CASE /\ subnetKeys' = m /\ keys' = [keys EXCEPT ![q] = "failed"]
           /\ Rejects(q) /\ status' = status
  BY <1>2, <1>3, <1>5, WithoutKeysOK DEF KeysMissing
<1>. QED  BY <1>4, <1>5 DEF KeysMissing

LEMMA KeysThrowOK ==
  ASSUME Inv, NEW q \in Queries, KeysThrow(q)
  PROVE  Inv'
<1>1. GoodMap(subnetKeys') /\ missed' \in [Queries -> BOOLEAN] /\ missed' = missed
  BY DEF KeysThrow, Inv, Flags
<1>. QED  BY <1>1, WithoutKeysOK DEF KeysThrow

LEMMA StutterOK == Inv /\ UNCHANGED vars => Inv'
BY DEF vars, envVars, askVars, keyVars, Inv, BaseOK, Flags, GoodMap, QueryOK, Recent,
       Signs, Members

LEMMA InitOK == Init => Inv
<1>. SUFFICES ASSUME Init PROVE Inv
  OBVIOUS
<1>1. 0 \in Times /\ 0 \in 0 .. MaxRotations /\ 0 \in Nodes /\ 0 \in 0 .. RetryTimes
  BY QueryAssumption DEF Times, Nodes
<1>2. NoResponse \in [signer : Nodes, arrived : Times] /\ NoResponse.arrived = 0
  BY <1>1 DEF NoResponse
<1>3. BaseOK
  <2>1. resp \in [Queries -> [signer : Nodes, arrived : Times]]
    BY <1>2 DEF Init
  <2>. QED  BY <1>1, <2>1 DEF Init, BaseOK
<1>4. Flags
  <2>1. verify \in BOOLEAN
    BY QueryAssumption DEF Init
  <2>. QED  BY <2>1, Zenon DEF Init, Flags
<1>5. GoodMap(subnetKeys)
  BY DEF Init, GoodMap
<1>6. \A q \in Queries : QueryOK(q)
  BY <1>2 DEF Init, QueryOK
<1>. QED  BY <1>3, <1>4, <1>5, <1>6 DEF Inv

LEMMA NextOK == Inv /\ [Next]_vars => Inv'
<1>. SUFFICES ASSUME Inv, [Next]_vars PROVE Inv'
  OBVIOUS
<1>1. CASE Tick
  BY <1>1, TickOK
<1>2. ASSUME NEW q \in Queries, NEW c \in Canisters, StartQuery(q, c) PROVE Inv'
  BY <1>2, StartQueryOK
<1>3. ASSUME NEW q \in Queries, StartFails(q) PROVE Inv'
  BY <1>3, StartFailsOK
<1>4. ASSUME NEW q \in Queries, AskStep(q) PROVE Inv'
  BY <1>4, AskStepsOK, RespondedOK DEF AskStep
<1>5. ASSUME NEW q \in Queries, KeyStep(q) PROVE Inv'
  BY <1>5, KeysAnsweredOK, KeysMissingOK, KeysThrowOK DEF KeyStep
<1>6. CASE UNCHANGED vars
  BY <1>6, StutterOK
<1>. QED  BY <1>1, <1>2, <1>3, <1>4, <1>5, <1>6 DEF Next

THEOREM Invariance == Spec => []Inv
BY InitOK, NextOK, PTL DEF Spec

(***************************************************************************)
(* Theorems                                                                *)
(***************************************************************************)

\* Every reachable state is well typed, and the cache of node keys never holds
\* two entries for one canister.
THEOREM TypeCorrect == Spec => []TypeOK
BY Invariance, TypeOfInv, PTL

\* For any number of queries, retries and rotations, a response is returned
\* only if it verified with keys no older than the cache allows.
THEOREM AcceptedByRecentKeys == Spec => []VerifiedByRecentKeys
<1>1. Inv => VerifiedByRecentKeys
  BY DEF Inv, QueryOK, Recent, VerifiedByRecentKeys
<1>. QED  BY <1>1, Invariance, PTL

\* A response is rejected for its signature only by keys fetched after it
\* arrived, unless that fetch brought none.
THEOREM NeverRejectedByStaleKeys == Spec => []RejectedByFreshKeys
<1>1. Inv => RejectedByFreshKeys
  BY DEF Inv, QueryOK, RejectedByFreshKeys
<1>. QED  BY <1>1, Invariance, PTL
(***************************************************************************)
(* A query takes finitely many steps                                       *)
(***************************************************************************)

\* What is ahead of a request at a that has been retried n times.
AskLeft(a, n) ==
  CASE a = "none"     -> 2 * RetryTimes + 2
    [] a = "fetching" -> 2 * (RetryTimes - n) + 1
    [] a = "delay"    -> 2 * (RetryTimes - n) + 2
    [] OTHER          -> 0

\* What is ahead of the keys, k, of a query at p: they can be fetched once with
\* the request, and once more when they do not fit the response.
KeysLeft(p, k) ==
  (CASE p = "idle" -> 4 [] p = "both" -> 2 [] OTHER -> 0)
    + (IF k = "fetching" THEN 1 ELSE 0)

StepsLeft(q) == AskLeft(ask[q], tries[q]) + KeysLeft(pc[q], keys[q])

\* Whenever something happens to a query, to its request, to its keys or to
\* the promise it returned, there are fewer steps left.
QueryAdvances ==
  \A q \in Queries :
    pc'[q] # pc[q] \/ ask'[q] # ask[q] \/ keys'[q] # keys[q] =>
      StepsLeft(q) \in Nat /\ StepsLeft(q)' \in Nat /\ StepsLeft(q)' < StepsLeft(q)

LEMMA LeftIsNat ==
  ASSUME NEW p, NEW k, NEW a, NEW n \in 0 .. RetryTimes
  PROVE  AskLeft(a, n) \in Nat /\ KeysLeft(p, k) \in Nat
BY QueryAssumption DEF AskLeft, KeysLeft

LEMMA StepsLeftAre ==
  ASSUME Inv, Inv', NEW q \in Queries,
         \/ /\ AskLeft(ask'[q], tries'[q]) < AskLeft(ask[q], tries[q])
            /\ KeysLeft(pc'[q], keys'[q]) <= KeysLeft(pc[q], keys[q])
         \/ /\ AskLeft(ask'[q], tries'[q]) <= AskLeft(ask[q], tries[q])
            /\ KeysLeft(pc'[q], keys'[q]) < KeysLeft(pc[q], keys[q])
  PROVE  StepsLeft(q) \in Nat /\ StepsLeft(q)' \in Nat /\ StepsLeft(q)' < StepsLeft(q)
<1>1. tries[q] \in 0 .. RetryTimes /\ tries'[q] \in 0 .. RetryTimes
  BY DEF Inv, BaseOK
<1>2. /\ AskLeft(ask[q], tries[q]) \in Nat /\ KeysLeft(pc[q], keys[q]) \in Nat
      /\ AskLeft(ask'[q], tries'[q]) \in Nat /\ KeysLeft(pc'[q], keys'[q]) \in Nat
  BY <1>1, LeftIsNat
<1>3. /\ StepsLeft(q) = AskLeft(ask[q], tries[q]) + KeysLeft(pc[q], keys[q])
      /\ StepsLeft(q)' = AskLeft(ask'[q], tries'[q]) + KeysLeft(pc'[q], keys'[q])
  BY DEF StepsLeft
<1>. QED  BY <1>2, <1>3

\* The promise of a query that is not idle does not go back.
Onward(p, p1) == p1 = p \/ p1 \in Ended

\* The request uses up a try, or ends.
LEMMA AskAdvances ==
  ASSUME Inv, Inv', NEW q \in Queries,
         Resend(q) \/ AskRejected(q) \/ Outdated(q) \/ Unsigned(q)
  PROVE  StepsLeft(q) \in Nat /\ StepsLeft(q)' \in Nat /\ StepsLeft(q)' < StepsLeft(q)
<1>1. /\ tries[q] \in 0 .. RetryTimes /\ pc[q] \in {"idle", "both", "again"} \union Ended
      /\ ask \in [Queries -> {"none", "fetching", "delay", "have", "failed"}]
      /\ tries \in [Queries -> 0 .. RetryTimes]
      /\ pc \in [Queries -> {"idle", "both", "again"} \union Ended]
  BY DEF Inv, BaseOK
<1>2. keys' = keys /\ Onward(pc[q], pc'[q])
  BY <1>1 DEF Resend, AskRejected, Outdated, Unsigned, Retry, Rejects, keyVars, Onward, Ended
<1>3. KeysLeft(pc'[q], keys'[q]) <= KeysLeft(pc[q], keys[q])
  BY <1>2 DEF KeysLeft, Onward, Ended
<1>4. AskLeft(ask'[q], tries'[q]) < AskLeft(ask[q], tries[q])
  BY <1>1, QueryAssumption
  DEF Resend, AskRejected, Outdated, Unsigned, Retry, AskLeft, askVars
<1>. QED  BY <1>3, <1>4, StepsLeftAre

\* A verification ends the query or fetches its keys again, for the last time.
LEMMA VerifyAdvances ==
  ASSUME Inv, NEW q \in Queries, NEW r, NEW t, NEW m, GoodMap(m), Verify(q, r, t, m),
         pc[q] \in {"both", "again"}, pc[q] = "again" => keys[q] = "fetching"
  PROVE  KeysLeft(pc'[q], keys'[q]) < KeysLeft(pc[q], keys[q])
<1>1. pc \in [Queries -> {"idle", "both", "again"} \union Ended]
      /\ keys \in [Queries -> {"none", "fetching", "have", "failed"}]
  BY DEF Inv, BaseOK
<1>2. \/ keys'[q] = "have" /\ pc'[q] \in Ended
      \/ pc[q] = "both" /\ pc'[q] = "again" /\ keys'[q] = "fetching"
  BY <1>1, VerifyOutcome DEF Have, Ended, Inv
<1>. QED  BY <1>2 DEF KeysLeft, Ended

LEMMA RespondedAdvances ==
  ASSUME Inv, Inv', NEW q \in Queries, NEW signer \in Nodes, Responded(q, signer)
  PROVE  StepsLeft(q) \in Nat /\ StepsLeft(q)' \in Nat /\ StepsLeft(q)' < StepsLeft(q)
<1>. DEFINE r == [signer |-> signer, arrived |-> now]
<1>1. AskLeft(ask'[q], tries'[q]) < AskLeft(ask[q], tries[q])
  BY QueryAssumption DEF Responded, AskLeft, Inv, BaseOK
<1>2. CASE pc[q] = "both" /\ verify /\ keys[q] = "have"
  <2>1. Verify(q, r, status[q], subnetKeys) /\ GoodMap(subnetKeys)
    BY <1>2 DEF Responded, Inv
  <2>. HIDE DEF r
  <2>2. KeysLeft(pc'[q], keys'[q]) < KeysLeft(pc[q], keys[q])
    BY <1>2, <2>1, VerifyAdvances
  <2>3. KeysLeft(pc'[q], keys'[q]) \in Nat /\ KeysLeft(pc[q], keys[q]) \in Nat
    BY DEF KeysLeft
  <2>. QED  BY <1>1, <2>2, <2>3, StepsLeftAre
<1>3. CASE ~(pc[q] = "both" /\ verify /\ keys[q] = "have")
  <2>1. keys' = keys /\ Onward(pc[q], pc'[q])
    BY <1>3 DEF Responded, Onward, Ended, Inv, BaseOK
  <2>2. KeysLeft(pc'[q], keys'[q]) <= KeysLeft(pc[q], keys[q])
    BY <2>1 DEF KeysLeft, Onward, Ended
  <2>. QED  BY <1>1, <2>2, StepsLeftAre
<1>. QED  BY <1>2, <1>3

\* A fetch of keys ends, or is followed by the last one.
LEMMA FoundAdvances ==
  ASSUME Inv, NEW q \in Queries, keys[q] = "fetching",
         NEW t, NEW m, GoodMap(m), Found(q, t, m)
  PROVE  KeysLeft(pc'[q], keys'[q]) < KeysLeft(pc[q], keys[q])
<1>1. CASE pc[q] = "again" \/ (pc[q] = "both" /\ ask[q] = "have")
  BY <1>1, VerifyAdvances DEF Found
<1>2. CASE ~(pc[q] = "again" \/ (pc[q] = "both" /\ ask[q] = "have"))
  <2>1. keys'[q] = "have" /\ pc' = pc
    BY <1>2 DEF Found, Have, Inv, BaseOK
  <2>. QED  BY <2>1 DEF KeysLeft
<1>. QED  BY <1>1, <1>2

LEMMA KeysAdvance ==
  ASSUME Inv, Inv', NEW q \in Queries, KeyStep(q)
  PROVE  StepsLeft(q) \in Nat /\ StepsLeft(q)' \in Nat /\ StepsLeft(q)' < StepsLeft(q)
<1>1. /\ canister[q] \in Canisters /\ BaseOK /\ GoodMap(subnetKeys)
      /\ pc \in [Queries -> {"idle", "both", "again"} \union Ended]
      /\ keys \in [Queries -> {"none", "fetching", "have", "failed"}]
  BY DEF Inv, BaseOK
<1>2. KeysLeft(pc'[q], keys'[q]) < KeysLeft(pc[q], keys[q])
  <2>1. ASSUME keys[q] = "fetching", keys' = [keys EXCEPT ![q] = "failed"], Rejects(q)
        PROVE  KeysLeft(pc'[q], keys'[q]) < KeysLeft(pc[q], keys[q])
    BY <1>1, <2>1 DEF Rejects, KeysLeft, Ended
  <2>2. CASE KeysAnswered(q)
    BY <1>1, <2>2, PutGood, FoundAdvances DEF KeysAnswered
  <2>3. CASE KeysMissing(q)
    BY <1>1, <2>1, <2>3, GetGood, FoundAdvances DEF KeysMissing
  <2>4. CASE KeysThrow(q)
    BY <2>1, <2>4 DEF KeysThrow
  <2>. QED  BY <2>2, <2>3, <2>4 DEF KeyStep
<1>3. ask' = ask /\ tries' = tries
  BY DEF KeyStep, KeysAnswered, KeysMissing, KeysThrow, askVars
<1>4. AskLeft(ask'[q], tries'[q]) <= AskLeft(ask[q], tries[q])
  <2>1. AskLeft(ask[q], tries[q]) \in Nat
    BY LeftIsNat DEF Inv, BaseOK
  <2>. QED  BY <1>3, <2>1
<1>. QED  BY <1>2, <1>4, StepsLeftAre

LEMMA StartAdvances ==
  ASSUME Inv, Inv', NEW q \in Queries,
         StartFails(q) \/ \E c \in Canisters : StartQuery(q, c)
  PROVE  StepsLeft(q) \in Nat /\ StepsLeft(q)' \in Nat /\ StepsLeft(q)' < StepsLeft(q)
<1>1. /\ pc[q] = "idle" /\ ask[q] = "none" /\ keys[q] = "none"
      /\ tries' = tries /\ tries[q] \in 0 .. RetryTimes
      /\ pc'[q] \in {"both", "failed"} /\ ask'[q] \in {"none", "fetching"}
  BY DEF StartFails, StartQuery, askVars, Inv, BaseOK, QueryOK
<1>2. AskLeft(ask'[q], tries'[q]) <= AskLeft(ask[q], tries[q])
  BY <1>1, QueryAssumption DEF AskLeft
<1>3. KeysLeft(pc'[q], keys'[q]) < KeysLeft(pc[q], keys[q])
  BY <1>1 DEF KeysLeft
<1>. QED  BY <1>2, <1>3, StepsLeftAre

\* Nothing happens to a query by what another one does.
LEMMA OthersUndisturbed ==
  ASSUME Inv, NEW q \in Queries, NEW p \in Queries \ {q},
         \/ StartFails(q) \/ (\E c \in Canisters : StartQuery(q, c))
         \/ AskStep(q) \/ KeyStep(q)
  PROVE  pc'[p] = pc[p] /\ ask'[p] = ask[p] /\ keys'[p] = keys[p]
<1>. USE DEF Inv
<1>1. /\ canister[q] \in Canisters /\ BaseOK /\ GoodMap(subnetKeys)
      /\ pc \in [Queries -> {"idle", "both", "again"} \union Ended]
      /\ ask \in [Queries -> {"none", "fetching", "delay", "have", "failed"}]
      /\ keys \in [Queries -> {"none", "fetching", "have", "failed"}]
  BY DEF BaseOK
<1>2. CASE StartFails(q) \/ \E c \in Canisters : StartQuery(q, c)
  BY <1>1, <1>2 DEF StartFails, StartQuery, askVars, keyVars, Have
<1>3. CASE Resend(q) \/ AskRejected(q) \/ Outdated(q) \/ Unsigned(q)
  BY <1>1, <1>3 DEF Resend, AskRejected, Outdated, Unsigned, Retry, Rejects, keyVars
<1>4. ASSUME NEW r, NEW t, NEW m, GoodMap(m), Verify(q, r, t, m)
      PROVE  pc'[p] = pc[p] /\ keys'[p] = keys[p]
  BY <1>1, <1>4, VerifyOutcome DEF Have
<1>5. CASE \E signer \in Nodes : Responded(q, signer)
  BY <1>1, <1>4, <1>5 DEF Responded
<1>6. ASSUME NEW t, NEW m, GoodMap(m), Found(q, t, m)
      PROVE  pc'[p] = pc[p] /\ keys'[p] = keys[p]
  BY <1>1, <1>4, <1>6 DEF Found, Have
<1>7. CASE KeysAnswered(q)
  BY <1>1, <1>6, <1>7, PutGood DEF KeysAnswered, askVars
<1>8. CASE KeysMissing(q)
  BY <1>1, <1>6, <1>8, GetGood DEF KeysMissing, Rejects, askVars
<1>9. CASE KeysThrow(q)
  BY <1>1, <1>9 DEF KeysThrow, Rejects, askVars
<1>. QED  BY <1>2, <1>3, <1>5, <1>7, <1>8, <1>9 DEF AskStep, KeyStep

\* No query goes on for longer than a bound that depends on #retryTimes only:
\* its retries end, and keys that do not fit are fetched again only once, even
\* though other queries fill and empty the cache they share.
THEOREM QueryTakesFinitelyManySteps == Spec => [][QueryAdvances]_vars
<1>1. ASSUME Inv, Inv', [Next]_vars PROVE QueryAdvances
  <2>1. CASE Tick \/ UNCHANGED vars
    BY <2>1 DEF Tick, vars, askVars, keyVars, QueryAdvances
  <2>2. ASSUME NEW q \in Queries,
               \/ StartFails(q) \/ (\E c \in Canisters : StartQuery(q, c))
               \/ AskStep(q) \/ KeyStep(q)
        PROVE  QueryAdvances
    <3>1. StepsLeft(q) \in Nat /\ StepsLeft(q)' \in Nat /\ StepsLeft(q)' < StepsLeft(q)
      BY <1>1, <2>2, AskAdvances, RespondedAdvances, KeysAdvance, StartAdvances DEF AskStep
    <3>. QED  BY <1>1, <2>2, <3>1, OthersUndisturbed DEF QueryAdvances
  <2>. QED  BY <1>1, <2>1, <2>2 DEF Next
<1>. QED  BY <1>1, Invariance, PTL DEF Spec
(***************************************************************************)
(* No query waits for nothing                                              *)
(***************************************************************************)

\* The caller still waits, and so does the query: for its response or for keys.
AwaitsSomething(q) ==
  pc[q] \in {"both", "again"} => ask[q] \in {"fetching", "delay"} \/ keys[q] = "fetching"

\* While both are awaited, keys are awaited for a response that is there, and are
\* among them if responses are verified; once they are fetched again only they are.
Awaits(q) ==
  /\ pc[q] = "both" => /\ \/ ask[q] \in {"fetching", "delay"}
                          \/ ask[q] = "have" /\ keys[q] = "fetching"
                       /\ verify => keys[q] \in {"fetching", "have"}
  /\ pc[q] = "again" => keys[q] = "fetching"

LEMMA AwaitsStep ==
  ASSUME Inv, NEW q \in Queries, Awaits(q),
         \/ StartFails(q) \/ (\E c \in Canisters : StartQuery(q, c))
         \/ AskStep(q) \/ KeyStep(q)
  PROVE  Awaits(q)'
<1>. USE DEF Inv
<1>1. /\ canister[q] \in Canisters /\ BaseOK /\ GoodMap(subnetKeys)
      /\ pc \in [Queries -> {"idle", "both", "again"} \union Ended]
      /\ ask \in [Queries -> {"none", "fetching", "delay", "have", "failed"}]
      /\ keys \in [Queries -> {"none", "fetching", "have", "failed"}]
      /\ verify' = verify
  BY DEF BaseOK, StartFails, StartQuery, AskStep, Resend, AskRejected, Outdated, Unsigned,
         Responded, KeyStep, KeysAnswered, KeysMissing, KeysThrow, envVars
<1>2. ASSUME NEW r, NEW t, NEW m, GoodMap(m), Verify(q, r, t, m)
      PROVE  Awaits(q)'
  BY <1>1, <1>2, VerifyOutcome DEF Have, Awaits
<1>3. ASSUME NEW t, NEW m, GoodMap(m), Found(q, t, m), keys[q] = "fetching", ask' = ask
      PROVE  Awaits(q)'
  BY <1>1, <1>2, <1>3 DEF Found, Have, Awaits
<1>4. ASSUME Rejects(q) PROVE Awaits(q)'
  BY <1>1, <1>4 DEF Rejects, Awaits
<1>5. CASE StartFails(q) \/ \E c \in Canisters : StartQuery(q, c)
  BY <1>1, <1>5 DEF StartFails, StartQuery, Have, Awaits
<1>6. CASE Resend(q) \/ AskRejected(q) \/ Outdated(q) \/ Unsigned(q)
  BY <1>1, <1>4, <1>6 DEF Resend, AskRejected, Outdated, Unsigned, Retry, keyVars, Awaits
<1>7. CASE \E signer \in Nodes : Responded(q, signer)
  BY <1>1, <1>2, <1>7 DEF Responded, Awaits
<1>8. CASE KeyStep(q)
  <2>1. ask' = ask /\ keys[q] = "fetching"
    BY <1>8 DEF KeyStep, KeysAnswered, KeysMissing, KeysThrow, askVars
  <2>2. CASE KeysAnswered(q)
    <3>1. PICK t \in Times : /\ now - CertAge <= t /\ t <= now
                             /\ Found(q, t, Put(subnetKeys, canister[q], t, now))
      BY <2>2 DEF KeysAnswered
    <3>. QED  BY <1>1, <1>3, <2>1, <3>1, PutGood
  <2>3. CASE KeysMissing(q)
    BY <1>1, <1>3, <1>4, <2>1, <2>3, GetGood DEF KeysMissing
  <2>4. CASE KeysThrow(q)
    BY <1>4, <2>4 DEF KeysThrow
  <2>. QED  BY <1>8, <2>2, <2>3, <2>4 DEF KeyStep
<1>. QED  BY <1>5, <1>6, <1>7, <1>8 DEF AskStep

\* A query whose caller waits has a request or a fetch of keys under way, which
\* ends it or is followed by another one: no promise is left without a reason to
\* settle, also after another query took the keys from the cache.
THEOREM QueriesAwaitSomething == Spec => [](\A q \in Queries : AwaitsSomething(q))
<1>. DEFINE AllAwait == \A q \in Queries : Awaits(q)
<1>1. Init => AllAwait
  BY DEF Init, Awaits
<1>2. Inv /\ AllAwait /\ [Next]_vars => AllAwait'
  <2>. SUFFICES ASSUME Inv, AllAwait, [Next]_vars PROVE AllAwait'
    OBVIOUS
  <2>1. CASE Tick \/ UNCHANGED vars
    BY <2>1 DEF Tick, vars, envVars, askVars, keyVars, Awaits
  <2>2. ASSUME NEW q \in Queries,
               \/ StartFails(q) \/ (\E c \in Canisters : StartQuery(q, c))
               \/ AskStep(q) \/ KeyStep(q)
        PROVE  AllAwait'
    <3>1. verify' = verify
      BY <2>2 DEF StartFails, StartQuery, AskStep, Resend, AskRejected, Outdated, Unsigned,
                  Responded, KeyStep, KeysAnswered, KeysMissing, KeysThrow, envVars
    <3>2. ASSUME NEW p \in Queries \ {q} PROVE Awaits(p)'
      BY <2>2, <3>1, OthersUndisturbed DEF Awaits
    <3>3. Awaits(q)'
      BY <2>2, AwaitsStep
    <3>. QED  BY <3>2, <3>3
  <2>. QED  BY <2>1, <2>2 DEF Next
<1>3. Inv /\ AllAwait => \A q \in Queries : AwaitsSomething(q)
  BY DEF Awaits, AwaitsSomething
<1>. HIDE DEF AllAwait
<1>. QED  BY <1>1, <1>2, <1>3, Invariance, PTL DEF Spec
=============================================================================
