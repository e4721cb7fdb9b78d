------------------------- MODULE CertificateProofs -------------------------
(***************************************************************************)
(* Theorems about Certificate and CertifiedState, for every certificate,   *)
(* clock and maximum age: of the times of certificates whatever the trees  *)
(* say and however they are looked up; of keys and lookups for every state *)
(* a replica may sign and every part of it a certificate may show.         *)
(***************************************************************************)
EXTENDS CertifiedState, WellFoundedInduction, TLAPS

Verdicts == {"waiting", "accepted", "rejected"}

-----------------------------------------------------------------------------
(* A pass of verify() *)

LEMMA JudgeVerdict ==
  ASSUME NEW o, NEW cert, NEW age, NEW key, NEW synced \in BOOLEAN, NEW diff
  PROVE  /\ Judge(o, cert, age, key, synced, diff) \in Verdicts
         /\ Judge(o, cert, age, key, synced, diff) = "waiting" => ~synced /\ o.agent
BY DEF Judge, Verdicts

LEMMA VerifyVerdict ==
  ASSUME NEW o, NEW synced \in BOOLEAN, NEW diff
  PROVE  /\ Verify(o, synced, diff) \in Verdicts
         /\ Verify(o, synced, diff) = "waiting" => ~synced
BY JudgeVerdict DEF Verify, JudgeDelegation, Verdicts

\* Only a certificate whose time is accepted passes.
LEMMA AcceptedInTime ==
  ASSUME NEW o, NEW synced, NEW diff, Verify(o, synced, diff) = "accepted"
  PROVE  TimeOf(o.cert) # None /\ InTime(o, o.cert, MaxAge, diff)
BY DEF Verify, JudgeDelegation, Judge

-----------------------------------------------------------------------------
(* Types, and what a synchronised clock is worth *)

\* A synchronisation that is under way is not older than MaxSync, and the time
\* difference it found leaves an error between Lag and MaxSync.
ClockInv ==
  /\ TypeOK
  /\ pc # "idle" => options \in Options
  /\ sync.start <= now
  /\ sync.pending => now <= sync.start + MaxSync
  /\ hasSynced => -Lag <= timeDiff + skew /\ timeDiff + skew <= MaxSync

LEMMA SyncRecord ==
  ASSUME NEW b \in BOOLEAN, NEW t \in Nat
  PROVE  [pending |-> b, start |-> t] \in [pending : BOOLEAN, start : Nat]
BY Zenon

LEMMA SyncEnds ==
  ASSUME NEW s \in [pending : BOOLEAN, start : Nat]
  PROVE  /\ [s EXCEPT !.pending = FALSE] \in [pending : BOOLEAN, start : Nat]
         /\ ~[s EXCEPT !.pending = FALSE].pending
         /\ [s EXCEPT !.pending = FALSE].start = s.start
OBVIOUS

LEMMA LastRecord ==
  ASSUME NEW b \in BOOLEAN, NEW t \in Nat
  PROVE  [at |-> t, synced |-> b] \in [at : Nat, synced : BOOLEAN]
BY Zenon

LEMMA ClockInit == Init => ClockInv
<1> SUFFICES ASSUME Init PROVE ClockInv
  OBVIOUS
<1>1. StartTime \in Nat /\ MaxSync \in Nat
  BY CertificateAssumption
<1>2. /\ sync = [pending |-> FALSE, start |-> StartTime]
      /\ last = [at |-> StartTime, synced |-> FALSE]
  BY DEF Init
<1>3. sync \in [pending : BOOLEAN, start : Nat] /\ last \in [at : Nat, synced : BOOLEAN]
  BY <1>1, <1>2, SyncRecord, LastRecord
<1>4. TypeOK
  <2>1. hasSynced \in BOOLEAN /\ silent \in BOOLEAN /\ ~hasSynced
    BY DEF Init
  <2>2. now \in Nat /\ skew \in Skews /\ timeDiff \in Int /\ syncs \in 0..2
    BY <1>1 DEF Init
  <2>3. pc = "idle" /\ options = None
    BY DEF Init
  <2> QED
    BY <1>3, <2>1, <2>2, <2>3 DEF TypeOK
<1> QED
  BY <1>1, <1>2, <1>4 DEF Init, ClockInv

LEMMA ClockStep == ClockInv /\ [Next]_vars => ClockInv'
<1> SUFFICES ASSUME ClockInv, [Next]_vars PROVE ClockInv'
  OBVIOUS
<1> USE CertificateAssumption
<1>0. TypeOK
  BY DEF ClockInv
<1>a. /\ now \in Nat /\ sync \in [pending : BOOLEAN, start : Nat]
      /\ hasSynced \in BOOLEAN /\ syncs \in 0..2
  BY <1>0 DEF TypeOK
<1>b. /\ NewSync \in [pending : BOOLEAN, start : Nat]
      /\ NewSync.pending /\ NewSync.start = now
  BY <1>a, SyncRecord DEF NewSync
<1>c. /\ [sync EXCEPT !.pending = FALSE] \in [pending : BOOLEAN, start : Nat]
      /\ ~[sync EXCEPT !.pending = FALSE].pending
      /\ [sync EXCEPT !.pending = FALSE].start = sync.start
  BY <1>a, SyncEnds
<1>d. ASSUME NEW o, NEW synced \in BOOLEAN, NEW diff, Pass(o, synced, diff)
      PROVE  /\ last' \in [at : Nat, synced : BOOLEAN] /\ syncs' \in 0..2
             /\ pc' \in Verdicts /\ (pc' = "waiting" => ~synced)
  <2>1. last' = [at |-> now, synced |-> synced]
    BY <1>d DEF Pass
  <2>2. syncs' \in 0..2
    BY <1>a, <1>d DEF Pass
  <2>3. pc' = Verify(o, synced, diff)
    BY <1>d DEF Pass
  <2> QED
    BY <1>a, <2>1, <2>2, <2>3, LastRecord, VerifyVerdict
<1>1. CASE UNCHANGED vars
  BY <1>1 DEF vars, agentVars, checkVars, ClockInv, TypeOK
<1>2. CASE Tick
  BY <1>2 DEF Tick, agentVars, checkVars, ClockInv, TypeOK
<1>3. ASSUME NEW o \in Options, Create(o) PROVE ClockInv'
  <2>1. o # None /\ o.agent \in BOOLEAN
    BY OptionsAssumption
  <2>2. /\ last' \in [at : Nat, synced : BOOLEAN] /\ syncs' \in 0..2
        /\ pc' \in Verdicts /\ (pc' = "waiting" => ~hasSynced)
    BY <1>a, <1>d, <1>3 DEF Create
  <2>3. sync' = IF pc' = "waiting" /\ ~sync.pending THEN NewSync ELSE sync
    BY <1>3 DEF Create
  <2>4. UNCHANGED <<now, skew, hasSynced, timeDiff, silent>> /\ options' = o
    BY <1>3 DEF Create
  <2>5. /\ sync' \in [pending : BOOLEAN, start : Nat]
        /\ sync'.start <= now /\ (sync'.pending => now <= sync'.start + MaxSync)
        /\ pc' = "waiting" => sync'.pending
    <3>1. CASE pc' = "waiting" /\ ~sync.pending
      BY <1>a, <1>b, <2>3, <3>1
    <3>2. CASE ~(pc' = "waiting" /\ ~sync.pending)
      BY <1>a, <2>3, <3>2 DEF ClockInv
    <3> QED
      BY <3>1, <3>2
  <2>6. TypeOK'
    BY <1>0, <2>1, <2>2, <2>4, <2>5 DEF TypeOK, Verdicts
  <2> QED
    BY <2>1, <2>4, <2>5, <2>6 DEF ClockInv
<1>4. CASE StartSync
  <2>1. sync' = NewSync /\ pc = "idle" /\ UNCHANGED <<now, skew, hasSynced, timeDiff, silent, checkVars>>
    BY <1>4 DEF StartSync
  <2> QED
    BY <1>0, <1>a, <1>b, <2>1 DEF checkVars, ClockInv, TypeOK
<1>5. ASSUME UNCHANGED <<pc, syncs, last>> \/ Pass(options, hasSynced', timeDiff'),
             pc = "waiting" => Pass(options, hasSynced', timeDiff'),
             pc # "waiting" => UNCHANGED <<pc, syncs, last>>,
             hasSynced' \in BOOLEAN
      PROVE  /\ last' \in [at : Nat, synced : BOOLEAN] /\ syncs' \in 0..2
             /\ pc' \in Verdicts \union {"idle", "failed"}
             /\ (pc' = "idle" <=> pc = "idle")
             /\ (pc' = "waiting" => pc = "waiting" /\ ~hasSynced')
  <2>1. CASE pc = "waiting"
    <3>1. Pass(options, hasSynced', timeDiff')
      BY <1>5, <2>1
    <3> QED
      BY <1>5, <1>d, <2>1, <3>1 DEF Verdicts
  <2>2. CASE pc # "waiting"
    BY <1>0, <1>5, <2>2 DEF TypeOK, Verdicts
  <2> QED
    BY <2>1, <2>2
<1>6. CASE SyncOk
  <2>1. sync.pending /\ hasSynced' = TRUE /\ UNCHANGED <<now, skew, silent, options>>
    BY <1>6 DEF SyncOk
  <2>2. timeDiff' \in Int /\ -Lag <= timeDiff' + skew /\ timeDiff' + skew <= MaxSync
    <3>1. PICK replicaTime \in (sync.start - Lag)..now :
            timeDiff' = replicaTime - (sync.start + skew)
      BY <1>6 DEF SyncOk
    <3>2. skew \in Int /\ sync.start \in Nat /\ now <= sync.start + MaxSync
      BY <1>0, <2>1 DEF ClockInv, TypeOK
    <3>3. replicaTime \in Int /\ sync.start - Lag <= replicaTime /\ replicaTime <= now
      BY <1>a, <3>2
    <3> QED
      BY <1>a, <3>1, <3>2, <3>3
  <2>3. /\ pc = "waiting" => Pass(options, hasSynced', timeDiff')
        /\ pc # "waiting" => UNCHANGED <<pc, syncs, last>>
    BY <1>6, <2>1 DEF SyncOk
  <2>4. /\ last' \in [at : Nat, synced : BOOLEAN] /\ syncs' \in 0..2
        /\ pc' \in Verdicts \union {"idle", "failed"}
        /\ (pc' = "idle" <=> pc = "idle")
        /\ pc' # "waiting"
    BY <1>5, <2>1, <2>3
  <2>5. sync' = [sync EXCEPT !.pending = FALSE]
    BY <1>6 DEF SyncOk
  <2>6. TypeOK'
    BY <1>0, <1>c, <2>1, <2>2, <2>4, <2>5 DEF TypeOK, Verdicts
  <2> QED
    BY <1>c, <2>1, <2>2, <2>4, <2>5, <2>6 DEF ClockInv
<1>7. CASE SyncNone
  <2>1. /\ sync.pending /\ silent' = TRUE
        /\ UNCHANGED <<now, skew, hasSynced, timeDiff, options>>
    BY <1>7 DEF SyncNone
  <2>2. /\ pc = "waiting" => Pass(options, hasSynced', timeDiff')
        /\ pc # "waiting" => UNCHANGED <<pc, syncs, last>>
    BY <1>7, <2>1 DEF SyncNone
  <2>3. /\ last' \in [at : Nat, synced : BOOLEAN] /\ syncs' \in 0..2
        /\ pc' \in Verdicts \union {"idle", "failed"}
        /\ (pc' = "idle" <=> pc = "idle")
        /\ (pc' = "waiting" => ~hasSynced)
    BY <1>a, <1>5, <2>1, <2>2
  <2>4. sync' = IF pc' = "waiting" THEN NewSync ELSE [sync EXCEPT !.pending = FALSE]
    BY <1>7 DEF SyncNone
  <2>5. /\ sync' \in [pending : BOOLEAN, start : Nat]
        /\ sync'.start <= now /\ (sync'.pending => now <= sync'.start + MaxSync)
        /\ pc' = "waiting" => sync'.pending
    <3>1. CASE pc' = "waiting"
      BY <1>a, <1>b, <2>4, <3>1
    <3>2. CASE pc' # "waiting"
      BY <1>c, <2>4, <3>2 DEF ClockInv
    <3> QED
      BY <3>1, <3>2
  <2>6. TypeOK'
    BY <1>0, <2>1, <2>3, <2>5 DEF TypeOK, Verdicts
  <2> QED
    BY <2>1, <2>3, <2>5, <2>6 DEF ClockInv
<1>8. CASE SyncThrow
  <2>1. sync' = [sync EXCEPT !.pending = FALSE]
    BY <1>8 DEF SyncThrow
  <2> QED
    BY <1>0, <1>c, <1>8, <2>1 DEF SyncThrow, ClockInv, TypeOK
<1> QED
  BY <1>1, <1>2, <1>3, <1>4, <1>6, <1>7, <1>8 DEF Next, SyncStep

\* Every reachable state is well typed, and a pass that waits has a
\* synchronisation to wait for.
THEOREM TypeCorrect == Spec => []TypeOK
<1>1. ClockInv => TypeOK
  BY DEF ClockInv
<1> QED
  BY <1>1, ClockInit, ClockStep, PTL DEF Spec

-----------------------------------------------------------------------------
(* What a pass says of the age of a certificate *)

\* Everything about a certificate is in order but perhaps its time.
InOrder(o) ==
  LET d == o.cert.delegation
  IN  /\ TimeOf(o.cert) # None
      /\ IF d = None THEN SignedBy(o.cert, RootKey)
         ELSE /\ d.cert.delegation = None
              /\ TimeOf(d.cert) # None /\ SignedBy(d.cert, RootKey)
              /\ Authorises(o, d) /\ SignedBy(o.cert, KeyOf(d))

LEMMA GenuineInOrder == ASSUME NEW o PROVE Genuine(o) <=> InOrder(o)
<1> DEFINE u == [cert |-> o.cert, canister |-> o.canister, agent |-> o.agent, disable |-> TRUE]
<1>1. \A cert, age, key :
        Judge(u, cert, age, key, TRUE, 0) = "accepted" <=> TimeOf(cert) # None /\ SignedBy(cert, key)
  BY DEF Judge, InTime
<1>2. \A d : Authorises(u, d) <=> Authorises(o, d)
  BY DEF Authorises
<1>3. u.cert = o.cert
  OBVIOUS
<1>4. Genuine(o) <=> Verify(u, TRUE, 0) = "accepted"
  BY DEF Genuine
<1> HIDE DEF u
<1>5. Verify(u, TRUE, 0) = "accepted" <=>
        IF o.cert.delegation = None
        THEN TimeOf(o.cert) # None /\ SignedBy(o.cert, RootKey)
        ELSE /\ JudgeDelegation(u, o.cert.delegation, TRUE, 0) = "accepted"
             /\ TimeOf(o.cert) # None /\ SignedBy(o.cert, KeyOf(o.cert.delegation))
  BY <1>1, <1>3 DEF Verify
<1>6. ASSUME NEW d
      PROVE  JudgeDelegation(u, d, TRUE, 0) = "accepted" <=>
               /\ d.cert.delegation = None
               /\ TimeOf(d.cert) # None /\ SignedBy(d.cert, RootKey) /\ Authorises(o, d)
  BY <1>1, <1>2 DEF JudgeDelegation
<1>7. CASE o.cert.delegation = None
  BY <1>4, <1>5, <1>7 DEF InOrder
<1>8. CASE o.cert.delegation # None
  <2>1. JudgeDelegation(u, o.cert.delegation, TRUE, 0) = "accepted" <=>
          LET d == o.cert.delegation
          IN  /\ d.cert.delegation = None
              /\ TimeOf(d.cert) # None /\ SignedBy(d.cert, RootKey) /\ Authorises(o, d)
    BY <1>6
  <2> QED
    BY <1>4, <1>5, <1>8, <2>1 DEF InOrder
<1> QED
  BY <1>7, <1>8

\* It is so at one time if it is at another.
LEMMA GenuineStays ==
  ASSUME NEW o, UNCHANGED <<now, skew>> PROVE Genuine(o)' <=> Genuine(o)
BY DEF Genuine, Verify, JudgeDelegation, Judge, InTime, AdjustedNow, SignedBy, Authorises,
       CanisterInRange, KeyOf, TimeOf

\* The agent's clock after a synchronisation.
Synced(diff) == -Lag <= diff + skew /\ diff + skew <= MaxSync

\* A certificate that is rejected although it is in order and not of a time to
\* come is too old for a clock that may be wrong by MaxSync.
LEMMA RejectedIsOld ==
  ASSUME TypeOK, Lag <= MaxFuture,
         NEW o, o.agent, NEW cert, NEW age \in Nat, NEW key,
         NEW synced \in BOOLEAN, NEW diff \in Int, synced => Synced(diff),
         TimeOf(cert) \in Int, TimeOf(cert) <= now, SignedBy(cert, key), TimeOf(cert) # None,
         Judge(o, cert, age, key, synced, diff) = "rejected"
  PROVE  ~(TimeOf(cert) >= now - age + MaxSync)
<1>1. synced /\ ~InTime(o, cert, age, diff)
  BY DEF Judge
<1>2. now \in Nat /\ skew \in Int /\ MaxSync \in Nat /\ Lag \in Nat /\ MaxFuture \in Nat
  BY CertificateAssumption DEF TypeOK
<1>3. AdjustedNow(o, diff) = now + skew + diff
  BY DEF AdjustedNow
<1>4. ~(now + skew + diff - age <= TimeOf(cert) /\ TimeOf(cert) <= now + skew + diff + MaxFuture)
  BY <1>1, <1>2, <1>3 DEF InTime
<1>5. TimeOf(cert) <= now + skew + diff + MaxFuture
  BY <1>1, <1>2 DEF Synced
<1> QED
  BY <1>1, <1>2, <1>4, <1>5 DEF Synced

\* A pass of verify() with the options o.
LEMMA PassJudges ==
  ASSUME TypeOK, NEW o \in Options, NEW synced \in BOOLEAN, NEW diff \in Int,
         synced => Synced(diff), Pass(o, synced, diff), options' = o,
         UNCHANGED <<now, skew>>, Certified(o.cert),
         o.cert.delegation # None => Certified(o.cert.delegation.cert)
  PROVE  AcceptedIsRecent' /\ (Lag <= MaxFuture => RecentNotRejected')
<1>1. /\ pc' = Verify(o, synced, diff) /\ last'.at = now /\ last'.synced = synced
  BY DEF Pass
<1>2. /\ now \in Nat /\ skew \in Int
      /\ MaxSync \in Nat /\ Lag \in Nat /\ MaxAge \in Nat /\ DelegationMaxAge \in Nat
  BY CertificateAssumption DEF TypeOK
<1>3. AcceptedIsRecent'
  <2> SUFFICES ASSUME pc' = "accepted", o.agent, ~o.disable, synced
               PROVE  TimeOf(o.cert) >= now - MaxAge - Lag
    BY <1>1 DEF AcceptedIsRecent
  <2>1. TimeOf(o.cert) # None /\ InTime(o, o.cert, MaxAge, diff)
    BY <1>1, AcceptedInTime
  <2>2. TimeOf(o.cert) \in Int
    BY <2>1, OptionsAssumption DEF ShowsTime
  <2>3. now + skew + diff - MaxAge <= TimeOf(o.cert)
    <3>1. AdjustedNow(o, diff) = now + skew + diff
      BY DEF AdjustedNow
    <3> QED
      BY <1>2, <2>1, <2>2, <3>1 DEF InTime
  <2> QED
    BY <1>2, <2>2, <2>3 DEF Synced
<1>4. ASSUME Lag <= MaxFuture PROVE RecentNotRejected'
  <2> DEFINE d == o.cert.delegation
  <2> SUFFICES ASSUME pc' = "rejected", o.agent, Genuine(o)'
               PROVE  \/ ~(TimeOf(o.cert) >= now - MaxAge + MaxSync)
                      \/ d # None /\ ~(TimeOf(d.cert) >= now - DelegationMaxAge + MaxSync)
    BY <1>1 DEF RecentNotRejected, Young
  <2>1. InOrder(o)
    BY GenuineStays, GenuineInOrder
  <2>2. /\ TimeOf(o.cert) \in Int /\ TimeOf(o.cert) <= now /\ TimeOf(o.cert) # None
        /\ d # None => /\ TimeOf(d.cert) \in Int /\ TimeOf(d.cert) <= now
                       /\ TimeOf(d.cert) # None
    BY <2>1, OptionsAssumption DEF InOrder, ShowsTime, Certified
  <2>3. CASE d = None
    <3>1. Judge(o, o.cert, MaxAge, RootKey, synced, diff) = "rejected"
      BY <1>1, <2>3 DEF Verify
    <3>2. SignedBy(o.cert, RootKey)
      BY <2>1, <2>3 DEF InOrder
    <3> QED
      BY <1>2, <1>4, <2>2, <3>1, <3>2, RejectedIsOld
  <2>4. CASE d # None
    <3>1. /\ SignedBy(d.cert, RootKey) /\ Authorises(o, d) /\ SignedBy(o.cert, KeyOf(d))
          /\ d.cert.delegation = None
      BY <2>1, <2>4 DEF InOrder
    <3>2. \/ Judge(o, d.cert, DelegationMaxAge, RootKey, synced, diff) = "rejected"
          \/ Judge(o, o.cert, MaxAge, KeyOf(d), synced, diff) = "rejected"
      BY <1>1, <2>4, <3>1 DEF Verify, JudgeDelegation
    <3>3. CASE Judge(o, d.cert, DelegationMaxAge, RootKey, synced, diff) = "rejected"
      BY <1>2, <1>4, <2>2, <2>4, <3>1, <3>3, RejectedIsOld
    <3>4. CASE Judge(o, o.cert, MaxAge, KeyOf(d), synced, diff) = "rejected"
      BY <1>2, <1>4, <2>2, <3>1, <3>4, RejectedIsOld
    <3> QED
      BY <3>2, <3>3, <3>4
  <2> QED
    BY <2>3, <2>4
<1> QED
  BY <1>3, <1>4
-----------------------------------------------------------------------------
(* The invariants of a certificate *)

\* The two properties of a verdict, and what the network does not certify.
VerdictInv ==
  /\ ClockInv
  /\ pc # "idle" =>
       /\ Certified(options.cert)
       /\ options.cert.delegation # None => Certified(options.cert.delegation.cert)
  /\ AcceptedIsRecent
  /\ Lag <= MaxFuture => RecentNotRejected

LEMMA VerdictInit == Init => VerdictInv
BY ClockInit DEF Init, VerdictInv, AcceptedIsRecent, RecentNotRejected

\* Without a pass the verdicts stay, and a waiting pass that fails has none.
LEMMA VerdictKept ==
  ASSUME VerdictInv, ClockInv', UNCHANGED <<now, skew, options, last>>,
         pc' = pc \/ pc' = "failed", pc = "idle" => pc' = "idle"
  PROVE  VerdictInv'
<1>1. Certified(options.cert)' <=> Certified(options.cert)
  BY DEF Certified, TimeOf
<1>2. Certified(options.cert.delegation.cert)' <=> Certified(options.cert.delegation.cert)
  BY DEF Certified, TimeOf
<1>3. AcceptedIsRecent'
  BY DEF VerdictInv, AcceptedIsRecent, TimeOf
<1>4. Genuine(options)' <=> Genuine(options)
  BY DEF Genuine, Verify, JudgeDelegation, Judge, InTime, AdjustedNow, SignedBy, Authorises,
         CanisterInRange, KeyOf, TimeOf
<1>5. Lag <= MaxFuture => RecentNotRejected'
  BY <1>4 DEF VerdictInv, RecentNotRejected, Young, TimeOf
<1> QED
  BY <1>1, <1>2, <1>3, <1>5 DEF VerdictInv

LEMMA VerdictStep == VerdictInv /\ [Next]_vars => VerdictInv'
<1> SUFFICES ASSUME VerdictInv, [Next]_vars PROVE VerdictInv'
  OBVIOUS
<1>0. ClockInv /\ ClockInv' /\ TypeOK
  BY ClockStep DEF VerdictInv, ClockInv
<1>1. CASE UNCHANGED vars \/ StartSync
  BY <1>0, <1>1, VerdictKept DEF vars, checkVars, StartSync
<1>2. CASE Tick
  <2>1. /\ pc \in {"idle", "waiting"} /\ now <= now'
        /\ UNCHANGED <<pc, options, last>>
    BY <1>0, <1>2 DEF Tick, checkVars, TypeOK
  <2>2. pc # "idle" => options \in Options
    BY <1>0, OptionsAssumption DEF ClockInv, TypeOK
  <2>3. pc # "idle" =>
          /\ Certified(options.cert)'
          /\ options.cert.delegation # None => Certified(options.cert.delegation.cert)'
    <3>1. now \in Nat /\ now' \in Nat
      BY <1>0 DEF ClockInv, TypeOK
    <3>2. ASSUME NEW cert, ShowsTime(cert), Certified(cert) PROVE TimeOf(cert) # None => TimeOf(cert) <= now'
      BY <2>1, <3>1, <3>2 DEF ShowsTime, Certified
    <3>3. ASSUME pc # "idle" PROVE TimeOf(options.cert) # None => TimeOf(options.cert) <= now'
      BY <2>2, <3>2, <3>3, OptionsAssumption DEF VerdictInv
    <3>4. ASSUME pc # "idle", options.cert.delegation # None
          PROVE  TimeOf(options.cert.delegation.cert) # None =>
                   TimeOf(options.cert.delegation.cert) <= now'
      BY <2>2, <3>2, <3>4, OptionsAssumption DEF VerdictInv
    <3> QED
      BY <2>1, <3>3, <3>4 DEF Certified, TimeOf
  <2>4. AcceptedIsRecent' /\ RecentNotRejected'
    BY <2>1 DEF AcceptedIsRecent, RecentNotRejected
  <2> QED
    BY <1>0, <2>1, <2>3, <2>4 DEF VerdictInv
<1>3. ASSUME NEW o \in Options, NEW synced \in BOOLEAN, NEW diff \in Int,
             synced => Synced(diff), Pass(o, synced, diff), options' = o,
             UNCHANGED <<now, skew>>, Certified(o.cert),
             o.cert.delegation # None => Certified(o.cert.delegation.cert)
      PROVE  VerdictInv'
  <2>1. AcceptedIsRecent' /\ (Lag <= MaxFuture => RecentNotRejected')
    BY <1>0, <1>3, PassJudges
  <2>2. /\ Certified(options.cert)'
        /\ options'.cert.delegation # None => Certified(options.cert.delegation.cert)'
    BY <1>3 DEF Certified, TimeOf
  <2> QED
    BY <1>0, <2>1, <2>2 DEF VerdictInv
<1>4. ASSUME NEW o \in Options, Create(o) PROVE VerdictInv'
  <2>1. hasSynced \in BOOLEAN /\ timeDiff \in Int /\ (hasSynced => Synced(timeDiff))
    BY <1>0 DEF ClockInv, TypeOK, Synced
  <2> QED
    BY <1>3, <1>4, <2>1 DEF Create
<1>5. CASE SyncOk \/ SyncNone
  <2>1. /\ UNCHANGED <<now, skew, options>>
        /\ pc = "waiting" => Pass(options, hasSynced', timeDiff')
        /\ pc # "waiting" => UNCHANGED <<pc, last>>
    BY <1>5 DEF SyncOk, SyncNone
  <2>2. hasSynced' \in BOOLEAN /\ timeDiff' \in Int /\ (hasSynced' => Synced(timeDiff'))
    BY <1>0, <2>1 DEF ClockInv, TypeOK, Synced
  <2>3. CASE pc = "waiting"
    <3>1. options \in Options
      BY <1>0, <2>3, OptionsAssumption DEF ClockInv, TypeOK
    <3> QED
      BY <1>3, <2>1, <2>2, <2>3, <3>1 DEF VerdictInv
  <2>4. CASE pc # "waiting"
    BY <1>0, <2>1, <2>4, VerdictKept
  <2> QED
    BY <2>3, <2>4
<1>6. CASE SyncThrow
  BY <1>0, <1>6, VerdictKept DEF SyncThrow
<1> QED
  BY <1>1, <1>2, <1>4, <1>5, <1>6 DEF Next, SyncStep

\* A certificate accepted after a synchronisation is not older than the maximum
\* age and the age of the time the clock was corrected by, for every error of
\* the client's clock and every duration of the synchronisation.
THEOREM AcceptsRecent == Spec => []AcceptedIsRecent
<1>1. VerdictInv => AcceptedIsRecent
  BY DEF VerdictInv
<1> QED
  BY <1>1, VerdictInit, VerdictStep, PTL DEF Spec

\* Where the certified time is not older than what is allowed into the future,
\* an agent that can synchronise rejects no certificate that is in order and
\* young enough for the duration of a synchronisation.
THEOREM RejectsNoRecent ==
  ASSUME Lag <= MaxFuture PROVE Spec => []RecentNotRejected
<1>1. VerdictInv => RecentNotRejected
  BY DEF VerdictInv
<1> QED
  BY <1>1, VerdictInit, VerdictStep, PTL DEF Spec

-----------------------------------------------------------------------------
(* Synchronisations *)

\* As long as every synchronisation found a time or threw, one that a pass asked
\* for is the first.
OnceInv ==
  /\ ClockInv
  /\ ~silent => syncs <= 1 /\ (pc = "idle" => syncs = 0)

LEMMA OnceStep == OnceInv /\ [Next]_vars => OnceInv'
<1> SUFFICES ASSUME OnceInv, [Next]_vars PROVE OnceInv'
  OBVIOUS
<1>0. ClockInv /\ ClockInv' /\ TypeOK /\ TypeOK'
  BY ClockStep DEF OnceInv, ClockInv
<1>1. CASE UNCHANGED vars \/ Tick \/ StartSync \/ SyncThrow
  <2>1. UNCHANGED <<silent, syncs>> /\ (pc' = "idle" => pc = "idle")
    BY <1>1 DEF vars, agentVars, checkVars, Tick, StartSync, SyncThrow
  <2> QED
    BY <1>0, <2>1 DEF OnceInv
<1>2. ASSUME NEW o \in Options, Create(o) PROVE OnceInv'
  <2>1. pc = "idle" /\ Pass(o, hasSynced, timeDiff) /\ UNCHANGED silent
    BY <1>2 DEF Create
  <2>2. pc' # "idle"
    BY <1>0, <2>1, VerifyVerdict DEF Pass, TypeOK, Verdicts
  <2>3. syncs = 0 => syncs' <= 1
    BY <2>1 DEF Pass
  <2> QED
    BY <1>0, <2>1, <2>2, <2>3 DEF OnceInv
<1>3. CASE SyncOk
  <2>1. hasSynced' /\ UNCHANGED silent
    BY <1>3 DEF SyncOk
  <2>2. pc' # "waiting" /\ (pc' = "idle" => pc = "idle")
    <3>1. pc' # "waiting"
      BY <1>0, <2>1 DEF TypeOK
    <3>2. CASE pc = "waiting"
      <4>1. Pass(options, TRUE, timeDiff')
        BY <1>3, <3>2 DEF SyncOk
      <4> QED
        BY <3>1, <4>1, VerifyVerdict DEF Pass, Verdicts
    <3>3. CASE pc # "waiting"
      BY <1>3, <3>1, <3>3 DEF SyncOk
    <3> QED
      BY <3>2, <3>3
  <2>3. UNCHANGED syncs
    BY <1>3, <2>2 DEF SyncOk, Pass
  <2> QED
    BY <1>0, <2>1, <2>2, <2>3 DEF OnceInv
<1>4. CASE SyncNone
  <2>1. silent'
    BY <1>4 DEF SyncNone
  <2> QED
    BY <1>0, <2>1 DEF OnceInv
<1> QED
  BY <1>1, <1>2, <1>3, <1>4 DEF Next, SyncStep

\* verify() asks for the time at most once, for its certificate and the one of
\* its delegation together, unless a synchronisation returned without a time.
THEOREM SynchronisesOnce == Spec => []SyncsOnce
<1>1. OnceInv => SyncsOnce
  BY DEF OnceInv, SyncsOnce
<1>2. Init => OnceInv
  BY ClockInit DEF Init, OnceInv
<1> QED
  BY <1>1, <1>2, OnceStep, PTL DEF Spec

-----------------------------------------------------------------------------
(* Induction over trees and paths *)

LEMMA Minimum ==
  ASSUME NEW S, S \subseteq Nat, S # {}
  PROVE  \E n \in S : \A m \in S : n <= m
<1> DEFINE R == OpToRel(<, Nat)
<1>1. IsWellFoundedOn(R, Nat)
  BY NatLessThanWellFounded
<1>2. \A m, n \in Nat : m < n => <<m, n>> \in R
  BY DEF OpToRel
<1> HIDE DEF R
<1>3. PICK n \in S : \A m \in S : ~(<<m, n>> \in R)
  BY <1>1, WFMin
<1>4. \A m \in S : ~(m < n)
  BY <1>2, <1>3
<1>5. \A m \in S : n <= m
  BY <1>4
<1> QED
  BY <1>5

\* A set of trees that has a tree whenever it has all lower ones has them all.
LEMMA TreeInduction ==
  ASSUME NEW G,
         \A t \in Trees : (\A u \in Trees : Height(u) < Height(t) => u \in G) => t \in G
  PROVE  Trees \subseteq G
<1> SUFFICES ASSUME NEW b \in Trees, b \notin G PROVE FALSE
  OBVIOUS
<1> DEFINE H == {Height(t) : t \in Trees \ G}
<1>1. \A t \in Trees : Height(t) \in Nat
  BY TreesAssumption
<1>2. H \subseteq Nat /\ H # {}
  BY <1>1
<1>3. PICK n \in H : \A m \in H : n <= m
  BY <1>2, Minimum
<1>4. PICK t \in Trees \ G : n = Height(t)
  BY <1>3
<1>5. ASSUME NEW u \in Trees, Height(u) < Height(t) PROVE u \in G
  <2>1. ~(n <= Height(u))
    BY <1>1, <1>4, <1>5
  <2>2. u \notin G => Height(u) \in H
    OBVIOUS
  <2> QED
    BY <1>3, <2>1, <2>2
<1> QED
  BY <1>4, <1>5

\* The same for paths and their ends.
LEMMA PathInduction ==
  ASSUME NEW G, \A p \in Paths : (p # <<>> => Tail(p) \in G) => p \in G
  PROVE  Paths \subseteq G
<1> SUFFICES ASSUME NEW b \in Paths, b \notin G PROVE FALSE
  OBVIOUS
<1> DEFINE L == {Len(p) : p \in Paths \ G}
<1>1. \A p \in Paths : p \in Seq(TreeLabels) /\ Len(p) \in Nat /\ (p # <<>> => Tail(p) \in Paths)
  <2>1. \A p \in Paths : p \in Seq(TreeLabels) /\ (p # <<>> => Tail(p) \in Paths)
    BY PathsAssumption
  <2>2. \A p \in Seq(TreeLabels) : Len(p) \in Nat
    OBVIOUS
  <2> QED
    BY <2>1, <2>2
<1>2. L \subseteq Nat /\ L # {}
  <2>1. \A p \in Paths \ G : Len(p) \in Nat
    BY <1>1
  <2> QED
    BY <2>1
<1>3. PICK n \in L : \A m \in L : n <= m
  BY <1>2, Minimum
<1>4. PICK p \in Paths \ G : n = Len(p)
  BY <1>3
<1>5. ASSUME p # <<>> PROVE Tail(p) \in G
  <2>1. p \in Seq(TreeLabels) /\ Tail(p) \in Paths
    BY <1>1, <1>4, <1>5
  <2>2. Len(Tail(p)) = Len(p) - 1 /\ Len(p) \in Nat
    BY <1>5, <2>1
  <2>3. ~(n <= Len(Tail(p)))
    BY <1>4, <2>2
  <2> QED
    BY <1>3, <2>1, <2>3
<1> QED
  BY <1>4, <1>5

-----------------------------------------------------------------------------
(* The order of labels *)

LEMMA BeforeIrreflexive == ASSUME NEW a \in Seq(Nat) PROVE ~Before(a, a)
<1> SUFFICES ASSUME NEW i \in 1..Len(a), i <= Len(a) => a[i] < a[i] PROVE FALSE
  BY DEF Before
<1>1. a[i] \in Nat
  OBVIOUS
<1> QED
  BY <1>1

LEMMA BeforeTransitive ==
  ASSUME NEW a \in Seq(Nat), NEW b \in Seq(Nat), NEW c \in Seq(Nat), Before(a, b), Before(b, c)
  PROVE  Before(a, c)
<1>1. PICK i \in 1..Len(b) : /\ \A j \in 1..(i - 1) : j <= Len(a) /\ a[j] = b[j]
                             /\ i <= Len(a) => a[i] < b[i]
  BY DEF Before
<1>2. PICK k \in 1..Len(c) : /\ \A j \in 1..(k - 1) : j <= Len(b) /\ b[j] = c[j]
                             /\ k <= Len(b) => b[k] < c[k]
  BY DEF Before
<1>3. Len(a) \in Nat /\ Len(b) \in Nat /\ Len(c) \in Nat
  OBVIOUS
<1>4. /\ \A j \in 1..Len(a) : a[j] \in Nat
      /\ \A j \in 1..Len(b) : b[j] \in Nat
      /\ \A j \in 1..Len(c) : c[j] \in Nat
  OBVIOUS
<1>5. CASE k < i
  <2>1. \A j \in 1..(k - 1) : j <= Len(a) /\ a[j] = c[j]
    BY <1>1, <1>2, <1>3, <1>5
  <2>2. k <= Len(a) => a[k] < c[k]
    BY <1>1, <1>2, <1>3, <1>4, <1>5
  <2> QED
    BY <2>1, <2>2 DEF Before
<1>6. CASE i <= k
  <2>1. i \in 1..Len(c)
    BY <1>2, <1>3, <1>6
  <2>2. \A j \in 1..(i - 1) : j <= Len(a) /\ a[j] = c[j]
    BY <1>1, <1>2, <1>3, <1>6
  <2>3. ASSUME i <= Len(a) PROVE a[i] < c[i]
    <3>1. a[i] < b[i] /\ a[i] \in Nat /\ b[i] \in Nat /\ c[i] \in Nat
      BY <1>1, <1>3, <1>4, <2>1, <2>3
    <3>2. b[i] <= c[i]
      BY <1>2, <1>3, <1>6, <3>1
    <3> QED
      BY <3>1, <3>2
  <2> QED
    BY <2>1, <2>2, <2>3 DEF Before
<1> QED
  BY <1>3, <1>5, <1>6

\* Of two labels of trees one comes first, and no label is greater than itself.
LEMMA LabelOrder ==
  /\ \A a, b \in TreeLabels : ~(Before(a, b) /\ Before(b, a)) /\ ~Before(a, a)
  /\ \A a, b, c \in TreeLabels : Before(a, b) /\ Before(b, c) => Before(a, c)
  /\ \A a \in TreeLabels : ~isBufferGreaterThan(a, a)
<1>1. \A a \in TreeLabels : a \in Seq(Nat)
  BY PathsAssumption
<1>2. \A a, b, c \in TreeLabels : Before(a, b) /\ Before(b, c) => Before(a, c)
  BY <1>1, BeforeTransitive
<1>3. \A a \in TreeLabels : ~Before(a, a)
  BY <1>1, BeforeIrreflexive
<1>4. ASSUME NEW a \in TreeLabels PROVE ~isBufferGreaterThan(a, a)
  <2>1. \A i \in 1..Len(a) : a[i] \in Nat
    BY <1>1
  <2> QED
    BY <2>1 DEF isBufferGreaterThan
<1> QED
  BY <1>2, <1>3, <1>4

-----------------------------------------------------------------------------
(* The whole trees that are signed *)

\* A state is empty, a value, one labelled state, or a fork of two of states that
\* hold labels, the lesser ones on the left.
LEMMA StateForms ==
  ASSUME NEW w \in States
  PROVE  /\ w \in Trees
         /\ \/ w[1] \in {"Empty", "Leaf"} /\ LabelsOf(w) = {} /\ NodesOf(w) = {w}
            \/ /\ w[1] = "Labeled" /\ w = Labeled(w[2], w[3])
               /\ w[2] \in TreeLabels /\ w[3] \in States
               /\ NodesOf(w) = {w} /\ LabelsOf(w) = {w[2]}
            \/ /\ w[1] = "Fork" /\ w = Fork(w[2], w[3])
               /\ w[2] \in States /\ w[2][1] \in {"Labeled", "Fork"} /\ Height(w[2]) < Height(w)
               /\ w[3] \in States /\ w[3][1] \in {"Labeled", "Fork"} /\ Height(w[3]) < Height(w)
               /\ NodesOf(w) = NodesOf(w[2]) \union NodesOf(w[3])
               /\ LabelsOf(w) = LabelsOf(w[2]) \union LabelsOf(w[3])
               /\ \A a \in LabelsOf(w[2]), b \in LabelsOf(w[3]) : Before(a, b)
<1>1. w \in Trees
  BY StatesAssumption
<1>2. /\ w[1] # "Pruned"
      /\ w[1] = "Labeled" => w[3] \in States
      /\ w[1] = "Fork" =>
           /\ \A i \in {2, 3} : w[i] \in States /\ w[i][1] \in {"Labeled", "Fork"}
           /\ \A a \in LabelsOf(w[2]), b \in LabelsOf(w[3]) : Before(a, b)
  BY StatesAssumption
<1>3. NodesOf(w) = IF w[1] = "Fork" THEN NodesOf(w[2]) \union NodesOf(w[3]) ELSE {w}
  BY <1>1, CallsAssumption DEF nodesOf
<1>4. CASE w[1] = "Fork"
  <2>1. w = Fork(w[2], w[3]) /\ Height(w[2]) < Height(w) /\ Height(w[3]) < Height(w)
    BY <1>1, <1>4, TreesAssumption DEF Empty
  <2>2. LabelsOf(w) = LabelsOf(w[2]) \union LabelsOf(w[3])
    BY <1>3, <1>4 DEF LabelsOf
  <2> QED
    BY <1>1, <1>2, <1>3, <1>4, <2>1, <2>2
<1>5. CASE w[1] = "Labeled"
  <2>1. w = Labeled(w[2], w[3]) /\ w[2] \in TreeLabels
    BY <1>1, <1>5, TreesAssumption DEF Empty
  <2>2. LabelsOf(w) = {w[2]}
    BY <1>3, <1>5 DEF LabelsOf
  <2> QED
    BY <1>1, <1>2, <1>3, <1>5, <2>1, <2>2
<1>6. CASE w[1] \notin {"Fork", "Labeled"}
  <2>1. w[1] \in {"Empty", "Leaf"}
    BY <1>1, <1>2, <1>6, TreesAssumption DEF Empty
  <2>2. LabelsOf(w) = {}
    BY <1>3, <1>6 DEF LabelsOf
  <2> QED
    BY <1>1, <1>3, <1>6, <2>1, <2>2
<1> QED
  BY <1>4, <1>5, <1>6

\* The labels of a state are labels, and it has some if it is labelled or a fork.
LEMMA StateLabels ==
  ASSUME NEW w \in States
  PROVE  /\ LabelsOf(w) \subseteq TreeLabels
         /\ w[1] \in {"Labeled", "Fork"} => LabelsOf(w) # {}
<1> DEFINE G == {t \in Trees : t \in States =>
                   /\ LabelsOf(t) \subseteq TreeLabels
                   /\ t[1] \in {"Labeled", "Fork"} => LabelsOf(t) # {}}
<1>1. ASSUME NEW t \in Trees, \A u \in Trees : Height(u) < Height(t) => u \in G
      PROVE  t \in G
  <2> SUFFICES ASSUME t \in States
               PROVE  /\ LabelsOf(t) \subseteq TreeLabels
                      /\ t[1] \in {"Labeled", "Fork"} => LabelsOf(t) # {}
    OBVIOUS
  <2>1. CASE t[1] = "Fork"
    <3>1. /\ t[2] \in G /\ t[3] \in G /\ t[2] \in States /\ t[3] \in States
          /\ t[2][1] \in {"Labeled", "Fork"}
          /\ LabelsOf(t) = LabelsOf(t[2]) \union LabelsOf(t[3])
      BY <1>1, <2>1, StateForms
    <3> QED
      BY <3>1
  <2>2. CASE t[1] # "Fork"
    BY <2>2, StateForms
  <2> QED
    BY <2>1, <2>2
<1> HIDE DEF G
<1>2. Trees \subseteq G
  BY <1>1, TreeInduction
<1>3. w \in G
  BY <1>2, StateForms
<1> QED
  BY <1>3 DEF G

\* A label stands once among the nodes of a state.
LEMMA LabelOnce ==
  ASSUME NEW w \in States
  PROVE  \A m, n \in NodesOf(w) :
           m[1] = "Labeled" /\ n[1] = "Labeled" /\ m[2] = n[2] => m = n
<1> DEFINE Once(t) == \A m, n \in NodesOf(t) :
                        m[1] = "Labeled" /\ n[1] = "Labeled" /\ m[2] = n[2] => m = n
<1> DEFINE G == {t \in Trees : t \in States => Once(t)}
<1>1. ASSUME NEW t \in Trees, \A u \in Trees : Height(u) < Height(t) => u \in G
      PROVE  t \in G
  <2> SUFFICES ASSUME t \in States PROVE Once(t)
    OBVIOUS
  <2>1. CASE t[1] = "Fork"
    <3>1. /\ t[2] \in G /\ t[3] \in G /\ t[2] \in States /\ t[3] \in States
          /\ NodesOf(t) = NodesOf(t[2]) \union NodesOf(t[3])
          /\ \A a \in LabelsOf(t[2]), b \in LabelsOf(t[3]) : Before(a, b)
      BY <1>1, <2>1, StateForms
    <3>2. Once(t[2]) /\ Once(t[3])
      BY <3>1
    <3>3. \A a \in LabelsOf(t[2]), b \in LabelsOf(t[3]) : a # b
      BY <3>1, StateLabels, LabelOrder
    <3>4. ASSUME NEW m \in NodesOf(t[2]), NEW n \in NodesOf(t[3]),
                 m[1] = "Labeled", n[1] = "Labeled"
          PROVE  m[2] # n[2]
      BY <3>3, <3>4 DEF LabelsOf
    <3> QED
      BY <3>1, <3>2, <3>4
  <2>2. CASE t[1] # "Fork"
    BY <2>2, StateForms
  <2> QED
    BY <2>1, <2>2
<1> HIDE DEF G
<1>2. Trees \subseteq G
  BY <1>1, TreeInduction
<1>3. w \in G
  BY <1>2, StateForms
<1> QED
  BY <1>3 DEF G

-----------------------------------------------------------------------------
(* The parts of them that are shown *)

Parts == {t \in Trees : Reconstruct(t) \in States}

\* What is shown is a state or shows a part of one.
LEMMA PartForms ==
  ASSUME NEW t \in Parts
  PROVE  \/ /\ t[1] \in {"Empty", "Leaf"} /\ Reconstruct(t) = t
            /\ t = IF t[1] = "Empty" THEN Empty ELSE Leaf(t[2])
         \/ t[1] = "Pruned"
         \/ /\ t[1] = "Labeled" /\ t = Labeled(t[2], t[3])
            /\ t[2] \in TreeLabels /\ t[3] \in Parts
            /\ Reconstruct(t) = Labeled(t[2], Reconstruct(t[3]))
         \/ /\ t[1] = "Fork"
            /\ t[2] \in Parts /\ Height(t[2]) < Height(t)
            /\ t[3] \in Parts /\ Height(t[3]) < Height(t)
            /\ Reconstruct(t) = Fork(Reconstruct(t[2]), Reconstruct(t[3]))
<1>1. t \in Trees /\ Reconstruct(t) \in States
  BY DEF Parts
<1>2. Reconstruct(t) = reconstruct(t)
  BY <1>1, CallsAssumption
<1>3. CASE t[1] = "Fork"
  <2>1. /\ t[2] \in Trees /\ Height(t[2]) < Height(t)
        /\ t[3] \in Trees /\ Height(t[3]) < Height(t)
    BY <1>1, <1>3, TreesAssumption DEF Empty
  <2>2. Reconstruct(t) = Fork(Reconstruct(t[2]), Reconstruct(t[3]))
    BY <1>2, <1>3 DEF reconstruct
  <2>3. /\ Reconstruct(t)[1] = "Fork" /\ Reconstruct(t)[2] = Reconstruct(t[2])
        /\ Reconstruct(t)[3] = Reconstruct(t[3])
    BY <2>2 DEF Fork
  <2>4. Reconstruct(t[2]) \in States /\ Reconstruct(t[3]) \in States
    BY <1>1, <2>3, StateForms
  <2> QED
    BY <1>3, <2>1, <2>2, <2>4 DEF Parts
<1>4. CASE t[1] = "Labeled"
  <2>1. t = Labeled(t[2], t[3]) /\ t[2] \in TreeLabels /\ t[3] \in Trees
    BY <1>1, <1>4, TreesAssumption DEF Empty
  <2>2. Reconstruct(t) = Labeled(t[2], Reconstruct(t[3]))
    BY <1>2, <1>4 DEF reconstruct
  <2>3. Reconstruct(t)[1] = "Labeled" /\ Reconstruct(t)[3] = Reconstruct(t[3])
    BY <2>2 DEF Labeled
  <2>4. Reconstruct(t[3]) \in States
    BY <1>1, <2>3, StateForms
  <2> QED
    BY <1>4, <2>1, <2>2, <2>4 DEF Parts
<1>5. CASE t[1] \notin {"Fork", "Labeled"}
  <2>1. t = Empty \/ (t[1] = "Leaf" /\ t = Leaf(t[2])) \/ t[1] = "Pruned"
    BY <1>1, <1>5, TreesAssumption
  <2>2. t[1] # "Pruned" => Reconstruct(t) = t
    BY <1>2, <1>5 DEF reconstruct
  <2> QED
    BY <2>1, <2>2 DEF Empty
<1> QED
  BY <1>3, <1>4, <1>5

\* The forks of a part are forks of its state.
LEMMA PartNodes ==
  ASSUME NEW t \in Parts
  PROVE  /\ t \in Trees /\ Reconstruct(t) \in States
         /\ NodesOf(t) = IF t[1] = "Fork" THEN NodesOf(t[2]) \union NodesOf(t[3]) ELSE {t}
         /\ t[1] = "Fork" =>
              /\ NodesOf(Reconstruct(t)) =
                   NodesOf(Reconstruct(t[2])) \union NodesOf(Reconstruct(t[3]))
              /\ LabelsOf(Reconstruct(t)) =
                   LabelsOf(Reconstruct(t[2])) \union LabelsOf(Reconstruct(t[3]))
              /\ LabelsOf(Reconstruct(t[2])) # {} /\ LabelsOf(Reconstruct(t[3])) # {}
              /\ \A a \in LabelsOf(Reconstruct(t[2])), b \in LabelsOf(Reconstruct(t[3])) :
                   Before(a, b)
         /\ t[1] = "Labeled" =>
              /\ Labeled(t[2], Reconstruct(t[3])) \in NodesOf(Reconstruct(t))
              /\ LabelsOf(Reconstruct(t)) = {t[2]}
         /\ t[1] \in {"Empty", "Leaf"} => LabelsOf(Reconstruct(t)) = {}
<1> DEFINE w == Reconstruct(t)
<1>1. t \in Trees /\ w \in States
  BY DEF Parts
<1>2. NodesOf(t) = IF t[1] = "Fork" THEN NodesOf(t[2]) \union NodesOf(t[3]) ELSE {t}
  BY <1>1, CallsAssumption DEF nodesOf
<1> HIDE DEF w
<1>3. ASSUME t[1] = "Fork"
      PROVE  /\ NodesOf(w) = NodesOf(Reconstruct(t[2])) \union NodesOf(Reconstruct(t[3]))
             /\ LabelsOf(w) = LabelsOf(Reconstruct(t[2])) \union LabelsOf(Reconstruct(t[3]))
             /\ LabelsOf(Reconstruct(t[2])) # {} /\ LabelsOf(Reconstruct(t[3])) # {}
             /\ \A a \in LabelsOf(Reconstruct(t[2])), b \in LabelsOf(Reconstruct(t[3])) :
                  Before(a, b)
  <2>1. w = Fork(Reconstruct(t[2]), Reconstruct(t[3]))
    BY <1>3, PartForms DEF w
  <2>2. w[1] = "Fork" /\ w[2] = Reconstruct(t[2]) /\ w[3] = Reconstruct(t[3])
    BY <2>1 DEF Fork
  <2> QED
    BY <1>1, <2>2, StateForms, StateLabels
<1>4. ASSUME t[1] = "Labeled"
      PROVE  Labeled(t[2], Reconstruct(t[3])) \in NodesOf(w) /\ LabelsOf(w) = {t[2]}
  <2>1. w = Labeled(t[2], Reconstruct(t[3]))
    BY <1>4, PartForms DEF w
  <2>2. w[1] = "Labeled" /\ w[2] = t[2]
    BY <2>1 DEF Labeled
  <2> QED
    BY <1>1, <2>1, <2>2, StateForms
<1>5. ASSUME t[1] \in {"Empty", "Leaf"} PROVE LabelsOf(w) = {}
  <2>1. w = t
    BY <1>5, PartForms DEF w
  <2> QED
    BY <1>1, <1>5, <2>1, StateForms
<1> QED
  BY <1>1, <1>2, <1>3, <1>4, <1>5 DEF w

\* A labelled tree that is shown is a part of one of the state with that label.
LEMMA NodeShown ==
  ASSUME NEW t \in Parts, NEW n \in NodesOf(t), n[1] = "Labeled"
  PROVE  /\ n[2] \in TreeLabels /\ n[3] \in Parts
         /\ Labeled(n[2], Reconstruct(n[3])) \in NodesOf(Reconstruct(t))
         /\ n[2] \in LabelsOf(Reconstruct(t))
<1> DEFINE Shown(u, m) == /\ m[2] \in TreeLabels /\ m[3] \in Parts
                          /\ Labeled(m[2], Reconstruct(m[3])) \in NodesOf(Reconstruct(u))
<1> DEFINE G == {u \in Trees : u \in Parts =>
                   \A m \in NodesOf(u) : m[1] = "Labeled" => Shown(u, m)}
<1>1. ASSUME NEW u \in Trees, \A v \in Trees : Height(v) < Height(u) => v \in G
      PROVE  u \in G
  <2> SUFFICES ASSUME u \in Parts, NEW m \in NodesOf(u), m[1] = "Labeled" PROVE Shown(u, m)
    OBVIOUS
  <2>1. CASE u[1] = "Fork"
    <3>1. PICK i \in {2, 3} : m \in NodesOf(u[i])
      BY <2>1, PartNodes
    <3>2. u[i] \in G /\ u[i] \in Parts
      BY <1>1, <2>1, PartForms DEF Parts
    <3>3. Shown(u[i], m)
      BY <3>1, <3>2
    <3>4. NodesOf(Reconstruct(u[i])) \subseteq NodesOf(Reconstruct(u))
      BY <2>1, PartNodes
    <3> QED
      BY <3>3, <3>4
  <2>2. CASE u[1] # "Fork"
    <3>1. m = u
      BY <2>2, PartNodes
    <3> QED
      BY <3>1, PartForms, PartNodes
  <2> QED
    BY <2>1, <2>2
<1> HIDE DEF G
<1>2. Trees \subseteq G
  BY <1>1, TreeInduction
<1>3. Shown(t, n)
  <2>1. t \in G
    BY <1>2 DEF Parts
  <2> QED
    BY <2>1 DEF G
<1>4. n[2] \in LabelsOf(Reconstruct(t))
  <2>1. /\ Labeled(n[2], Reconstruct(n[3]))[1] = "Labeled"
        /\ Labeled(n[2], Reconstruct(n[3]))[2] = n[2]
    BY DEF Labeled
  <2>2. \E m \in NodesOf(Reconstruct(t)) : m[1] = "Labeled" /\ m[2] = n[2]
    BY <1>3, <2>1
  <2> QED
    BY <2>2 DEF LabelsOf
<1> QED
  BY <1>3, <1>4

-----------------------------------------------------------------------------
(* find_label *)

LEMMA FindForms ==
  ASSUME NEW t \in Parts, NEW a \in TreeLabels
  PROVE  /\ t[1] \in {"Empty", "Leaf"} => FindLabel(a, t) = Status("Absent")
         /\ t[1] = "Pruned" => FindLabel(a, t) = Status("Unknown")
         /\ t[1] = "Labeled" => FindLabel(a, t) = CompareLabel(a, t)
         /\ t[1] = "Fork" =>
              FindLabel(a, t) = IF FindLabel(a, t[2]).status \in {"Greater", "Unknown"}
                                THEN SearchRight(FindLabel(a, t[2]), FindLabel(a, t[3]))
                                ELSE FindLabel(a, t[2])
<1>1. FindLabel(a, t) = find_label(a, t)
  BY CallsAssumption DEF Parts
<1> QED
  BY <1>1 DEF find_label

\* An answer is one of five; what is found is a part of what the state has there.
LEMMA FindSound ==
  ASSUME NEW t \in Parts, NEW a \in TreeLabels
  PROVE  /\ FindLabel(a, t).status \in {"Found", "Absent", "Unknown", "Less", "Greater"}
         /\ FindLabel(a, t).status = "Found" =>
              /\ FindLabel(a, t).value \in Parts
              /\ Labeled(a, Reconstruct(FindLabel(a, t).value)) \in NodesOf(Reconstruct(t))
<1> DEFINE Sound(u, r) == r.status = "Found" =>
                            /\ r.value \in Parts
                            /\ Labeled(a, Reconstruct(r.value)) \in NodesOf(Reconstruct(u))
           Statuses    == {"Found", "Absent", "Unknown", "Less", "Greater"}
           G           == {u \in Trees : u \in Parts =>
                             /\ FindLabel(a, u).status \in Statuses
                             /\ Sound(u, FindLabel(a, u))}
<1>1. ASSUME NEW u \in Trees, \A v \in Trees : Height(v) < Height(u) => v \in G
      PROVE  u \in G
  <2> SUFFICES ASSUME u \in Parts
               PROVE  FindLabel(a, u).status \in Statuses /\ Sound(u, FindLabel(a, u))
    OBVIOUS
  <2>1. CASE u[1] = "Fork"
    <3>1. /\ u[2] \in G /\ u[2] \in Parts
          /\ u[3] \in G /\ u[3] \in Parts
      BY <1>1, <2>1, PartForms DEF Parts
    <3> DEFINE left == FindLabel(a, u[2])
               right == FindLabel(a, u[3])
    <3>2. left.status \in Statuses /\ right.status \in Statuses
      BY <3>1
    <3>3. Sound(u, left) /\ Sound(u, right)
      <4>1. NodesOf(Reconstruct(u)) =
              NodesOf(Reconstruct(u[2])) \union NodesOf(Reconstruct(u[3]))
        BY <2>1, PartNodes
      <4>2. Sound(u[2], left) /\ Sound(u[3], right)
        BY <3>1
      <4> QED
        BY <4>1, <4>2
    <3>4. FindLabel(a, u) \in {left, right, Status("Absent"), Status("Unknown")}
      BY <2>1, FindForms DEF SearchRight
    <3>5. /\ Status("Absent").status = "Absent" /\ Status("Unknown").status = "Unknown"
      BY DEF Status
    <3> HIDE DEF left, right
    <3> QED
      BY <3>2, <3>3, <3>4, <3>5
  <2>2. CASE u[1] = "Labeled"
    <3>1. FindLabel(a, u) = CompareLabel(a, u)
      BY <2>2, FindForms
    <3>2. \/ FindLabel(a, u).status \in {"Less", "Greater"}
          \/ a = u[2] /\ FindLabel(a, u).status = "Found" /\ FindLabel(a, u).value = u[3]
      BY <3>1 DEF CompareLabel, Status, FoundValue
    <3>3. u[3] \in Parts /\ Labeled(u[2], Reconstruct(u[3])) \in NodesOf(Reconstruct(u))
      BY <2>2, PartForms, PartNodes
    <3> QED
      BY <3>2, <3>3
  <2>3. CASE u[1] \in {"Empty", "Leaf", "Pruned"}
    BY <2>3, FindForms DEF Status
  <2> QED
    BY <2>1, <2>2, <2>3, PartForms
<1> HIDE DEF G
<1>2. Trees \subseteq G
  BY <1>1, TreeInduction
<1>3. t \in G
  BY <1>2 DEF Parts
<1> QED
  BY <1>3 DEF G

\* A label that is compared right with those of a fork is so with those of its sides.
LEMMA ForkCompared ==
  ASSUME NEW u \in Trees, u[1] = "Fork", NEW a, Compared(a, u)
  PROVE  Compared(a, u[2]) /\ Compared(a, u[3])
<1>1. NodesOf(u) = NodesOf(u[2]) \union NodesOf(u[3])
  BY CallsAssumption DEF nodesOf
<1>2. LabelsOf(u[2]) \subseteq LabelsOf(u) /\ LabelsOf(u[3]) \subseteq LabelsOf(u)
  BY <1>1 DEF LabelsOf
<1> QED
  BY <1>2 DEF Compared

LEMMA NodeCompared ==
  ASSUME NEW u \in Trees, u[1] = "Labeled", NEW a, Compared(a, u), a # u[2]
  PROVE  IF isBufferGreaterThan(a, u[2]) THEN Before(u[2], a) ELSE Before(a, u[2])
<1>1. NodesOf(u) = {u}
  BY CallsAssumption DEF nodesOf
<1>2. u[2] \in LabelsOf(u)
  BY <1>1 DEF LabelsOf
<1> QED
  BY <1>2 DEF Compared

\* Where a label is compared as it is ordered, the other answers are right as well.
LEMMA FindOrdered ==
  ASSUME NEW t \in Parts, NEW a \in TreeLabels, Compared(a, t)
  PROVE  LET all == LabelsOf(Reconstruct(t))
         IN  /\ FindLabel(a, t).status = "Less" => all # {} /\ \A b \in all : Before(a, b)
             /\ FindLabel(a, t).status = "Greater" => all # {} /\ \A b \in all : Before(b, a)
             /\ FindLabel(a, t).status = "Absent" =>
                  /\ a \notin all
                  /\ all = {} \/ \E b, c \in all : Before(b, a) /\ Before(a, c)
<1> DEFINE Right(s, all) ==
             /\ s = "Less" => all # {} /\ \A b \in all : Before(a, b)
             /\ s = "Greater" => all # {} /\ \A b \in all : Before(b, a)
             /\ s = "Absent" =>
                  /\ a \notin all
                  /\ all = {} \/ \E b, c \in all : Before(b, a) /\ Before(a, c)
           G == {u \in Trees : u \in Parts /\ Compared(a, u) =>
                                 Right(FindLabel(a, u).status, LabelsOf(Reconstruct(u)))}
<1>1. ASSUME NEW u \in Trees, \A v \in Trees : Height(v) < Height(u) => v \in G
      PROVE  u \in G
  <2> SUFFICES ASSUME u \in Parts, Compared(a, u)
               PROVE  Right(FindLabel(a, u).status, LabelsOf(Reconstruct(u)))
    OBVIOUS
  <2>1. CASE u[1] = "Fork"
    <3> DEFINE l == FindLabel(a, u[2]).status
               r == FindLabel(a, u[3]).status
               L == LabelsOf(Reconstruct(u[2]))
               R == LabelsOf(Reconstruct(u[3]))
    <3>1. /\ u[2] \in G /\ u[2] \in Parts
          /\ u[3] \in G /\ u[3] \in Parts
      BY <1>1, <2>1, PartForms DEF Parts
    <3>2. Right(l, L) /\ Right(r, R)
      <4>1. Compared(a, u[2]) /\ Compared(a, u[3])
        BY <2>1, ForkCompared
      <4> QED
        BY <3>1, <4>1
    <3>3. L # {} /\ R # {} /\ \A b \in L, c \in R : Before(b, c)
      BY <2>1, PartNodes
    <3>4. L \subseteq TreeLabels /\ R \subseteq TreeLabels
      BY <3>1, StateLabels DEF Parts
    <3>5. LabelsOf(Reconstruct(u)) = L \union R
      BY <2>1, PartNodes
    <3>6. l \in {"Found", "Absent", "Unknown", "Less", "Greater"}
      BY <3>1, FindSound
    <3>7. FindLabel(a, u).status =
            IF l \notin {"Greater", "Unknown"} THEN l
            ELSE IF r # "Less" THEN r
            ELSE IF l = "Greater" THEN "Absent" ELSE "Unknown"
      <4>1. Status("Absent").status = "Absent" /\ Status("Unknown").status = "Unknown"
        BY DEF Status
      <4>2. FindLabel(a, u) = IF l \in {"Greater", "Unknown"}
                              THEN SearchRight(FindLabel(a, u[2]), FindLabel(a, u[3]))
                              ELSE FindLabel(a, u[2])
        BY <2>1, FindForms
      <4>3. SearchRight(FindLabel(a, u[2]), FindLabel(a, u[3])) =
              IF r # "Less" THEN FindLabel(a, u[3])
              ELSE IF l = "Greater" THEN Status("Absent") ELSE Status("Unknown")
        BY DEF SearchRight
      <4> QED
        BY <4>1, <4>2, <4>3
    <3> HIDE DEF G, l, r, L, R
    <3>8. CASE l \notin {"Greater", "Unknown"}
      <4>1. CASE l = "Less"
        <5>1. PICK b \in L : Before(a, b)
          BY <3>2, <3>3, <4>1
        <5>2. \A c \in R : Before(a, c)
          BY <3>3, <3>4, <5>1, LabelOrder
        <5> QED
          BY <3>2, <3>3, <3>5, <3>7, <4>1, <5>2
      <4>2. CASE l = "Absent"
        <5>1. a \notin L
          BY <3>2, <4>2
        <5>2. PICK b \in L, c \in L : Before(b, a) /\ Before(a, c)
          BY <3>2, <3>3, <4>2
        <5>3. a \notin R
          BY <3>3, <3>4, <5>2, LabelOrder
        <5> QED
          BY <3>5, <3>7, <4>2, <5>1, <5>2, <5>3
      <4> QED
        BY <3>6, <3>7, <3>8, <4>1, <4>2
    <3>9. CASE l \in {"Greater", "Unknown"} /\ r # "Less"
      <4>1. CASE r = "Greater"
        <5>1. PICK b \in R : Before(b, a)
          BY <3>2, <3>3, <4>1
        <5>2. \A c \in L : Before(c, a)
          BY <3>3, <3>4, <5>1, LabelOrder
        <5> QED
          BY <3>2, <3>3, <3>5, <3>7, <3>9, <4>1, <5>2
      <4>2. CASE r = "Absent"
        <5>1. a \notin R
          BY <3>2, <4>2
        <5>2. PICK b \in R, c \in R : Before(b, a) /\ Before(a, c)
          BY <3>2, <3>3, <4>2
        <5>3. a \notin L
          BY <3>3, <3>4, <5>2, LabelOrder
        <5> QED
          BY <3>5, <3>7, <3>9, <4>2, <5>1, <5>2, <5>3
      <4> QED
        BY <3>7, <3>9, <4>1, <4>2
    <3>10. CASE l \in {"Greater", "Unknown"} /\ r = "Less"
      <4>1. CASE l = "Greater"
        <5>1. (\A b \in L : Before(b, a)) /\ (\A b \in R : Before(a, b))
          BY <3>2, <3>10, <4>1
        <5>2. a \notin L /\ a \notin R
          BY <3>4, <5>1, LabelOrder
        <5>3. PICK b \in L, c \in R : Before(b, a) /\ Before(a, c)
          BY <3>3, <5>1
        <5> QED
          BY <3>5, <3>7, <3>10, <4>1, <5>2, <5>3
      <4> QED
        BY <3>7, <3>10, <4>1
    <3> QED
      BY <3>8, <3>9, <3>10
  <2>2. CASE u[1] = "Labeled"
    <3>1. u[2] \in TreeLabels /\ LabelsOf(Reconstruct(u)) = {u[2]}
      BY <2>2, PartForms, PartNodes
    <3>2. FindLabel(a, u).status =
            IF isBufferGreaterThan(a, u[2]) THEN "Greater"
            ELSE IF a = u[2] THEN "Found" ELSE "Less"
      <4>1. FindLabel(a, u) = CompareLabel(a, u)
        BY <2>2, FindForms
      <4>2. CompareLabel(a, u) =
              IF isBufferGreaterThan(a, u[2]) THEN Status("Greater")
              ELSE IF a = u[2] THEN FoundValue(u[3]) ELSE Status("Less")
        BY DEF CompareLabel
      <4>3. /\ Status("Greater").status = "Greater" /\ Status("Less").status = "Less"
            /\ FoundValue(u[3]).status = "Found"
        BY DEF Status, FoundValue
      <4> QED
        BY <4>1, <4>2, <4>3
    <3>3. isBufferGreaterThan(a, u[2]) => a # u[2]
      BY LabelOrder
    <3>4. a # u[2] => IF isBufferGreaterThan(a, u[2]) THEN Before(u[2], a) ELSE Before(a, u[2])
      BY <2>2, NodeCompared
    <3> QED
      BY <3>1, <3>2, <3>3, <3>4
  <2>3. CASE u[1] \in {"Empty", "Leaf"}
    BY <2>3, FindForms, PartNodes DEF Status
  <2>4. CASE u[1] = "Pruned"
    BY <2>4, FindForms DEF Status
  <2> QED
    BY <2>1, <2>2, <2>3, <2>4, PartForms
<1> HIDE DEF G
<1>2. Trees \subseteq G
  BY <1>1, TreeInduction
<1>3. t \in G
  BY <1>2 DEF Parts
<1> QED
  BY <1>3 DEF G

\* ... and a labelled tree that is shown is found.
LEMMA FindShown ==
  ASSUME NEW t \in Parts, NEW n \in NodesOf(t), n[1] = "Labeled", Compared(n[2], t)
  PROVE  FindLabel(n[2], t) = FoundValue(n[3])
<1> DEFINE G == {u \in Trees : u \in Parts /\ Compared(n[2], u) =>
                   (n \in NodesOf(u) => FindLabel(n[2], u) = FoundValue(n[3]))}
<1>1. ASSUME NEW u \in Trees, \A v \in Trees : Height(v) < Height(u) => v \in G
      PROVE  u \in G
  <2> SUFFICES ASSUME u \in Parts, Compared(n[2], u), n \in NodesOf(u)
               PROVE  FindLabel(n[2], u) = FoundValue(n[3])
    OBVIOUS
  <2>0. n[2] \in TreeLabels /\ FoundValue(n[3]).status = "Found"
    BY NodeShown DEF FoundValue
  <2>1. CASE u[1] = "Fork"
    <3>1. /\ u[2] \in G /\ u[2] \in Parts
          /\ u[3] \in G /\ u[3] \in Parts
      BY <1>1, <2>1, PartForms DEF Parts
    <3>4. Compared(n[2], u[2]) /\ Compared(n[2], u[3])
      BY <2>1, ForkCompared
    <3>2. CASE n \in NodesOf(u[2])
      <4>1. FindLabel(n[2], u[2]) = FoundValue(n[3])
        BY <3>1, <3>2, <3>4
      <4> QED
        BY <2>0, <2>1, <4>1, FindForms
    <3>3. CASE n \in NodesOf(u[3])
      <4>1. FindLabel(n[2], u[3]) = FoundValue(n[3])
        BY <3>1, <3>3, <3>4
      <4> DEFINE L == LabelsOf(Reconstruct(u[2]))
                 l == FindLabel(n[2], u[2]).status
      <4>2. \A b \in L : Before(b, n[2])
        BY <2>1, <3>1, <3>3, NodeShown, PartNodes
      <4>3. L \subseteq TreeLabels
        BY <3>1, StateLabels DEF Parts
      <4>4. n[2] \notin L
        BY <2>0, <4>2, <4>3, LabelOrder
      <4>5. l # "Found"
        <5>1. ASSUME l = "Found"
              PROVE  \E m \in NodesOf(Reconstruct(u[2])) : m[1] = "Labeled" /\ m[2] = n[2]
          BY <2>0, <3>1, <5>1, FindSound DEF Labeled
        <5> QED
          BY <4>4, <5>1 DEF LabelsOf
      <4>6. l # "Less"
        <5>1. l = "Less" => \E b \in L : Before(n[2], b)
          BY <2>0, <3>1, <3>4, FindOrdered
        <5> QED
          BY <2>0, <4>2, <4>3, <5>1, LabelOrder
      <4>7. l # "Absent"
        <5>1. L # {}
          BY <2>1, PartNodes
        <5>2. l = "Absent" => \E c \in L : Before(n[2], c)
          BY <2>0, <3>1, <3>4, <5>1, FindOrdered
        <5> QED
          BY <2>0, <4>2, <4>3, <5>2, LabelOrder
      <4>8. l \in {"Greater", "Unknown"}
        BY <2>0, <3>1, <4>5, <4>6, <4>7, FindSound
      <4> QED
        BY <2>0, <2>1, <4>1, <4>8, FindForms DEF SearchRight
    <3> QED
      BY <2>1, <3>2, <3>3, PartNodes
  <2>2. CASE u[1] # "Fork"
    <3>1. n = u
      BY <2>2, PartNodes
    <3>2. FindLabel(n[2], u) = CompareLabel(n[2], n)
      BY <2>0, <3>1, FindForms
    <3>3. ~isBufferGreaterThan(n[2], n[2])
      BY <2>0, LabelOrder
    <3> QED
      BY <3>2, <3>3 DEF CompareLabel
  <2> QED
    BY <2>1, <2>2
<1> HIDE DEF G
<1>2. Trees \subseteq G
  BY <1>1, TreeInduction
<1>3. t \in G
  BY <1>2 DEF Parts
<1> QED
  BY <1>3 DEF G

\* What find_label finds is below a labelled tree that is shown.
LEMMA FoundNode ==
  ASSUME NEW t \in Parts, NEW a \in TreeLabels, FindLabel(a, t).status = "Found"
  PROVE  \E n \in NodesOf(t) : n[1] = "Labeled" /\ n[2] = a /\ n[3] = FindLabel(a, t).value
<1> DEFINE Shown(u) ==
             \E n \in NodesOf(u) : n[1] = "Labeled" /\ n[2] = a /\ n[3] = FindLabel(a, u).value
           G == {u \in Trees : u \in Parts /\ FindLabel(a, u).status = "Found" => Shown(u)}
<1>1. ASSUME NEW u \in Trees, \A v \in Trees : Height(v) < Height(u) => v \in G
      PROVE  u \in G
  <2> SUFFICES ASSUME u \in Parts, FindLabel(a, u).status = "Found" PROVE Shown(u)
    OBVIOUS
  <2>1. CASE u[1] = "Fork"
    <3>1. /\ u[2] \in G /\ u[2] \in Parts
          /\ u[3] \in G /\ u[3] \in Parts
      BY <1>1, <2>1, PartForms DEF Parts
    <3>2. NodesOf(u) = NodesOf(u[2]) \union NodesOf(u[3])
      BY <2>1, CallsAssumption DEF nodesOf
    <3>3. FindLabel(a, u) \in {FindLabel(a, u[2]), FindLabel(a, u[3]),
                               Status("Absent"), Status("Unknown")}
      BY <2>1, FindForms DEF SearchRight
    <3>4. FindLabel(a, u) \in {FindLabel(a, u[2]), FindLabel(a, u[3])}
      BY <3>3 DEF Status
    <3> QED
      BY <3>1, <3>2, <3>4
  <2>2. CASE u[1] = "Labeled"
    <3>1. FindLabel(a, u) = CompareLabel(a, u) /\ NodesOf(u) = {u}
      BY <2>2, FindForms, CallsAssumption DEF nodesOf
    <3>2. a = u[2] /\ FindLabel(a, u).value = u[3]
      BY <3>1 DEF CompareLabel, Status, FoundValue
    <3> QED
      BY <2>2, <3>1, <3>2
  <2>3. CASE u[1] \in {"Empty", "Leaf", "Pruned"}
    BY <2>3, FindForms DEF Status
  <2> QED
    BY <2>1, <2>2, <2>3, PartForms
<1> HIDE DEF G
<1>2. Trees \subseteq G
  BY <1>1, TreeInduction
<1>3. t \in G
  BY <1>2 DEF Parts
<1> QED
  BY <1>3 DEF G

-----------------------------------------------------------------------------
(* lookup_path and lookup_subtree *)

LEMMA HereForms ==
  ASSUME NEW t \in Parts
  PROVE  /\ t[1] = "Leaf" => Here(t) = FoundValue(t[2])
         /\ Here(t).status = "Found" => t[1] = "Leaf" /\ Here(t).value = t[2]
         /\ Here(t).status = "Absent" => t[1] = "Empty"
         /\ Here(t).status = "Error" => t[1] \in {"Labeled", "Fork"}
BY PartForms DEF Here, FoundValue, Status

\* Where a path goes on in a part of a state.
LEMMA LookupForms ==
  ASSUME NEW t \in Parts, NEW p \in Paths
  PROVE  /\ p = <<>> =>
              /\ LookupPath(p, t) = Here(t) /\ LookupSubtree(p, t) = FoundValue(t)
              /\ SubtreesAt(p, t) = {t} /\ SubtreesAt(p, Reconstruct(t)) = {Reconstruct(t)}
         /\ p # <<>> =>
              LET f == FindLabel(Head(p), t)
              IN  /\ Head(p) \in TreeLabels /\ Tail(p) \in Paths
                  /\ f.status = "Found" =>
                       /\ LookupPath(p, t) = LookupPath(Tail(p), f.value)
                       /\ LookupSubtree(p, t) = LookupSubtree(Tail(p), f.value)
                  /\ f.status = "Unknown" =>
                       LookupPath(p, t) = Status("Unknown") /\ LookupSubtree(p, t) = Status("Unknown")
                  /\ f.status \notin {"Found", "Unknown"} =>
                       LookupPath(p, t) = Status("Absent") /\ LookupSubtree(p, t) = Status("Absent")
<1>1. t \in Trees /\ Reconstruct(t) \in Trees
  BY StatesAssumption DEF Parts
<1>2. /\ LookupPath(p, t) = lookup_path(p, t)
      /\ LookupSubtree(p, t) = lookup_subtree(p, t)
      /\ SubtreesAt(p, t) = subtreesAt(p, t)
      /\ SubtreesAt(p, Reconstruct(t)) = subtreesAt(p, Reconstruct(t))
  BY <1>1, CallsAssumption
<1>3. CASE p = <<>>
  BY <1>2, <1>3 DEF lookup_path, lookup_subtree, subtreesAt
<1>4. CASE p # <<>>
  <2>1. p \in Seq(TreeLabels) /\ Tail(p) \in Paths
    BY <1>4, PathsAssumption
  <2>2. Head(p) \in TreeLabels
    BY <1>4, <2>1
  <2> QED
    BY <1>2, <1>4, <2>1, <2>2 DEF lookup_path, lookup_subtree
<1> QED
  BY <1>3, <1>4

\* The subtrees at a path are those at its end of the nodes with its first label.
LEMMA SubtreesForm ==
  ASSUME NEW t \in Trees, NEW p \in Paths, p # <<>>, NEW s
  PROVE  s \in SubtreesAt(p, t) <=>
           \E n \in NodesOf(t) :
             n[1] = "Labeled" /\ n[2] = Head(p) /\ s \in SubtreesAt(Tail(p), n[3])
<1>1. SubtreesAt(p, t) = subtreesAt(p, t)
  BY CallsAssumption
<1>2. subtreesAt(p, t) =
        UNION {SubtreesAt(Tail(p), n[3]) :
                 n \in {m \in NodesOf(t) : m[1] = "Labeled" /\ m[2] = Head(p)}}
  BY DEF subtreesAt
<1> QED
  BY <1>1, <1>2

\* The subtrees that a state has at a path whose first label is found there.
LEMMA StateSubtrees ==
  ASSUME NEW t \in Parts, NEW p \in Paths, p # <<>>,
         FindLabel(Head(p), t).status = "Found"
  PROVE  /\ FindLabel(Head(p), t).value \in Parts
         /\ SubtreesAt(p, Reconstruct(t)) =
              SubtreesAt(Tail(p), Reconstruct(FindLabel(Head(p), t).value))
<1> DEFINE w == Reconstruct(t)
           x == Reconstruct(FindLabel(Head(p), t).value)
           m == Labeled(Head(p), x)
<1>1. Head(p) \in TreeLabels
  BY LookupForms
<1>2. FindLabel(Head(p), t).value \in Parts /\ m \in NodesOf(w)
  BY <1>1, FindSound
<1>3. w \in States /\ w \in Trees
  BY StatesAssumption DEF Parts
<1>4. m[1] = "Labeled" /\ m[2] = Head(p) /\ m[3] = x
  BY DEF Labeled
<1> HIDE DEF w, x, m
<1>5. \A n \in NodesOf(w) : n[1] = "Labeled" /\ n[2] = Head(p) => n = m
  BY <1>2, <1>3, <1>4, LabelOnce
<1>6. SubtreesAt(p, w) = SubtreesAt(Tail(p), x)
  <2>1. /\ SubtreesAt(p, w) = UNION {SubtreesAt(Tail(p), n[3]) :
                 n \in {k \in NodesOf(w) : k[1] = "Labeled" /\ k[2] = Head(p)}}
    BY <1>3, CallsAssumption DEF subtreesAt
  <2>2. {k \in NodesOf(w) : k[1] = "Labeled" /\ k[2] = Head(p)} = {m}
    BY <1>2, <1>4, <1>5
  <2> QED
    BY <1>4, <2>1, <2>2
<1> QED
  BY <1>2, <1>6 DEF w, x

\* What is found in a part of a state is a value of the state.
LEMMA LookupFound ==
  ASSUME NEW p \in Paths, NEW t \in Parts, LookupPath(p, t).status = "Found"
  PROVE  Leaf(LookupPath(p, t).value) \in SubtreesAt(p, Reconstruct(t))
<1> DEFINE G == {q \in Paths : \A u \in Parts :
                   LookupPath(q, u).status = "Found" =>
                     Leaf(LookupPath(q, u).value) \in SubtreesAt(q, Reconstruct(u))}
<1>1. ASSUME NEW q \in Paths, q # <<>> => Tail(q) \in G PROVE q \in G
  <2> SUFFICES ASSUME NEW u \in Parts, LookupPath(q, u).status = "Found"
               PROVE  Leaf(LookupPath(q, u).value) \in SubtreesAt(q, Reconstruct(u))
    OBVIOUS
  <2>1. CASE q = <<>>
    <3>1. LookupPath(q, u) = Here(u) /\ SubtreesAt(q, Reconstruct(u)) = {Reconstruct(u)}
      BY <2>1, LookupForms
    <3>2. u[1] = "Leaf" /\ LookupPath(q, u).value = u[2]
      BY <3>1, HereForms
    <3>3. Reconstruct(u) = Leaf(u[2])
      BY <3>2, PartForms
    <3> QED
      BY <3>1, <3>2, <3>3
  <2>2. CASE q # <<>>
    <3> DEFINE f == FindLabel(Head(q), u)
    <3>1. f.status = "Found" /\ LookupPath(q, u) = LookupPath(Tail(q), f.value)
      BY <2>2, LookupForms DEF Status
    <3>2. /\ f.value \in Parts
          /\ SubtreesAt(q, Reconstruct(u)) = SubtreesAt(Tail(q), Reconstruct(f.value))
      BY <2>2, <3>1, StateSubtrees
    <3> QED
      BY <1>1, <2>2, <3>1, <3>2
  <2> QED
    BY <2>1, <2>2
<1> HIDE DEF G
<1>2. Paths \subseteq G
  BY <1>1, PathInduction
<1> QED
  BY <1>2 DEF G

\* The same of lookup_subtree.
LEMMA SubtreeFound ==
  ASSUME NEW p \in Paths, NEW t \in Parts, LookupSubtree(p, t).status = "Found"
  PROVE  Reconstruct(LookupSubtree(p, t).value) \in SubtreesAt(p, Reconstruct(t))
<1> DEFINE G == {q \in Paths : \A u \in Parts :
                   LookupSubtree(q, u).status = "Found" =>
                     Reconstruct(LookupSubtree(q, u).value) \in SubtreesAt(q, Reconstruct(u))}
<1>1. ASSUME NEW q \in Paths, q # <<>> => Tail(q) \in G PROVE q \in G
  <2> SUFFICES ASSUME NEW u \in Parts, LookupSubtree(q, u).status = "Found"
               PROVE  Reconstruct(LookupSubtree(q, u).value) \in SubtreesAt(q, Reconstruct(u))
    OBVIOUS
  <2>1. CASE q = <<>>
    <3>1. /\ LookupSubtree(q, u) = FoundValue(u)
          /\ SubtreesAt(q, Reconstruct(u)) = {Reconstruct(u)}
      BY <2>1, LookupForms
    <3>2. LookupSubtree(q, u).value = u
      BY <3>1 DEF FoundValue
    <3> QED
      BY <3>1, <3>2
  <2>2. CASE q # <<>>
    <3> DEFINE f == FindLabel(Head(q), u)
    <3>1. f.status = "Found" /\ LookupSubtree(q, u) = LookupSubtree(Tail(q), f.value)
      BY <2>2, LookupForms DEF Status
    <3>2. /\ f.value \in Parts
          /\ SubtreesAt(q, Reconstruct(u)) = SubtreesAt(Tail(q), Reconstruct(f.value))
      BY <2>2, <3>1, StateSubtrees
    <3> QED
      BY <1>1, <2>2, <3>1, <3>2
  <2> QED
    BY <2>1, <2>2
<1> HIDE DEF G
<1>2. Paths \subseteq G
  BY <1>1, PathInduction
<1> QED
  BY <1>2 DEF G

\* Where the labels of a path are compared as they are ordered, the answers for a part
\* of a state are those of the state.
LEMMA PartTellsTheWhole ==
  ASSUME NEW p \in Paths, NEW t \in Parts, ComparedAlong(p, t)
  PROVE  TellsTheWhole(p, t, Reconstruct(t))
<1> DEFINE G == {q \in Paths : \A u \in Parts :
                   ComparedAlong(q, u) => TellsTheWhole(q, u, Reconstruct(u))}
<1>1. ASSUME NEW q \in Paths, q # <<>> => Tail(q) \in G PROVE q \in G
  <2> SUFFICES ASSUME NEW u \in Parts, ComparedAlong(q, u)
               PROVE  TellsTheWhole(q, u, Reconstruct(u))
    OBVIOUS
  <2>0. u \in Trees /\ Reconstruct(u) \in States /\ Reconstruct(u) \in Trees
    BY StatesAssumption DEF Parts
  <2>1. CASE q = <<>>
    <3>1. /\ LookupPath(q, u) = Here(u) /\ LookupSubtree(q, u) = FoundValue(u)
          /\ SubtreesAt(q, Reconstruct(u)) = {Reconstruct(u)} /\ SubtreesAt(q, u) = {u}
      BY <2>1, LookupForms
    <3>2. LookupSubtree(q, u).status = "Found" /\ LookupSubtree(q, u).value = u
      BY <3>1 DEF FoundValue
    <3>3. /\ u[1] = "Leaf" => Reconstruct(u) = Leaf(u[2])
          /\ u[1] = "Empty" => Reconstruct(u) = Empty
      BY PartForms
    <3>4. u[1] \in {"Labeled", "Fork"} => Reconstruct(u)[1] \in {"Labeled", "Fork"}
      BY PartForms DEF Labeled, Fork
    <3> QED
      BY <3>1, <3>2, <3>3, <3>4, HereForms DEF TellsTheWhole, FoundThere
  <2>2. CASE q # <<>>
    <3> DEFINE a == Head(q)
               f == FindLabel(a, u)
    <3>1. a \in TreeLabels /\ Tail(q) \in Paths
      BY <2>2, LookupForms
    <3>5. /\ Compared(a, u)
          /\ \A n \in NodesOf(u) :
               n[1] = "Labeled" /\ n[2] = a => ComparedAlong(Tail(q), n[3])
      BY <2>0, <2>2, CallsAssumption DEF comparedAlong
    <3>2. ASSUME NEW n \in NodesOf(u), n[1] = "Labeled", n[2] = a
          PROVE  f.status = "Found" /\ f.value = n[3]
      <4>1. FindLabel(n[2], u) = FoundValue(n[3])
        BY <3>2, <3>5, FindShown
      <4> QED
        BY <3>2, <4>1 DEF FoundValue
    <3>3. CASE f.status = "Found"
      <4>1. /\ LookupPath(q, u) = LookupPath(Tail(q), f.value)
            /\ LookupSubtree(q, u) = LookupSubtree(Tail(q), f.value)
        BY <2>2, <3>3, LookupForms
      <4>2. /\ f.value \in Parts
            /\ SubtreesAt(q, Reconstruct(u)) = SubtreesAt(Tail(q), Reconstruct(f.value))
        BY <2>2, <3>3, StateSubtrees
      <4>3. SubtreesAt(q, u) \subseteq SubtreesAt(Tail(q), f.value)
        BY <2>0, <2>2, <3>2, SubtreesForm
      <4>5. PICK n \in NodesOf(u) : n[1] = "Labeled" /\ n[2] = a /\ n[3] = f.value
        BY <3>1, <3>3, FoundNode
      <4>6. ComparedAlong(Tail(q), f.value)
        BY <3>5, <4>5
      <4>4. TellsTheWhole(Tail(q), f.value, Reconstruct(f.value))
        BY <1>1, <2>2, <4>2, <4>6
      <4> HIDE DEF f
      <4> QED
        BY <4>1, <4>2, <4>3, <4>4 DEF TellsTheWhole, FoundThere
    <3>4. CASE f.status # "Found"
      <4>1. /\ LookupPath(q, u) = LookupSubtree(q, u)
            /\ LookupPath(q, u) = Status(IF f.status = "Unknown" THEN "Unknown" ELSE "Absent")
        BY <2>2, <3>4, LookupForms
      <4>2. LookupPath(q, u).status = IF f.status = "Unknown" THEN "Unknown" ELSE "Absent"
        BY <4>1 DEF Status
      <4>3. SubtreesAt(q, u) = {}
        BY <2>0, <2>2, <3>2, <3>4, SubtreesForm
      <4>4. ASSUME f.status # "Unknown" PROVE SubtreesAt(q, Reconstruct(u)) = {}
        <5>1. f.status \in {"Less", "Greater", "Absent"}
          BY <3>1, <3>4, <4>4, FindSound
        <5>2. LabelsOf(Reconstruct(u)) \subseteq TreeLabels
          BY <2>0, StateLabels
        <5>3. a \notin LabelsOf(Reconstruct(u))
          BY <3>1, <3>5, <5>1, <5>2, FindOrdered, LabelOrder
        <5>4. \A n \in NodesOf(Reconstruct(u)) : ~(n[1] = "Labeled" /\ n[2] = a)
          BY <5>3 DEF LabelsOf
        <5> QED
          BY <2>0, <2>2, <5>4, SubtreesForm
      <4> HIDE DEF f
      <4> QED
        BY <4>1, <4>2, <4>3, <4>4 DEF TellsTheWhole, FoundThere
    <3> QED
      BY <3>3, <3>4
  <2> QED
    BY <2>1, <2>2
<1> HIDE DEF G
<1>2. Paths \subseteq G
  BY <1>1, PathInduction
<1> QED
  BY <1>2 DEF G

-----------------------------------------------------------------------------
(* What an accepted certificate is *)

LEMMA AcceptedInOrder ==
  ASSUME NEW o, NEW synced, NEW diff, Verify(o, synced, diff) = "accepted"
  PROVE  InOrder(o)
<1>1. \A cert, age, key :
        Judge(o, cert, age, key, synced, diff) = "accepted" =>
          TimeOf(cert) # None /\ SignedBy(cert, key)
  BY DEF Judge
<1>2. CASE o.cert.delegation = None
  BY <1>1, <1>2 DEF Verify, InOrder
<1>3. CASE o.cert.delegation # None
  <2> DEFINE d == o.cert.delegation
  <2>1. JudgeDelegation(o, d, synced, diff) = "accepted"
    BY <1>3 DEF Verify
  <2>2. Judge(o, o.cert, MaxAge, KeyOf(d), synced, diff) = "accepted"
    BY <1>3, <2>1 DEF Verify
  <2>3. /\ d.cert.delegation = None /\ Authorises(o, d)
        /\ Judge(o, d.cert, DelegationMaxAge, RootKey, synced, diff) = "accepted"
    BY <2>1 DEF JudgeDelegation
  <2> QED
    BY <1>1, <1>3, <2>2, <2>3 DEF InOrder
<1> QED
  BY <1>2, <1>3

\* A certificate that is accepted is in order, and stays the same.
AcceptedInv == ClockInv /\ (pc = "accepted" => InOrder(options))

LEMMA AcceptedStep == AcceptedInv /\ [Next]_vars => AcceptedInv'
<1> SUFFICES ASSUME AcceptedInv, [Next]_vars PROVE AcceptedInv'
  OBVIOUS
<1>0. ClockInv'
  BY ClockStep DEF AcceptedInv
<1>1. ASSUME UNCHANGED options, pc' = "accepted" => pc = "accepted" PROVE AcceptedInv'
  <2>1. InOrder(options)' <=> InOrder(options)
    BY <1>1 DEF InOrder, TimeOf, SignedBy, Authorises, CanisterInRange, KeyOf
  <2> QED
    BY <1>0, <1>1, <2>1 DEF AcceptedInv
<1>2. ASSUME NEW o, NEW synced, NEW diff, Pass(o, synced, diff), options' = o PROVE AcceptedInv'
  <2>1. pc' = "accepted" => InOrder(o)
    BY <1>2, AcceptedInOrder DEF Pass
  <2>2. InOrder(options)' <=> InOrder(o)
    BY <1>2 DEF InOrder, TimeOf, SignedBy, Authorises, CanisterInRange, KeyOf
  <2> QED
    BY <1>0, <2>1, <2>2 DEF AcceptedInv
<1>3. CASE UNCHANGED vars \/ Tick \/ StartSync \/ SyncThrow
  BY <1>1, <1>3 DEF vars, checkVars, Tick, StartSync, SyncThrow
<1>4. ASSUME NEW o \in Options, Create(o) PROVE AcceptedInv'
  BY <1>2, <1>4 DEF Create
<1>5. CASE SyncOk \/ SyncNone
  <2>1. /\ UNCHANGED options
        /\ pc = "waiting" => \E synced : Pass(options, synced, timeDiff')
        /\ pc # "waiting" => UNCHANGED pc
    BY <1>5 DEF SyncOk, SyncNone
  <2> QED
    BY <1>1, <1>2, <2>1
<1> QED
  BY <1>3, <1>4, <1>5 DEF Next, SyncStep

LEMMA AcceptedInit == Init => AcceptedInv
BY ClockInit DEF Init, AcceptedInv

\* What an accepted certificate and that of its delegation show are parts of states.
LEMMA ShowsPart ==
  ASSUME NEW cert, NEW key \in DOMAIN Assigned, SignsState(cert), SignedBy(cert, key)
  PROVE  /\ cert.sig.key = key /\ cert.sig.hash = Reconstruct(cert.tree)
         /\ cert.tree \in Parts
BY DEF SignsState, SignedBy, Parts

LEMMA KeySpeaks ==
  ASSUME NEW o \in Options, InOrder(o)
  PROVE  /\ o.cert.sig.key \in DOMAIN Assigned
         /\ o.canister \in Assigned[o.cert.sig.key]
         /\ o.cert.tree \in Parts /\ o.cert.sig.hash = Reconstruct(o.cert.tree)
<1> DEFINE d == o.cert.delegation
<1>1. RootKey \in DOMAIN Assigned /\ o.canister \in Assigned[RootKey] /\ SignsState(o.cert)
  BY NetworkAssumption
<1>2. CASE d = None
  <2>1. SignedBy(o.cert, RootKey)
    BY <1>2 DEF InOrder
  <2> QED
    BY <1>1, <2>1, ShowsPart
<1>3. CASE d # None
  <2> DEFINE tree   == d.cert.tree
             ranges == lookupResultToBuffer(LookupPath(RangesPath(d.subnet), tree))
  <2>1. /\ SignedBy(d.cert, RootKey) /\ SignedBy(o.cert, KeyOf(d)) /\ Authorises(o, d)
    BY <1>3 DEF InOrder
  <2>2. /\ SignsState(d.cert) /\ KeyPath(d.subnet) \in Paths /\ RangesPath(d.subnet) \in Paths
        /\ d.cert.sig.key = RootKey =>
             \A k \in SubtreesAt(KeyPath(d.subnet), d.cert.sig.hash),
                v \in SubtreesAt(RangesPath(d.subnet), d.cert.sig.hash) :
               k[1] = "Leaf" /\ v[1] = "Leaf" =>
                 /\ k[2] \in DOMAIN Assigned
                 /\ \A r \in DecodeRanges(v[2]) :
                      r[1] <= o.canister /\ o.canister <= r[2] => o.canister \in Assigned[k[2]]
    BY <1>3, NetworkAssumption
  <2>3. d.cert.sig.key = RootKey /\ d.cert.sig.hash = Reconstruct(tree) /\ tree \in Parts
    BY <1>1, <2>1, <2>2, ShowsPart
  <2>4. KeyOf(d) # None /\ ranges # None
    BY <2>1 DEF Authorises, CanisterInRange
  <2>5. PICK r \in DecodeRanges(ranges) : r[1] <= o.canister /\ o.canister <= r[2]
    BY <2>1 DEF Authorises, CanisterInRange
  <2>6. Leaf(KeyOf(d)) \in SubtreesAt(KeyPath(d.subnet), d.cert.sig.hash)
    BY <2>2, <2>3, <2>4, LookupFound DEF KeyOf, lookupResultToBuffer
  <2>7. Leaf(ranges) \in SubtreesAt(RangesPath(d.subnet), d.cert.sig.hash)
    BY <2>2, <2>3, <2>4, LookupFound DEF lookupResultToBuffer
  <2>8. /\ Leaf(KeyOf(d))[1] = "Leaf" /\ Leaf(KeyOf(d))[2] = KeyOf(d)
        /\ Leaf(ranges)[1] = "Leaf" /\ Leaf(ranges)[2] = ranges
    BY DEF Leaf
  <2> HIDE DEF d, tree, ranges
  <2>9. KeyOf(d) \in DOMAIN Assigned /\ o.canister \in Assigned[KeyOf(d)]
    BY <2>2, <2>3, <2>5, <2>6, <2>7, <2>8
  <2> QED
    BY <1>1, <2>1, <2>9, ShowsPart
<1> QED
  BY <1>2, <1>3

\* A certificate is accepted only with the signature of a key that speaks for the
\* canister it is read for, whatever parts of the states the certificates show and
\* however labels are ordered and compared.
THEOREM AcceptsForCanister == Spec => []AcceptedForCanister
<1>1. ASSUME AcceptedInv, pc = "accepted" PROVE options \in Options /\ InOrder(options)
  BY <1>1 DEF AcceptedInv, ClockInv
<1>2. AcceptedInv => AcceptedForCanister
  BY <1>1, KeySpeaks DEF AcceptedForCanister
<1> QED
  BY <1>2, AcceptedInit, AcceptedStep, PTL DEF Spec

\* What lookup_path and lookup_subtree find in an accepted certificate is in the tree
\* that was signed, for every tree, every part of it that is shown and all labels;
\* and their other answers are right for each path whose labels isBufferGreaterThan
\* compares, with those shown where the path leads, as a replica orders them.
THEOREM LookupsTell == Spec => []LookupsTellWhereCompared
<1>1. ASSUME AcceptedInv, pc = "accepted", NEW p \in Paths
      PROVE  /\ FoundThere(p, options.cert.tree, options.cert.sig.hash)
             /\ ComparedAlong(p, options.cert.tree) =>
                  TellsTheWhole(p, options.cert.tree, options.cert.sig.hash)
  <2>1. options \in Options /\ InOrder(options)
    BY <1>1 DEF AcceptedInv, ClockInv
  <2>2. /\ options.cert.tree \in Parts
        /\ options.cert.sig.hash = Reconstruct(options.cert.tree)
    BY <2>1, KeySpeaks
  <2> QED
    BY <2>2, LookupFound, SubtreeFound, PartTellsTheWhole DEF FoundThere
<1>2. AcceptedInv => LookupsTellWhereCompared
  BY <1>1 DEF LookupsTellWhereCompared
<1> QED
  BY <1>2, AcceptedInit, AcceptedStep, PTL DEF Spec
=============================================================================
