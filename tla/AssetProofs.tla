---------------------------- MODULE AssetProofs ----------------------------
(***************************************************************************)
(* Theorems about Limit, for every set of jobs and every limit, and about  *)
(* the batch and the readers of an AssetManager that uses it.              *)
(***************************************************************************)
EXTENDS AssetManager, FiniteSetTheorems, TLAPS

-----------------------------------------------------------------------------
(* The executor *)

\* TypeOK with what it rests on: finitely many jobs hold a slot, each in one
\* phase, and those that do not are waiting or over.
TypeInv ==
  /\ TypeOK
  /\ IsFiniteSet(running) /\ IsFiniteSet(releasing)
  /\ running \intersect releasing = {}
  /\ \A i \in DOMAIN queue : queue[i] \notin running \union releasing \union settled
  /\ \A i, k \in DOMAIN queue : queue[i] = queue[k] => i = k

Inv == TypeInv /\ Saturated /\ StartsInOrder

\* Taking the first job of a queue keeps it without repetitions.
LEMMA TailFacts ==
  ASSUME NEW q \in Seq(Jobs), q # <<>>
  PROVE  /\ Head(q) \in Jobs /\ Tail(q) \in Seq(Jobs) /\ 1 \in DOMAIN q
         /\ Head(q) = q[1]
         /\ \A i \in DOMAIN Tail(q) : i + 1 \in DOMAIN q /\ Tail(q)[i] = q[i + 1]
OBVIOUS

\* A job moved from the front of the queue to the started ones keeps the order.
LEMMA MoveHead ==
  ASSUME NEW s \in Seq(Jobs), NEW q \in Seq(Jobs), q # <<>>
  PROVE  Append(s, Head(q)) \o Tail(q) = s \o q
<1> DEFINE l == Append(s, Head(q)) \o Tail(q)
           r == s \o q
<1>1. l \in Seq(Jobs) /\ r \in Seq(Jobs)
  BY TailFacts
<1>2. Len(l) = Len(r)
  BY TailFacts
<1>3. ASSUME NEW i \in 1..Len(r) PROVE l[i] = r[i]
  <2>1. CASE i <= Len(s)
    BY <2>1, TailFacts
  <2>2. CASE i = Len(s) + 1
    BY <2>2, TailFacts
  <2>3. CASE i > Len(s) + 1
    BY <2>3, TailFacts
  <2> QED
    BY <2>1, <2>2, <2>3
<1> QED
  BY <1>1, <1>2, <1>3

\* The jobs that hold a slot, waiting apart: what next() finds and leaves.
Tidy(q, a, run, rel, done) ==
  /\ q \in Seq(Jobs) /\ run \subseteq Jobs /\ rel \subseteq Jobs /\ done \subseteq Jobs
  /\ IsFiniteSet(run) /\ IsFiniteSet(rel) /\ run \intersect rel = {}
  /\ a = Cardinality(run) + Cardinality(rel)
  /\ \A i \in DOMAIN q : q[i] \notin run \union rel \union done
  /\ \A i, k \in DOMAIN q : q[i] = q[k] => i = k

LEMMA NextJobTidy ==
  ASSUME NEW q, NEW a \in Nat, NextJob(q, a),
         Tidy(q, a, running, releasing', settled')
  PROVE  Tidy(queue', active', running', releasing', settled')
<1>1. CASE a < Concurrency /\ q # <<>>
  <2>1. /\ active' = a + 1 /\ queue' = Tail(q) /\ running' = running \union {Head(q)}
    BY <1>1 DEF NextJob
  <2>2. Head(q) \notin running \union releasing' /\ Head(q) \in Jobs
    BY <1>1, TailFacts DEF Tidy
  <2>3. /\ IsFiniteSet(running') /\ Cardinality(running') = Cardinality(running) + 1
    BY <2>1, <2>2, FS_AddElement DEF Tidy
  <2>4. active' = Cardinality(running') + Cardinality(releasing')
    BY <2>1, <2>3, FS_CardinalityType DEF Tidy
  <2>5. /\ queue' \in Seq(Jobs)
        /\ \A i \in DOMAIN queue' : i + 1 \in DOMAIN q /\ queue'[i] = q[i + 1]
        /\ Head(q) = q[1] /\ 1 \in DOMAIN q
        /\ DOMAIN queue' \subseteq Nat \ {0}
    BY <1>1, <2>1, TailFacts DEF Tidy
  <2>6. /\ \A i \in DOMAIN queue' : queue'[i] # Head(q)
        /\ \A i, k \in DOMAIN queue' : queue'[i] = queue'[k] => i = k
    <3>1. ASSUME NEW i \in DOMAIN queue' PROVE queue'[i] # Head(q)
      <4>1. i + 1 # 1 /\ i + 1 \in DOMAIN q
        BY <2>5
      <4> QED
        BY <4>1, <2>5 DEF Tidy
    <3>2. ASSUME NEW i \in DOMAIN queue', NEW k \in DOMAIN queue', queue'[i] = queue'[k]
          PROVE  i = k
      <4>1. i + 1 = k + 1
        BY <2>5, <3>2 DEF Tidy
      <4> QED
        BY <4>1, <2>5
    <3> QED
      BY <3>1, <3>2
  <2> QED
    BY <2>1, <2>2, <2>3, <2>4, <2>5, <2>6 DEF Tidy
<1>2. CASE ~(a < Concurrency /\ q # <<>>)
  BY <1>2 DEF NextJob, Tidy
<1> QED
  BY <1>1, <1>2

LEMMA NextJobOrder ==
  ASSUME NEW q \in Seq(Jobs), NEW a, NextJob(q, a), started \in Seq(Jobs)
  PROVE  started' \in Seq(Jobs) /\ started' \o queue' = started \o q
<1>1. CASE a < Concurrency /\ q # <<>>
  <2>1. started' = Append(started, Head(q)) /\ queue' = Tail(q)
    BY <1>1 DEF NextJob
  <2>2. started' \in Seq(Jobs)
    BY <1>1, <2>1, TailFacts
  <2> QED
    BY <1>1, <2>1, <2>2, MoveHead
<1>2. CASE ~(a < Concurrency /\ q # <<>>)
  BY <1>2 DEF NextJob
<1> QED
  BY <1>1, <1>2

LEMMA InvInit == Init => Inv
<1> SUFFICES ASSUME Init PROVE Inv
  OBVIOUS
<1>1. IsFiniteSet({}) /\ Cardinality({}) = 0
  BY FS_EmptySet
<1> QED
  BY <1>1, LimitAssumption DEF Init, Inv, TypeInv, TypeOK, Saturated, StartsInOrder

LEMMA SubmitInv ==
  ASSUME Inv, NEW j \in Jobs, Submit(j) PROVE Inv'
<1> DEFINE q == Append(queue, j)
<1>1. /\ q \in Seq(Jobs) /\ q # <<>> /\ active \in Nat
      /\ \A i \in DOMAIN q : q[i] = IF i = Len(queue) + 1 THEN j ELSE queue[i]
      /\ \A i \in DOMAIN q : i # Len(queue) + 1 => i \in DOMAIN queue
  <2>1. queue \in Seq(Jobs)
    BY DEF Inv, TypeInv, TypeOK
  <2>2. active \in Nat
    BY FS_CardinalityType DEF Inv, TypeInv, TypeOK
  <2> QED
    BY <2>1, <2>2
<1>2. /\ releasing' = releasing /\ settled' = settled /\ NextJob(q, active)
      /\ submitted' = Append(submitted, j)
  BY DEF Submit
<1>3. /\ j \notin running \union releasing \union settled
      /\ \A i \in DOMAIN queue : queue[i] # j
  BY DEF Submit, Known
<1>4. Tidy(q, active, running, releasing', settled')
  <2>1. \A i \in DOMAIN q : q[i] \notin running \union releasing \union settled
    BY <1>1, <1>3 DEF Inv, TypeInv
  <2>2. \A i, k \in DOMAIN q : q[i] = q[k] => i = k
    BY <1>1, <1>3 DEF Inv, TypeInv
  <2> HIDE DEF q
  <2> QED
    BY <1>1, <1>2, <2>1, <2>2 DEF Inv, TypeInv, TypeOK, Tidy
<1>5. Tidy(queue', active', running', releasing', settled')
  BY <1>1, <1>2, <1>4, NextJobTidy
<1>6. started' \in Seq(Jobs) /\ started' \o queue' = started \o q
  BY <1>1, <1>2, NextJobOrder DEF Inv, TypeInv, TypeOK
<1>7. submitted' \in Seq(Jobs) /\ started \o q = submitted'
  BY <1>2 DEF Inv, TypeInv, TypeOK, StartsInOrder
<1>8. Saturated'
  <2>1. CASE queue = <<>>
    <3>1. Tail(q) = <<>>
      BY <2>1
    <3> QED
      BY <1>1, <1>2, <3>1, LimitAssumption DEF NextJob, Inv, Saturated
  <2>2. CASE queue # <<>>
    BY <1>1, <1>2, <2>2, LimitAssumption DEF NextJob, Inv, Saturated
  <2> QED
    BY <2>1, <2>2
<1> QED
  BY <1>5, <1>6, <1>7, <1>8 DEF Inv, TypeInv, TypeOK, StartsInOrder, Tidy

LEMMA JobSettlesInv ==
  ASSUME Inv, NEW j \in Jobs, JobSettles(j) PROVE Inv'
<1>1. /\ running' = running \ {j} /\ releasing' = releasing \union {j}
      /\ j \in running /\ j \notin releasing
      /\ UNCHANGED <<queue, active, settled, submitted, started>>
  BY DEF JobSettles, Inv, TypeInv
<1>2. IsFiniteSet(running') /\ Cardinality(running') = Cardinality(running) - 1
  BY <1>1, FS_RemoveElement DEF Inv, TypeInv
<1>3. IsFiniteSet(releasing') /\ Cardinality(releasing') = Cardinality(releasing) + 1
  BY <1>1, FS_AddElement DEF Inv, TypeInv
<1>4. active' = Cardinality(running') + Cardinality(releasing')
  BY <1>1, <1>2, <1>3, FS_CardinalityType DEF Inv, TypeInv, TypeOK
<1> QED
  BY <1>1, <1>2, <1>3, <1>4 DEF Inv, TypeInv, TypeOK, Saturated, StartsInOrder

LEMMA ReleaseInv ==
  ASSUME Inv, NEW j \in Jobs, Release(j) PROVE Inv'
<1>1. /\ releasing' = releasing \ {j} /\ settled' = settled \union {j} /\ j \in releasing
      /\ NextJob(queue, active - 1) /\ submitted' = submitted
  BY DEF Release
<1>2. IsFiniteSet(releasing') /\ Cardinality(releasing') = Cardinality(releasing) - 1
  BY <1>1, FS_RemoveElement DEF Inv, TypeInv
<1>3. /\ active - 1 = Cardinality(running) + Cardinality(releasing')
      /\ active - 1 \in Nat
  <2>1. /\ Cardinality(running) \in Nat /\ Cardinality(releasing) \in Nat
        /\ Cardinality(releasing') \in Nat
    BY <1>2, FS_CardinalityType DEF Inv, TypeInv
  <2> QED
    BY <1>2, <2>1 DEF Inv, TypeInv, TypeOK
<1>4. Tidy(queue, active - 1, running, releasing', settled')
  BY <1>1, <1>2, <1>3 DEF Inv, TypeInv, TypeOK, Tidy
<1>5. Tidy(queue', active', running', releasing', settled')
  BY <1>1, <1>3, <1>4, NextJobTidy
<1>6. started' \in Seq(Jobs) /\ started' \o queue' = started \o queue
  BY <1>1, NextJobOrder DEF Inv, TypeInv, TypeOK
<1>7. Saturated'
  BY <1>1, <1>3, LimitAssumption DEF NextJob, Inv, Saturated, TypeInv, TypeOK
<1> QED
  BY <1>1, <1>5, <1>6, <1>7 DEF Inv, TypeInv, TypeOK, StartsInOrder, Tidy

LEMMA InvStep == Inv /\ [Next]_vars => Inv'
<1>1. ASSUME Inv, UNCHANGED vars PROVE Inv'
  BY <1>1 DEF vars, Inv, TypeInv, TypeOK, Saturated, StartsInOrder
<1> QED
  BY <1>1, SubmitInv, JobSettlesInv, ReleaseInv DEF Next

\* The counter always is the number of jobs that hold a slot.
THEOREM TypeCorrect == Spec => []TypeOK
<1>1. Inv => TypeOK
  BY DEF Inv, TypeInv
<1> QED
  BY <1>1, InvInit, InvStep, PTL DEF Spec

\* At most Concurrency jobs run, and no job waits while a slot is free.
THEOREM AlwaysSaturated == Spec => []Saturated
<1>1. Inv => Saturated
  BY DEF Inv
<1> QED
  BY <1>1, InvInit, InvStep, PTL DEF Spec

\* Jobs start in the order of their submission.
THEOREM FirstInFirstOut == Spec => []StartsInOrder
<1>1. Inv => StartsInOrder
  BY DEF Inv
<1> QED
  BY <1>1, InvInit, InvStep, PTL DEF Spec

-----------------------------------------------------------------------------
(* The manager uses the executor as Limit describes *)

\* The jobs known after a step of the executor.
LEMMA SubmitKnown ==
  ASSUME queue \in Seq(Jobs), NEW j \in Jobs, Submit(j)
  PROVE  Known' \subseteq Known \union {j}
<1> DEFINE q == Append(queue, j)
<1>1. /\ q \in Seq(Jobs) /\ q # <<>>
      /\ \A i \in DOMAIN q : q[i] \in {queue[k] : k \in DOMAIN queue} \union {j}
  OBVIOUS
<1>2. NextJob(q, active) /\ releasing' = releasing /\ settled' = settled
  BY DEF Submit
<1> HIDE DEF q
<1>3. CASE active < Concurrency
  <2>1. queue' = Tail(q) /\ running' = running \union {Head(q)}
    BY <1>1, <1>2, <1>3 DEF NextJob
  <2> QED
    BY <1>1, <1>2, <2>1, TailFacts DEF Known
<1>4. CASE ~(active < Concurrency)
  BY <1>1, <1>2, <1>4 DEF NextJob, Known
<1> QED
  BY <1>3, <1>4

LEMMA ReleaseKnown ==
  ASSUME queue \in Seq(Jobs), NEW j, Release(j)
  PROVE  Known' \subseteq Known
<1>1. /\ NextJob(queue, active - 1) /\ j \in releasing
      /\ releasing' = releasing \ {j} /\ settled' = settled \union {j}
  BY DEF Release
<1>2. CASE active - 1 < Concurrency /\ queue # <<>>
  <2>1. queue' = Tail(queue) /\ running' = running \union {Head(queue)}
    BY <1>1, <1>2 DEF NextJob
  <2> QED
    BY <1>1, <1>2, <2>1, TailFacts DEF Known
<1>3. CASE ~(active - 1 < Concurrency /\ queue # <<>>)
  BY <1>1, <1>3 DEF NextJob, Known
<1> QED
  BY <1>2, <1>3

LEMMA SettlesKnown ==
  ASSUME NEW j, JobSettles(j) PROVE Known' \subseteq Known /\ j \in Known
BY DEF JobSettles, Known

Slice(c, f, i) == [commit |-> c, file |-> f, index |-> i]

\* What the actions of the manager assume of their own state.
BatchTypes ==
  /\ last \in Nat /\ last <= MaxCommits
  /\ pc # "idle" => last \in Commits
  /\ op \in [Commits -> [Files -> OpStates]]
  /\ reading \subseteq Slices

ManagerTypes == BatchTypes /\ asked \in [Readers -> Nat]

ManagerInv == Inv /\ ManagerTypes

LEMMA JobNames ==
  /\ \A c \in Commits : CreateBatch(c) \in Jobs /\ CommitBatch(c) \in Jobs
  /\ \A s \in Slices : CreateChunk(s) \in Jobs
  /\ StoreFile \in Jobs
  /\ \A r \in Readers, i \in 1 .. More : GetChunk(r, i) \in Jobs
BY ManagerAssumption DEF ManagerJobs, BatchJobs

LEMMA ManagerInvInit == ManagerInit => ManagerInv
<1> HAVE ManagerInit
<1>1. Inv
  BY InvInit DEF ManagerInit, BatchInit
<1> QED
  BY <1>1, BatchAssumption DEF ManagerInit, BatchInit, ManagerInv, ManagerTypes, BatchTypes, OpStates

\* A step of the batch is one of the executor, or leaves it alone.
LEMMA BatchUses == BatchTypes /\ BatchNext => [Next]_vars
<1> SUFFICES ASSUME BatchTypes, BatchNext PROVE [Next]_vars
  OBVIOUS
<1> USE JobNames
<1>1. CASE Commit
  <2>1. last' \in Commits
    BY <1>1, BatchAssumption DEF Commit, BatchTypes, Commits
  <2> QED
    BY <1>1, <2>1 DEF Commit, Next
<1>2. CASE Created \/ Committed
  <2>1. last \in Commits
    BY <1>2 DEF Created, Committed, BatchTypes
  <2> QED
    BY <1>2, <2>1 DEF Created, Committed, Next
<1>3. CASE SlotFree
  BY <1>3 DEF SlotFree, Next
<1>4. ASSUME NEW s \in reading, Hash(s) \/ ReadFails(s) PROVE [Next]_vars
  <2>1. s \in Slices
    BY DEF BatchTypes
  <2> QED
    BY <1>4, <2>1 DEF Hash, ReadFails, Next, limitVars, vars
<1>5. ASSUME NEW s \in Slices, Uploaded(s) \/ UploadFails(s) PROVE [Next]_vars
  BY <1>5 DEF Uploaded, UploadFails, Next
<1>6. ASSUME NEW c \in Commits, NEW f \in Files,
             Opened(c, f) \/ OpenFails(c, f) \/ Closed(c, f) \/ CloseFails(c, f)
      PROVE  [Next]_vars
  BY <1>6 DEF Opened, OpenFails, Closed, CloseFails, Next, limitVars, vars
<1> QED
  BY <1>1, <1>2, <1>3, <1>4, <1>5, <1>6 DEF BatchNext, Step

LEMMA ManagerUses == ManagerTypes /\ [ManagerNext]_everything => [Next]_vars
<1> SUFFICES ASSUME ManagerTypes, ManagerNext PROVE [Next]_vars
  BY DEF everything, allVars, limitVars, vars
<1> USE JobNames
<1>1. ASSUME NEW r \in Readers, Ask(r) PROVE [Next]_vars
  <2>1. asked'[r] \in 1 .. More
    BY <1>1, ManagerAssumption DEF Ask, ManagerTypes
  <2> QED
    BY <1>1, <2>1 DEF Ask, Next, limitVars, vars
<1>2. CASE BatchCommit \/ BatchStep
  BY <1>2, BatchUses DEF BatchCommit, BatchStep, BatchNext, ManagerTypes
<1>3. CASE Store \/ Stored
  BY <1>3 DEF Store, Stored, Next
<1>4. CASE Replace
  BY <1>4 DEF Replace, allVars, limitVars, vars
<1>5. ASSUME NEW r \in Readers, ChunkAnswered(r) PROVE [Next]_vars
  BY <1>5 DEF ChunkAnswered, OwnSettles, Next, limitVars, vars
<1>6. ASSUME NEW r \in Readers, Asked(r) \/ Get(r) \/ Got(r) \/ ReadDone(r)
      PROVE  UNCHANGED vars
  BY <1>6 DEF Asked, Get, Got, ReadDone, allVars, limitVars, vars
<1> QED
  BY <1>1, <1>2, <1>3, <1>4, <1>5, <1>6 DEF ManagerNext

\* A step of the manager is one of the batch, or leaves its state alone; then it is
\* a job of others that is submitted or settled.
Foreign(j) == (\A c : j # CommitBatch(c)) /\ (\A s : j # CreateChunk(s))

LEMMA ForeignJobs ==
  Foreign(StoreFile) /\ \A r, i : Foreign(GetChunk(r, i))
BY DEF Foreign, StoreFile, GetChunk, CommitBatch, CreateChunk

LEMMA ManagerMoves ==
  ASSUME ManagerTypes, [ManagerNext]_everything
  PROVE  \/ BatchNext
         \/ /\ UNCHANGED batchVars
            /\ \/ UNCHANGED limitVars
               \/ \E j \in Jobs : Foreign(j) /\ (Submit(j) \/ JobSettles(j))
<1> USE JobNames, ForeignJobs
<1>1. CASE UNCHANGED everything
  BY <1>1 DEF everything, allVars
<1>2. ASSUME NEW r \in Readers, Ask(r)
      PROVE  /\ UNCHANGED batchVars
             /\ \/ UNCHANGED limitVars
                \/ \E j \in Jobs : Foreign(j) /\ (Submit(j) \/ JobSettles(j))
  <2>1. asked'[r] \in 1 .. More
    BY <1>2, ManagerAssumption DEF Ask, ManagerTypes
  <2> QED
    BY <1>2, <2>1 DEF Ask
<1>3. CASE BatchCommit \/ BatchStep
  BY <1>3 DEF BatchCommit, BatchStep, BatchNext
<1>4. CASE Store \/ Stored
  BY <1>4 DEF Store, Stored
<1>5. ASSUME NEW r \in Readers, ChunkAnswered(r)
      PROVE  /\ UNCHANGED batchVars
             /\ \/ UNCHANGED limitVars
                \/ \E j \in Jobs : Foreign(j) /\ (Submit(j) \/ JobSettles(j))
  BY <1>5 DEF ChunkAnswered, OwnSettles, ChunkReceived, ChunkFails
<1>6. ASSUME NEW r \in Readers, Asked(r) \/ Get(r) \/ Got(r) \/ ReadDone(r) \/ Replace
      PROVE  UNCHANGED allVars
  BY <1>6 DEF Asked, Get, Got, ReadDone, Replace
<1>7. CASE Replace
  BY <1>7 DEF Replace, allVars
<1> QED
  BY <1>1, <1>2, <1>3, <1>4, <1>5, <1>6, <1>7 DEF ManagerNext, allVars

LEMMA RejectsTypes ==
  ASSUME BatchTypes, NEW c \in Commits, NEW f \in Files, Rejects(c, f),
         last' = last, reading' \subseteq reading
  PROVE  BatchTypes'
<1>1. op' \in [Commits -> [Files -> OpStates]]
  BY DEF Rejects, BatchTypes, OpStates
<1>2. pc' # "idle" => pc # "idle"
  BY DEF Rejects
<1> QED
  BY <1>1, <1>2 DEF BatchTypes

LEMMA BatchTypesStep == BatchTypes /\ BatchNext => BatchTypes'
<1> SUFFICES ASSUME BatchTypes, BatchNext PROVE BatchTypes'
  OBVIOUS
<1>1. CASE Commit
  BY <1>1, BatchAssumption DEF Commit, BatchTypes, Commits
<1>2. CASE Created \/ Committed
  BY <1>2 DEF Created, Committed, BatchTypes, OpStates
<1>3. CASE SlotFree
  BY <1>3 DEF SlotFree, batchVars, BatchTypes
<1>4. ASSUME NEW s \in reading, Hash(s) \/ ReadFails(s) PROVE BatchTypes'
  <2>1. s.commit \in Commits /\ s.file \in Files
    BY DEF BatchTypes, Slices
  <2>2. CASE Hash(s)
    BY <2>2 DEF Hash, ReadEnds, BatchTypes
  <2>3. CASE ReadFails(s)
    BY <2>1, <2>3, RejectsTypes DEF ReadFails, ReadEnds
  <2> QED
    BY <1>4, <2>2, <2>3
<1>5. ASSUME NEW s \in Slices, Uploaded(s) \/ UploadFails(s) PROVE BatchTypes'
  <2>1. s.commit \in Commits /\ s.file \in Files
    BY DEF Slices
  <2>2. CASE Uploaded(s)
    BY <2>1, <2>2 DEF Uploaded, BatchTypes, OpStates
  <2>3. CASE UploadFails(s)
    BY <2>1, <2>3, RejectsTypes DEF UploadFails
  <2> QED
    BY <1>5, <2>2, <2>3
<1>6. ASSUME NEW c \in Commits, NEW f \in Files,
             Opened(c, f) \/ OpenFails(c, f) \/ Closed(c, f) \/ CloseFails(c, f)
      PROVE  BatchTypes'
  <2>1. CASE Opened(c, f)
    BY <2>1 DEF Opened, BatchTypes, OpStates, Slices
  <2>2. CASE Closed(c, f)
    BY <2>2 DEF Closed, BatchTypes, OpStates
  <2>3. CASE OpenFails(c, f) \/ CloseFails(c, f)
    BY <2>3, RejectsTypes DEF OpenFails, CloseFails
  <2> QED
    BY <1>6, <2>1, <2>2, <2>3
<1> QED
  BY <1>1, <1>2, <1>3, <1>4, <1>5, <1>6 DEF BatchNext, Step

LEMMA AskedStep ==
  asked \in [Readers -> Nat] /\ [ManagerNext]_everything => asked' \in [Readers -> Nat]
BY DEF everything, managerVars, readVars, ManagerNext, Replace, Store, Stored, BatchCommit,
       BatchStep, Ask, Asked, Get, Got, ChunkAnswered, ChunkReceived, ChunkFails, ReadDone

LEMMA ManagerInvStep == ManagerInv /\ [ManagerNext]_everything => ManagerInv'
<1> SUFFICES ASSUME ManagerInv, [ManagerNext]_everything PROVE ManagerInv'
  OBVIOUS
<1>1. Inv'
  BY InvStep, ManagerUses DEF ManagerInv
<1>2. UNCHANGED batchVars => BatchTypes'
  BY DEF ManagerInv, ManagerTypes, BatchTypes, batchVars
<1>3. BatchTypes'
  BY <1>2, ManagerMoves, BatchTypesStep DEF ManagerInv, ManagerTypes
<1> QED
  BY <1>1, <1>3, AskedStep DEF ManagerInv, ManagerTypes

\* Whatever a manager does at the same time, its requests keep the limit, leave no
\* slot free while one waits, and start in their order.
THEOREM ManagerSaturated == ManagerSpec => []Saturated
<1>1. ManagerInv => Saturated
  BY DEF ManagerInv, Inv
<1> QED
  BY <1>1, ManagerInvInit, ManagerInvStep, PTL DEF ManagerSpec

THEOREM ManagerStartsInOrder == ManagerSpec => []StartsInOrder
<1>1. ManagerInv => StartsInOrder
  BY DEF ManagerInv, Inv
<1> QED
  BY <1>1, ManagerInvInit, ManagerInvStep, PTL DEF ManagerSpec

\* Seen through the executor, a manager is one more run of Limit: every step is a
\* submission, a settled job, a slot given back, or nothing.
THEOREM ManagerRefinesLimit == ManagerSpec => Spec
<1>1. ManagerInit => Init
  BY DEF ManagerInit, BatchInit
<1>2. ManagerInv /\ [ManagerNext]_everything => [Next]_vars
  BY ManagerUses DEF ManagerInv
<1> QED
  BY <1>1, <1>2, ManagerInvInit, ManagerInvStep, PTL DEF ManagerSpec, Spec

-----------------------------------------------------------------------------
(* What is committed is whole *)

Whole(c, f) == \A i \in Indices : Slice(c, f, i) \in stored

\* An operation that closes its file has stored all its chunks in the batch of its
\* own call, and commit_batch is only known for calls whose files are whole.
WholeInv ==
  /\ ManagerInv
  /\ \A c \in Commits, f \in Files :
       /\ op[c][f] \in {"closing", "done"} => Whole(c, f)
       /\ CommitBatch(c) \in Known => Whole(c, f)

\* The canister forgets no chunk; no operation closes, no commit_batch is sent.
LEMMA WholeKept ==
  ASSUME WholeInv, ManagerInv', stored \subseteq stored',
         \A c \in Commits, f \in Files :
           op'[c][f] \in {"closing", "done"} => op[c][f] \in {"closing", "done"},
         \A c \in Commits : CommitBatch(c) \in Known' => CommitBatch(c) \in Known
  PROVE  WholeInv'
BY DEF WholeInv, Whole

LEMMA Names ==
  /\ \A c, d : CreateBatch(c) # CommitBatch(d)
  /\ \A s, d : CreateChunk(s) # CommitBatch(d)
  /\ \A c, d : CommitBatch(c) = CommitBatch(d) => c = d
BY DEF CreateBatch, CommitBatch, CreateChunk

LEMMA RejectsKeeps ==
  ASSUME BatchTypes, NEW c \in Commits, NEW f \in Files, Rejects(c, f)
  PROVE  \A d \in Commits, g \in Files :
           op'[d][g] \in {"closing", "done"} => op[d][g] \in {"closing", "done"}
BY DEF Rejects, BatchTypes

LEMMA WholeStep == WholeInv /\ [ManagerNext]_everything => WholeInv'
<1> SUFFICES ASSUME WholeInv, [ManagerNext]_everything PROVE WholeInv'
  OBVIOUS
<1>1. ManagerInv' /\ ManagerTypes /\ BatchTypes /\ queue \in Seq(Jobs)
  BY ManagerInvStep DEF WholeInv, ManagerInv, ManagerTypes, Inv, TypeInv, TypeOK
<1> USE JobNames, Names
<1>2. CASE UNCHANGED batchVars /\ (UNCHANGED limitVars \/
             \E j \in Jobs : Foreign(j) /\ (Submit(j) \/ JobSettles(j)))
  <2>1. \A c \in Commits : CommitBatch(c) \in Known' => CommitBatch(c) \in Known
    <3>1. CASE UNCHANGED limitVars
      BY <3>1 DEF limitVars, Known
    <3>2. CASE \E j \in Jobs : Foreign(j) /\ (Submit(j) \/ JobSettles(j))
      <4>1. PICK j \in Jobs : Foreign(j) /\ (Submit(j) \/ JobSettles(j))
        BY <3>2
      <4>2. Known' \subseteq Known \union {j}
        BY <1>1, <4>1, SubmitKnown, SettlesKnown
      <4>3. \A c \in Commits : CommitBatch(c) # j
        BY <4>1 DEF Foreign
      <4> QED
        BY <4>1, <4>2, <4>3
    <3> QED
      BY <1>2, <3>1, <3>2
  <2> QED
    BY <1>1, <1>2, <2>1, WholeKept DEF batchVars
<1>3. CASE Commit
  <2>1. last' \in Commits /\ op' = op /\ stored' = stored /\ Submit(CreateBatch(last'))
    BY <1>1, <1>3, BatchAssumption DEF Commit, BatchTypes, Commits
  <2>2. Known' \subseteq Known \union {CreateBatch(last')}
    BY <1>1, <2>1, SubmitKnown
  <2> QED
    BY <1>1, <2>1, <2>2, WholeKept
<1>4. CASE Created
  <2>1. last \in Commits /\ stored' = stored /\ JobSettles(CreateBatch(last))
    BY <1>1, <1>4 DEF Created, BatchTypes
  <2>2. \A c \in Commits, f \in Files :
           op'[c][f] \in {"closing", "done"} => op[c][f] \in {"closing", "done"}
    BY <1>1, <1>4, <2>1 DEF Created, BatchTypes
  <2> QED
    BY <1>1, <2>1, <2>2, SettlesKnown, WholeKept
<1>5. CASE Committed
  BY <1>1, <1>5, SettlesKnown, WholeKept DEF Committed
<1>6. CASE SlotFree
  BY <1>1, <1>6, WholeKept, ReleaseKnown DEF SlotFree, batchVars
<1>7. ASSUME NEW s \in reading, Hash(s) \/ ReadFails(s) PROVE WholeInv'
  <2>1. s \in Slices /\ s.commit \in Commits /\ s.file \in Files
    BY <1>1 DEF BatchTypes, Slices
  <2>2. CASE Hash(s)
    <3>1. Known' \subseteq Known \union {CreateChunk(s)}
      BY <1>1, <2>1, <2>2, SubmitKnown DEF Hash
    <3> QED
      BY <1>1, <2>2, <3>1, WholeKept DEF Hash
  <2>3. CASE ReadFails(s)
    <3>1. Known' = Known /\ stored' = stored
      BY <2>3 DEF ReadFails, limitVars, Known
    <3> QED
      BY <1>1, <2>1, <2>3, <3>1, RejectsKeeps, WholeKept DEF ReadFails
  <2> QED
    BY <1>7, <2>2, <2>3
<1>8. ASSUME NEW s \in Slices, Uploaded(s) \/ UploadFails(s) PROVE WholeInv'
  <2>1. s.commit \in Commits /\ s.file \in Files /\ Known' \subseteq Known
    BY <1>8, SettlesKnown DEF Slices, Uploaded, UploadFails
  <2>2. CASE Uploaded(s)
    <3>1. stored' = stored \union {s}
      BY <2>2 DEF Uploaded
    <3>2. ASSUME NEW c \in Commits, NEW f \in Files, op'[c][f] \in {"closing", "done"}
          PROVE  Whole(c, f)'
      <4>1. CASE op[c][f] \in {"closing", "done"}
        BY <3>1, <4>1 DEF WholeInv, Whole
      <4>2. CASE op[c][f] \notin {"closing", "done"}
        <5>1. /\ c = s.commit /\ f = s.file
              /\ \A i \in Indices : [s EXCEPT !.index = i] \in stored \union {s}
          BY <1>1, <2>2, <3>2, <4>2 DEF Uploaded, BatchTypes
        <5>2. \A i \in Indices : [s EXCEPT !.index = i] = Slice(c, f, i)
          BY <5>1 DEF Slices, Slice
        <5> QED
          BY <3>1, <5>1, <5>2 DEF Whole
      <4> QED
        BY <4>1, <4>2
    <3>3. ASSUME NEW c \in Commits, NEW f \in Files, CommitBatch(c) \in Known'
          PROVE  Whole(c, f)'
      BY <2>1, <3>1, <3>3 DEF WholeInv, Whole
    <3> QED
      BY <1>1, <3>2, <3>3 DEF WholeInv
  <2>3. CASE UploadFails(s)
    BY <1>1, <2>1, <2>3, RejectsKeeps, WholeKept DEF UploadFails
  <2> QED
    BY <1>8, <2>2, <2>3
<1>9. ASSUME NEW c \in Commits, NEW f \in Files, OpenFails(c, f) \/ CloseFails(c, f)
      PROVE  WholeInv'
  <2>1. Known' = Known /\ stored' = stored /\ Rejects(c, f)
    BY <1>9 DEF OpenFails, CloseFails, limitVars, Known
  <2> QED
    BY <1>1, <2>1, RejectsKeeps, WholeKept
<1>10. ASSUME NEW c \in Commits, NEW f \in Files, Opened(c, f) PROVE WholeInv'
  <2>1. Known' = Known /\ stored' = stored
    BY <1>10 DEF Opened, limitVars, Known
  <2>2. \A d \in Commits, g \in Files :
           op'[d][g] \in {"closing", "done"} => op[d][g] \in {"closing", "done"}
    BY <1>1, <1>10 DEF Opened, BatchTypes
  <2> QED
    BY <1>1, <2>1, <2>2, WholeKept
<1>11. ASSUME NEW c \in Commits, NEW f \in Files, Closed(c, f) PROVE WholeInv'
  <2>1. /\ stored' = stored /\ op[c][f] = "closing"
        /\ op' = [op EXCEPT ![c][f] = "done"]
    BY <1>11 DEF Closed
  <2>2. \A d \in Commits, g \in Files :
           op'[d][g] \in {"closing", "done"} => op[d][g] \in {"closing", "done"}
    BY <1>1, <2>1 DEF BatchTypes
  <2>3. ASSUME NEW d \in Commits, NEW g \in Files, CommitBatch(d) \in Known', CommitBatch(d) \notin Known
        PROVE  Whole(d, g)
    <3>1. Submit(CommitBatch(c)) /\ \A h \in Files : op'[c][h] = "done"
      BY <1>11, <2>3 DEF Closed, limitVars, Known
    <3>2. d = c
      BY <1>1, <2>3, <3>1, SubmitKnown
    <3> QED
      BY <2>2, <3>1, <3>2 DEF WholeInv
  <2> QED
    BY <1>1, <2>1, <2>2, <2>3 DEF WholeInv, Whole
<1> QED
  BY <1>1, <1>2, <1>3, <1>4, <1>5, <1>6, <1>7, <1>8, <1>9, <1>10, <1>11, ManagerMoves DEF BatchNext, Step

\* commit_batch is sent only when every chunk of every file is stored in the batch
\* of the same call, for any files and chunks, however many calls of commit() failed
\* before and whatever they have under way.
THEOREM OnlyWholeCommitted == ManagerSpec => []CommitsWhole
<1>1. ManagerInit => WholeInv
  <2> HAVE ManagerInit
  <2>1. Known = {}
    BY DEF ManagerInit, BatchInit, Init, Known
  <2>2. \A c \in Commits, f \in Files : op[c][f] = "none"
    BY DEF ManagerInit, BatchInit
  <2> QED
    BY <2>1, <2>2, ManagerInvInit DEF WholeInv
<1>2. WholeInv => CommitsWhole
  <2> SUFFICES ASSUME WholeInv, NEW c \in Commits, CommitBatch(c) \in Known,
                      NEW s \in [commit : {c}, file : Files, index : Indices]
               PROVE  s \in stored
    BY DEF CommitsWhole
  <2>1. s = Slice(c, s.file, s.index) /\ s.file \in Files /\ s.index \in Indices
    BY DEF Slice
  <2> QED
    BY <2>1 DEF WholeInv, Whole
<1> QED
  BY <1>1, <1>2, WholeStep, PTL DEF ManagerSpec

-----------------------------------------------------------------------------
(* Chunks that are hashed arrive in order *)

\* The chunk whose answer the reader waits for, if it has not all it asked for.
Awaited(r) == asked[r] + 1 - Len(own[r])

\* A reader that hashes has no request in the shared executor.  Its own one holds the
\* chunks it asked for and has no answer to, in order; those it has come before them,
\* and are all of these unless one failed.
HashingOf(r) ==
  /\ \A i : GetChunk(r, i) \notin Known
  /\ Len(own[r]) <= asked[r]
  /\ \A k \in DOMAIN own[r] : own[r][k] = Awaited(r) + k - 1
  /\ \A k \in DOMAIN chunks[r] : chunks[r][k].index < Awaited(r)
  /\ \A k, l \in DOMAIN chunks[r] : k < l => chunks[r][k].index < chunks[r][l].index
  /\ rpc[r] # "failed" => \A k \in DOMAIN chunks[r] : chunks[r][k].index = k - 1
  /\ rpc[r] \in {"idle", "get"} => asked[r] = 0 /\ own[r] = <<>> /\ chunks[r] = <<>>
  /\ rpc[r] \in {"asking", "chunks"} => Len(chunks[r]) = Awaited(r)
  /\ rpc[r] \in {"closing", "done"} => Len(chunks[r]) = More + 1 /\ own[r] = <<>>
  /\ rpc[r] = "chunks" => asked[r] = More

LEMMA ElementOf == ASSUME NEW S, NEW s \in Seq(S) PROVE \A k \in DOMAIN s : s[k] \in S
OBVIOUS

LEMMA EmptySeq == ASSUME NEW s \in Seq(Nat), Len(s) = 0 PROVE s = <<>>
OBVIOUS

ReadTypes ==
  /\ rpc \in [Readers -> RPCs]
  /\ own \in [Readers -> Seq(Nat)]
  /\ chunks \in [Readers -> Seq([index : Nat, version : Nat])]
  /\ asset \in [Readers -> Nat] /\ version \in Nat

HashingInv ==
  /\ ManagerInv /\ ReadTypes
  /\ \A r \in Readers : plan.readers[r] = "hash" => HashingOf(r)

LEMMA HashingInit == ManagerInit => HashingInv
<1> HAVE ManagerInit
<1>1. Known = {}
  BY DEF ManagerInit, BatchInit, Init, Known
<1> QED
  BY <1>1, ManagerInvInit DEF ManagerInit, HashingInv, HashingOf, ReadTypes, RPCs

LEMMA ChunkAppended ==
  ASSUME NEW n \in Nat, NEW v \in Nat, NEW s \in Seq([index : Nat, version : Nat])
  PROVE  LET l == Append(s, [index |-> n, version |-> v])
         IN  /\ l \in Seq([index : Nat, version : Nat]) /\ Len(l) = Len(s) + 1
             /\ \A k \in DOMAIN l : \/ k \in DOMAIN s /\ l[k] = s[k]
                                    \/ k = Len(s) + 1 /\ l[k].index = n
<1>1. [index |-> n, version |-> v] \in [index : Nat, version : Nat]
  BY Zenon
<1>2. [index |-> n, version |-> v].index = n
  BY Zenon
<1> DEFINE x == [index |-> n, version |-> v]
<1> HIDE DEF x
<1>3. x \in [index : Nat, version : Nat] /\ x.index = n
  BY <1>1, <1>2 DEF x
<1>4. /\ Append(s, x) \in Seq([index : Nat, version : Nat]) /\ Len(Append(s, x)) = Len(s) + 1
      /\ \A k \in DOMAIN Append(s, x) : \/ k \in DOMAIN s /\ Append(s, x)[k] = s[k]
                                        \/ k = Len(s) + 1 /\ Append(s, x)[k].index = n
  BY <1>3
<1> QED
  BY <1>4 DEF x

\* The jobs of the batch and the small file are not chunks that somebody reads.
LEMMA NotRead ==
  ASSUME NEW r, NEW i
  PROVE  /\ \A c : GetChunk(r, i) # CreateBatch(c) /\ GetChunk(r, i) # CommitBatch(c)
         /\ \A s : GetChunk(r, i) # CreateChunk(s)
         /\ GetChunk(r, i) # StoreFile
         /\ \A q, k : GetChunk(r, i) = GetChunk(q, k) => q = r
BY DEF GetChunk, CreateBatch, CommitBatch, CreateChunk, StoreFile

LEMMA BatchReadsNothing ==
  ASSUME BatchTypes, TypeInv, BatchNext, NEW r, NEW i, GetChunk(r, i) \notin Known
  PROVE  GetChunk(r, i) \notin Known'
<1> USE JobNames, NotRead
<1> queue \in Seq(Jobs)
  BY DEF TypeInv, TypeOK
<1>1. CASE Commit
  <2>1. last' \in Commits /\ Submit(CreateBatch(last'))
    BY <1>1, BatchAssumption DEF Commit, BatchTypes, Commits
  <2> QED
    BY <2>1, SubmitKnown
<1>2. CASE Created
  BY <1>2, SettlesKnown DEF Created, BatchTypes
<1>3. CASE Committed
  BY <1>3, SettlesKnown DEF Committed, BatchTypes
<1>4. CASE SlotFree
  BY <1>4, ReleaseKnown DEF SlotFree
<1>5. ASSUME NEW s \in reading, Hash(s) \/ ReadFails(s) PROVE GetChunk(r, i) \notin Known'
  <2>1. s \in Slices
    BY DEF BatchTypes
  <2> QED
    BY <1>5, <2>1, SubmitKnown DEF Hash, ReadFails, limitVars, Known
<1>6. ASSUME NEW s \in Slices, Uploaded(s) \/ UploadFails(s) PROVE GetChunk(r, i) \notin Known'
  BY <1>6, SettlesKnown DEF Uploaded, UploadFails
<1>7. ASSUME NEW c \in Commits, NEW f \in Files,
             Opened(c, f) \/ OpenFails(c, f) \/ Closed(c, f) \/ CloseFails(c, f)
      PROVE  GetChunk(r, i) \notin Known'
  BY <1>7, SubmitKnown DEF Opened, OpenFails, Closed, CloseFails, limitVars, Known
<1> QED
  BY <1>1, <1>2, <1>3, <1>4, <1>5, <1>6, <1>7 DEF BatchNext, Step

\* Where a reader stands does not change, and no chunk of it becomes known.
LEMMA HashingKept ==
  ASSUME NEW r \in Readers, HashingOf(r), rpc'[r] = rpc[r], asked'[r] = asked[r],
         own'[r] = own[r], chunks'[r] = chunks[r],
         \A i : GetChunk(r, i) \notin Known => GetChunk(r, i) \notin Known'
  PROVE  HashingOf(r)'
BY DEF HashingOf, Awaited

\* A chunk is asked for after the others.
LEMMA OwnAppended ==
  ASSUME NEW s \in Seq(Nat), NEW n \in Nat, Len(s) <= n,
         \A k \in DOMAIN s : s[k] = n + 1 - Len(s) + k - 1
  PROVE  LET l == Append(s, n + 1)
         IN  /\ Len(l) = Len(s) + 1
             /\ \A k \in DOMAIN l : l[k] = (n + 1) + 1 - Len(l) + k - 1
OBVIOUS

\* The first job of the reader's own executor settles.
LEMMA OwnServed ==
  ASSUME NEW s \in Seq(Nat), s # <<>>, NEW n \in Nat, Len(s) <= n,
         \A k \in DOMAIN s : s[k] = n + 1 - Len(s) + k - 1
  PROVE  /\ Head(s) = n + 1 - Len(s) /\ Tail(s) \in Seq(Nat) /\ Len(Tail(s)) = Len(s) - 1
         /\ \A k \in DOMAIN Tail(s) : Tail(s)[k] = n + 1 - Len(Tail(s)) + k - 1
OBVIOUS

LEMMA ReadTypesStep == ReadTypes /\ ManagerTypes /\ [ManagerNext]_everything => ReadTypes'
<1> SUFFICES ASSUME ReadTypes, ManagerTypes, [ManagerNext]_everything PROVE ReadTypes'
  OBVIOUS
<1>1. CASE UNCHANGED readVars /\ (UNCHANGED version \/ Rewrite)
  BY <1>1, ManagerAssumption DEF ReadTypes, readVars, Rewrite
<1>2. CASE UNCHANGED everything
  BY <1>2 DEF ReadTypes, everything, managerVars, readVars
<1>3. CASE Replace \/ Store \/ Stored \/ BatchCommit \/ BatchStep
  BY <1>1, <1>3 DEF Replace, Store, Stored, BatchCommit, BatchStep, managerVars
<1>4. ASSUME NEW r \in Readers, Ask(r) \/ Asked(r) \/ Get(r) \/ ReadDone(r) PROVE ReadTypes'
  <2>1. CASE Ask(r)
    <3>1. asked'[r] \in Nat
      BY <2>1 DEF Ask, ManagerTypes
    <3>2. Append(own[r], asked'[r]) \in Seq(Nat)
      BY <3>1 DEF ReadTypes
    <3>3. own' \in [Readers -> Seq(Nat)]
      BY <2>1, <3>2 DEF ReadTypes, Ask
    <3> QED
      BY <2>1, <3>3 DEF ReadTypes, Ask
  <2> QED
    BY <1>4, <2>1 DEF ReadTypes, RPCs, Asked, Get, ReadDone, Go
<1>5. ASSUME NEW r \in Readers, Got(r) PROVE ReadTypes'
  <2>1. /\ rpc' \in [Readers -> RPCs] /\ version' = version
        /\ asset' \in [Readers -> Nat] /\ own' = own
    BY <1>5 DEF ReadTypes, RPCs, Got, Go
  <2>2. chunks' \in [Readers -> Seq([index : Nat, version : Nat])]
    <3>1. CASE UNCHANGED chunks
      BY <3>1 DEF ReadTypes
    <3>2. CASE OnChunk(r, 0, version)
      <4>1. Append(chunks[r], [index |-> 0, version |-> version]) \in Seq([index : Nat, version : Nat])
        BY ChunkAppended DEF ReadTypes
      <4> QED
        BY <3>2, <4>1 DEF ReadTypes, OnChunk
    <3> QED
      BY <1>5, <3>1, <3>2 DEF Got
  <2> QED
    BY <2>1, <2>2 DEF ReadTypes
<1>6. ASSUME NEW r \in Readers, ChunkAnswered(r) PROVE ReadTypes'
  <2>1. \/ ChunkFails(r)
        \/ \E i \in Nat : ChunkReceived(r, i)
    BY <1>6, ManagerAssumption DEF ChunkAnswered
  <2>0. own' \in [Readers -> Seq(Nat)]
    <3>1. own' = own \/ (own[r] # <<>> /\ own' = [own EXCEPT ![r] = Tail(@)])
      BY <1>6 DEF ChunkAnswered, OwnSettles
    <3>2. own[r] # <<>> => Tail(own[r]) \in Seq(Nat)
      BY DEF ReadTypes
    <3> QED
      BY <3>1, <3>2 DEF ReadTypes
  <2>2. CASE ChunkFails(r)
    BY <2>0, <2>2 DEF ReadTypes, RPCs, ChunkFails, Go
  <2>3. ASSUME NEW i \in Nat, ChunkReceived(r, i) PROVE ReadTypes'
    <3>1. rpc' \in [Readers -> RPCs] /\ version' = version /\ asset' = asset
      BY <2>3 DEF ReadTypes, RPCs, ChunkReceived, Go
    <3>2. chunks' \in [Readers -> Seq([index : Nat, version : Nat])]
      BY <2>3, ChunkAppended DEF ReadTypes, ChunkReceived, OnChunk
    <3> QED
      BY <2>0, <3>1, <3>2 DEF ReadTypes
  <2> QED
    BY <2>1, <2>2, <2>3
<1> QED
  BY <1>2, <1>3, <1>4, <1>5, <1>6 DEF ManagerNext

LEMMA HashingStep == HashingInv /\ [ManagerNext]_everything => HashingInv'
<1> SUFFICES ASSUME HashingInv, [ManagerNext]_everything PROVE HashingInv'
  OBVIOUS
<1>1. ManagerInv' /\ ReadTypes'
  BY ManagerInvStep, ReadTypesStep DEF HashingInv, ManagerInv
<1>2. ManagerTypes /\ BatchTypes /\ TypeInv /\ queue \in Seq(Jobs) /\ ReadTypes
  BY DEF HashingInv, ManagerInv, ManagerTypes, Inv, TypeInv, TypeOK
<1>3. UNCHANGED plan
  BY DEF everything, managerVars, ManagerNext, Replace, Store, Stored, BatchCommit, BatchStep,
         Ask, Asked, Get, Got, ChunkAnswered, ChunkReceived, ChunkFails, ReadDone
<1> SUFFICES ASSUME NEW r \in Readers, plan.readers[r] = "hash" PROVE HashingOf(r)'
  BY <1>1, <1>3 DEF HashingInv
<1>4. HashingOf(r) /\ Sequential(r)
  BY DEF HashingInv, Sequential
<1> USE JobNames, NotRead
<1>5. CASE UNCHANGED everything
  BY <1>4, <1>5, HashingKept DEF everything, allVars, limitVars, managerVars, readVars, Known
<1>6. CASE BatchCommit \/ BatchStep
  <2>1. BatchNext /\ UNCHANGED readVars
    BY <1>6 DEF BatchCommit, BatchStep, BatchNext, managerVars
  <2> QED
    BY <1>2, <1>4, <2>1, BatchReadsNothing, HashingKept DEF readVars
<1>7. CASE Store \/ Stored
  <2>1. UNCHANGED readVars /\ \A i : GetChunk(r, i) \notin Known => GetChunk(r, i) \notin Known'
    BY <1>2, <1>7, SubmitKnown, SettlesKnown DEF Store, Stored
  <2> QED
    BY <1>4, <2>1, HashingKept DEF readVars
<1>8. CASE Replace
  BY <1>4, <1>8, HashingKept DEF Replace, allVars, limitVars, readVars, Known
<1>9. ASSUME NEW q \in Readers, q # r,
             Ask(q) \/ Asked(q) \/ Get(q) \/ Got(q) \/ ChunkAnswered(q) \/ ReadDone(q)
      PROVE  HashingOf(r)'
  <2>1. rpc'[r] = rpc[r] /\ asked'[r] = asked[r] /\ own'[r] = own[r] /\ chunks'[r] = chunks[r]
    BY <1>2, <1>9 DEF ReadTypes, ManagerTypes, Ask, Asked, Get, Got, ChunkAnswered, OwnSettles,
                      ChunkReceived, ChunkFails, ReadDone, Go, OnChunk
  <2>2. CASE Ask(q)
    <3>1. asked'[q] \in 1 .. More
      BY <1>2, <2>2, ManagerAssumption DEF Ask, ManagerTypes
    <3>2. \A i : GetChunk(r, i) \notin Known => GetChunk(r, i) \notin Known'
      BY <1>2, <1>9, <2>2, <3>1, SubmitKnown DEF Ask, limitVars, Known
    <3> QED
      BY <1>4, <2>1, <3>2, HashingKept
  <2>3. CASE Asked(q) \/ Get(q) \/ Got(q) \/ ReadDone(q)
    <3>1. UNCHANGED limitVars
      BY <2>3 DEF Asked, Get, Got, ReadDone, allVars
    <3> QED
      BY <1>4, <2>1, <3>1, HashingKept DEF limitVars, Known
  <2>4. CASE ChunkAnswered(q)
    <3>1. \A i : GetChunk(r, i) \notin Known => GetChunk(r, i) \notin Known'
      BY <2>4, SettlesKnown DEF ChunkAnswered, OwnSettles, limitVars, Known
    <3> QED
      BY <1>4, <2>1, <3>1, HashingKept
  <2> QED
    BY <1>9, <2>2, <2>3, <2>4
<1>10. CASE Ask(r)
  <2>1. /\ rpc[r] = "asking" /\ UNCHANGED <<limitVars, rpc, chunks>>
        /\ asked'[r] = asked[r] + 1 /\ asked[r] \in Nat /\ own[r] \in Seq(Nat)
        /\ own'[r] = Append(own[r], asked[r] + 1)
    BY <1>2, <1>4, <1>10 DEF Ask, ReadTypes, ManagerTypes
  <2>2. /\ Len(own'[r]) = Len(own[r]) + 1
        /\ \A k \in DOMAIN own'[r] : own'[r][k] = (asked[r] + 1) + 1 - Len(own'[r]) + k - 1
    BY <1>4, <2>1, OwnAppended DEF HashingOf, Awaited
  <2>3. Awaited(r)' = Awaited(r) /\ Len(own[r]) \in Nat
    <3>1. Len(own[r]) \in Nat
      BY <2>1
    <3> QED
      BY <2>1, <2>2, <3>1 DEF Awaited
  <2>4. \A k \in DOMAIN own'[r] : own'[r][k] = Awaited(r)' + k - 1
    BY <2>1, <2>2 DEF Awaited
  <2>5. Len(own[r]) <= asked[r]
    BY <1>4 DEF HashingOf
  <2>6. rpc'[r] = "asking" /\ chunks'[r] = chunks[r] /\ Known' = Known /\ Len(own'[r]) <= asked'[r]
    BY <2>1, <2>2, <2>3, <2>5 DEF limitVars, Known
  <2>7. /\ \A k \in DOMAIN chunks'[r] : chunks'[r][k].index < Awaited(r)'
        /\ Len(chunks'[r]) = Awaited(r)'
        /\ \A k \in DOMAIN chunks'[r] : chunks'[r][k].index = k - 1
        /\ \A k, l \in DOMAIN chunks'[r] : k < l => chunks'[r][k].index < chunks'[r][l].index
        /\ \A k : GetChunk(r, k) \notin Known'
    BY <1>4, <2>1, <2>3, <2>6 DEF HashingOf
  <2> QED
    BY <2>4, <2>6, <2>7 DEF HashingOf
<1>11. CASE Get(r) \/ ReadDone(r)
  <2>1. /\ UNCHANGED <<limitVars, asked, own, chunks>>
        /\ \/ rpc[r] = "idle" /\ rpc'[r] = "get"
           \/ rpc[r] = "closing" /\ rpc'[r] = "done"
    BY <1>2, <1>11 DEF Get, ReadDone, Go, ReadTypes, allVars
  <2>2. Awaited(r)' = Awaited(r) /\ Known' = Known
    BY <2>1 DEF Awaited, limitVars, Known
  <2> QED
    BY <1>4, <2>1, <2>2 DEF HashingOf
<1>12. CASE Got(r)
  <2>1. /\ UNCHANGED limitVars /\ UNCHANGED <<asked, own>>
        /\ asked[r] = 0 /\ own[r] = <<>> /\ chunks[r] = <<>> /\ Awaited(r)' = 1
    BY <1>4, <1>12 DEF Got, HashingOf, Awaited, allVars
  <2>2. CASE rpc'[r] = "asking" /\ OnChunk(r, 0, version)
    <3>1. chunks'[r] = Append(chunks[r], [index |-> 0, version |-> version])
      BY <1>2, <2>2 DEF OnChunk, ReadTypes
    <3>2. Len(chunks'[r]) = 1 /\ DOMAIN chunks'[r] = {1} /\ chunks'[r][1].index = 0
      BY <1>2, <2>1, <3>1, ChunkAppended DEF ReadTypes
    <3> QED
      BY <1>4, <2>1, <2>2, <3>2 DEF HashingOf, limitVars, Known
  <2>3. CASE rpc'[r] = "failed" /\ UNCHANGED chunks
    BY <1>4, <2>1, <2>3 DEF HashingOf, limitVars, Known
  <2> QED
    BY <1>2, <1>12, <2>2, <2>3 DEF Got, Go, ReadTypes
<1>13. CASE ChunkAnswered(r)
  <2>1. \A i : ~JobSettles(GetChunk(r, i))
    BY <1>4, SettlesKnown DEF HashingOf
  <2>2. PICK i \in 1 .. More : OwnSettles(r, i) /\ (ChunkReceived(r, i) \/ ChunkFails(r))
    BY <1>13, <2>1 DEF ChunkAnswered
  <2>3. /\ own[r] # <<>> /\ i = Head(own[r]) /\ own'[r] = Tail(own[r])
        /\ UNCHANGED <<limitVars, asked>> /\ own[r] \in Seq(Nat) /\ asked[r] \in Nat
    BY <1>2, <2>2 DEF OwnSettles, ReadTypes, ManagerTypes, ChunkReceived, ChunkFails
  <2>4. /\ i = Awaited(r) /\ Len(own'[r]) = Len(own[r]) - 1 /\ Len(own[r]) \in Nat
        /\ \A k \in DOMAIN own'[r] : own'[r][k] = Awaited(r)' + k - 1
    <3>1. /\ Len(own[r]) <= asked[r]
          /\ \A k \in DOMAIN own[r] : own[r][k] = asked[r] + 1 - Len(own[r]) + k - 1
      BY <1>4 DEF HashingOf, Awaited
    <3>0. /\ Head(own[r]) = asked[r] + 1 - Len(own[r]) /\ Len(Tail(own[r])) = Len(own[r]) - 1
          /\ \A k \in DOMAIN Tail(own[r]) :
               Tail(own[r])[k] = asked[r] + 1 - Len(Tail(own[r])) + k - 1
      <4> own[r] \in Seq(Nat) /\ own[r] # <<>> /\ asked[r] \in Nat
        BY <2>3
      <4> QED
        BY <3>1, OwnServed
    <3>2. /\ i = asked[r] + 1 - Len(own[r]) /\ Len(own'[r]) = Len(own[r]) - 1
          /\ \A k \in DOMAIN own'[r] : own'[r][k] = asked[r] + 1 - Len(own'[r]) + k - 1
      BY <2>3, <3>0, Zenon
    <3> QED
      BY <2>3, <3>2 DEF Awaited
  <2>5. Awaited(r)' = Awaited(r) + 1 /\ Awaited(r) \in Nat /\ Len(own'[r]) <= asked'[r]
    BY <1>4, <2>3, <2>4 DEF HashingOf, Awaited
  <2>6. rpc[r] \in {"chunks", "failed"} /\ (\A k : GetChunk(r, k) \notin Known')
    BY <1>4, <2>2, <2>3 DEF ChunkReceived, ChunkFails, HashingOf, limitVars, Known
  <2>7. chunks[r] \in Seq([index : Nat, version : Nat])
    BY <1>2 DEF ReadTypes
  <2>10. \A k \in DOMAIN chunks[r] : chunks[r][k].index \in Nat
    <3>1. \A k \in DOMAIN chunks[r] : chunks[r][k] \in [index : Nat, version : Nat]
      BY <2>7, ElementOf, Zenon
    <3> QED
      BY <3>1
  <2>8. CASE ChunkReceived(r, i)
    <3>1. /\ chunks'[r] = Append(chunks[r], [index |-> i, version |-> version])
          /\ \/ rpc[r] = "failed" /\ rpc'[r] = "failed"
             \/ /\ rpc[r] = "chunks"
                /\ rpc'[r] = IF Len(chunks'[r]) = More + 1 THEN "closing" ELSE "chunks"
      BY <1>2, <2>8 DEF ChunkReceived, OnChunk, ReadTypes, Go
    <3>2. /\ Len(chunks'[r]) = Len(chunks[r]) + 1 /\ Len(chunks[r]) \in Nat
          /\ \A k \in DOMAIN chunks'[r] :
               \/ k \in DOMAIN chunks[r] /\ chunks'[r][k] = chunks[r][k]
               \/ k = Len(chunks[r]) + 1 /\ chunks'[r][k].index = Awaited(r)
      BY <1>2, <2>4, <2>7, <3>1, ChunkAppended DEF ReadTypes
    <3>3. DOMAIN chunks[r] = 1 .. Len(chunks[r]) /\ DOMAIN chunks'[r] = 1 .. Len(chunks[r]) + 1
      BY <2>7, <3>1
    <3>4. \A k \in DOMAIN chunks[r] : chunks[r][k].index < Awaited(r) /\ chunks[r][k].index \in Nat
      BY <1>4, <2>10 DEF HashingOf
    <3>5. \A k \in DOMAIN chunks'[r] : chunks'[r][k].index < Awaited(r)'
      BY <2>5, <3>2, <3>4
    <3>6. ASSUME NEW k \in DOMAIN chunks'[r], NEW l \in DOMAIN chunks'[r], k < l
          PROVE  chunks'[r][k].index < chunks'[r][l].index
      <4>1. k \in DOMAIN chunks[r] /\ chunks'[r][k] = chunks[r][k]
        BY <3>2, <3>3, <3>6
      <4> QED
        BY <1>4, <3>2, <3>4, <3>6, <4>1 DEF HashingOf
    <3>7. rpc[r] = "chunks" => \A k \in DOMAIN chunks'[r] : chunks'[r][k].index = k - 1
      <4>1. rpc[r] = "chunks" => /\ Len(chunks[r]) = Awaited(r)
                                 /\ \A k \in DOMAIN chunks[r] : chunks[r][k].index = k - 1
        BY <1>4 DEF HashingOf
      <4> QED
        BY <2>5, <3>2, <4>1
    <3>8. rpc'[r] = "closing" => Len(chunks'[r]) = More + 1 /\ own'[r] = <<>>
      <4>1. rpc'[r] = "closing" => /\ Len(chunks'[r]) = More + 1 /\ Len(chunks[r]) = Awaited(r)
                                   /\ asked[r] = More
        BY <1>4, <3>1 DEF HashingOf
      <4>2. rpc'[r] = "closing" => Len(own'[r]) = 0
        <5>1. Awaited(r)' = asked[r] + 1 - Len(own'[r]) /\ Len(own'[r]) \in Int
          BY <2>3, <2>4 DEF Awaited
        <5>2. rpc'[r] = "closing" => Awaited(r)' = More + 1
          BY <2>5, <3>2, <4>1
        <5> QED
          BY <4>1, <5>1, <5>2, ManagerAssumption
      <4>3. own'[r] \in Seq(Nat)
        BY <2>3
      <4> QED
        BY <4>1, <4>2, <4>3, EmptySeq
    <3> QED
      BY <1>4, <2>3, <2>4, <2>5, <2>6, <3>1, <3>2, <3>5, <3>6, <3>7, <3>8 DEF HashingOf
  <2>9. CASE ChunkFails(r)
    <3>1. rpc'[r] = "failed" /\ chunks' = chunks
      BY <1>2, <2>9 DEF ChunkFails, Go, ReadTypes
    <3>2. \A k \in DOMAIN chunks[r] : chunks[r][k].index < Awaited(r)'
      <4>1. \A k \in DOMAIN chunks[r] : chunks[r][k].index < Awaited(r)
        BY <1>4 DEF HashingOf
      <4> QED
        BY <2>5, <2>10, <4>1
    <3> QED
      BY <1>4, <2>4, <2>5, <2>6, <3>1, <3>2 DEF HashingOf
  <2> QED
    BY <2>2, <2>8, <2>9
<1>14. CASE Asked(r)
  <2>1. /\ rpc[r] = "asking" /\ asked[r] = More /\ UNCHANGED <<limitVars, asked, own, chunks>>
        /\ rpc'[r] = IF Len(chunks[r]) <= More THEN "chunks" ELSE "closing"
        /\ own[r] \in Seq(Nat) /\ Len(own[r]) \in Nat /\ More \in Nat
    BY <1>2, <1>14, ManagerAssumption DEF Asked, Go, ReadTypes, allVars
  <2>2. rpc'[r] = "closing" => Len(chunks[r]) = More + 1 /\ own[r] = <<>>
    <3>1. Len(chunks[r]) = More + 1 - Len(own[r])
      BY <1>4, <2>1 DEF HashingOf, Awaited
    <3> QED
      BY <2>1, <3>1, EmptySeq
  <2>3. Awaited(r)' = Awaited(r)
    BY <2>1 DEF Awaited
  <2> QED
    BY <1>4, <2>1, <2>2, <2>3 DEF HashingOf, limitVars, Known
<1> QED
  BY <1>5, <1>6, <1>7, <1>8, <1>9, <1>10, <1>11, <1>12, <1>13, <1>14 DEF ManagerNext

\* verifySha256 updates its hasher with the chunks in the order of the content, with
\* all of them unless one fails, for any number of chunks, whatever the batch and the
\* other readers have in the shared executor, and however its own one goes on.
THEOREM HashesArriveInOrder == ManagerSpec => []HashesInOrder
<1>1. HashingInv => HashesInOrder
  BY DEF HashingInv, HashingOf, HashesInOrder
<1> QED
  BY <1>1, HashingInit, HashingStep, PTL DEF ManagerSpec

-----------------------------------------------------------------------------
(* What is collected is complete, and of one content *)

\* The jobs that run are not over.
Apart == running \intersect settled = {}

LEMMA ApartStep == TypeInv /\ Apart /\ [Next]_vars => Apart'
<1> SUFFICES ASSUME TypeInv, Apart, [Next]_vars PROVE Apart'
  OBVIOUS
<1> queue \in Seq(Jobs)
  BY DEF TypeInv, TypeOK
<1>1. ASSUME NEW j \in Jobs, Submit(j) PROVE Apart'
  <2> DEFINE q == Append(queue, j)
  <2>1. /\ NextJob(q, active) /\ settled' = settled /\ j \notin settled
    BY <1>1 DEF Submit, Known
  <2>2. q # <<>> /\ Head(q) \in {queue[i] : i \in DOMAIN queue} \union {j}
    <3>1. q \in Seq(Jobs) /\ q # <<>> /\ Head(q) = q[1] /\ Len(q) = Len(queue) + 1
      OBVIOUS
    <3>2. q[1] = IF Len(queue) = 0 THEN j ELSE queue[1]
      OBVIOUS
    <3> QED
      BY <3>1, <3>2
  <2>3. Head(q) \notin settled
    BY <2>1, <2>2 DEF TypeInv
  <2> HIDE DEF q
  <2> QED
    BY <2>1, <2>3 DEF NextJob, Apart
<1>2. ASSUME NEW j \in Jobs, JobSettles(j) PROVE Apart'
  BY <1>2 DEF JobSettles, Apart
<1>3. ASSUME NEW j \in Jobs, Release(j) PROVE Apart'
  <2>1. /\ NextJob(queue, active - 1) /\ settled' = settled \union {j} /\ j \notin running
        /\ j \in releasing
    BY <1>3 DEF Release, TypeInv
  <2>2. queue # <<>> => Head(queue) \notin settled \union {j}
    BY <2>1, TailFacts DEF TypeInv
  <2> QED
    BY <2>1, <2>2 DEF NextJob, Apart
<1>4. CASE UNCHANGED vars
  BY <1>4 DEF vars, Apart
<1> QED
  BY <1>1, <1>2, <1>3, <1>4 DEF Next

\* A job that answered has answered for good.
Answered == releasing \union settled

LEMMA AnsweredStep == [Next]_vars => Answered \subseteq Answered'
BY DEF Next, vars, Submit, JobSettles, Release, Answered

\* A chunk that a reader has came with the asset, or is that of one answer to a
\* request of its own, which no other chunk is; it is of the content of the asset.
ChunkOf(r, c) ==
  /\ c.index \in 0 .. More
  /\ c.index > 0 => GetChunk(r, c.index) \in Answered
  /\ hasHash => c.version = asset[r]

CollectOf(r) ==
  /\ rpc[r] \in {"idle", "get"} => chunks[r] = <<>>
  /\ rpc[r] = "asking" => Len(chunks[r]) = 1
  /\ rpc[r] = "chunks" => Len(chunks[r]) <= More
  /\ rpc[r] \in {"closing", "done"} => Len(chunks[r]) = More + 1
  /\ \A k \in DOMAIN chunks[r] : ChunkOf(r, chunks[r][k])
  /\ \A k, l \in DOMAIN chunks[r] : chunks[r][k].index = chunks[r][l].index => k = l

CollectInv ==
  /\ ManagerInv /\ ReadTypes /\ Apart
  /\ \A r \in Readers : ~Sequential(r) => own[r] = <<>>
  /\ \A r \in Readers : ~Sequential(r) /\ rpc[r] # "failed" => CollectOf(r)

LEMMA CollectInit == ManagerInit => CollectInv
<1> HAVE ManagerInit
<1>1. ManagerInv /\ ReadTypes
  BY ManagerInvInit, HashingInit DEF HashingInv
<1> QED
  BY <1>1 DEF ManagerInit, BatchInit, Init, CollectInv, CollectOf, Apart

\* The reader itself does nothing.
LEMMA CollectKept ==
  ASSUME NEW r \in Readers, CollectOf(r), rpc'[r] = rpc[r], chunks'[r] = chunks[r],
         asset'[r] = asset[r], hasHash' = hasHash, Answered \subseteq Answered'
  PROVE  CollectOf(r)'
BY DEF CollectOf, ChunkOf

\* A chunk is appended whose index none of the others has.
LEMMA CollectAppended ==
  ASSUME NEW r \in Readers, ReadTypes, CollectOf(r), NEW i \in Nat, OnChunk(r, i, version),
         ChunkOf(r, [index |-> i, version |-> version])',
         \A k \in DOMAIN chunks[r] : chunks[r][k].index # i,
         asset'[r] = asset[r], hasHash' = hasHash, version' = version,
         Answered \subseteq Answered'
  PROVE  /\ Len(chunks'[r]) = Len(chunks[r]) + 1
         /\ \A k \in DOMAIN chunks'[r] : ChunkOf(r, chunks[r][k])'
         /\ \A k, l \in DOMAIN chunks'[r] : chunks'[r][k].index = chunks'[r][l].index => k = l
<1> DEFINE x == [index |-> i, version |-> version]
<1>1. x \in [index : Nat, version : Nat] /\ x.index = i
  BY Zenon DEF ReadTypes
<1> HIDE DEF x
<1>2. chunks'[r] = Append(chunks[r], x) /\ chunks[r] \in Seq([index : Nat, version : Nat])
  BY DEF OnChunk, ReadTypes, x
<1>3. /\ Len(chunks'[r]) = Len(chunks[r]) + 1
      /\ \A k \in DOMAIN chunks'[r] : \/ k \in DOMAIN chunks[r] /\ chunks'[r][k] = chunks[r][k]
                                      \/ k = Len(chunks[r]) + 1 /\ chunks'[r][k] = x
  BY <1>1, <1>2
<1>4. ASSUME NEW k \in DOMAIN chunks'[r] PROVE ChunkOf(r, chunks[r][k])'
  <2>1. ChunkOf(r, x)'
    BY DEF x
  <2>2. CASE k \in DOMAIN chunks[r] /\ chunks'[r][k] = chunks[r][k]
    <3>1. ChunkOf(r, chunks[r][k])
      BY <2>2 DEF CollectOf
    <3> QED
      BY <2>2, <3>1 DEF ChunkOf
  <2>3. CASE chunks'[r][k] = x
    BY <2>1, <2>3 DEF ChunkOf, x
  <2> QED
    BY <1>3, <2>2, <2>3
<1>5. ASSUME NEW k \in DOMAIN chunks'[r], NEW l \in DOMAIN chunks'[r],
             chunks'[r][k].index = chunks'[r][l].index
      PROVE  k = l
  BY <1>1, <1>3, <1>5 DEF CollectOf
<1> QED
  BY <1>3, <1>4, <1>5

LEMMA CollectStep == CollectInv /\ [ManagerNext]_everything => CollectInv'
<1> SUFFICES ASSUME CollectInv, [ManagerNext]_everything PROVE CollectInv'
  OBVIOUS
<1>1. ManagerTypes /\ TypeInv /\ ReadTypes /\ [Next]_vars
  BY ManagerUses DEF CollectInv, ManagerInv, Inv
<1>2. ManagerInv' /\ ReadTypes' /\ Apart'
  BY <1>1, ManagerInvStep, ReadTypesStep, ApartStep DEF CollectInv
<1>3. UNCHANGED <<plan, hasHash>> /\ Answered \subseteq Answered'
  BY <1>1, AnsweredStep
     DEF everything, managerVars, ManagerNext, Replace, Store, Stored, BatchCommit, BatchStep,
         Ask, Asked, Get, Got, ChunkAnswered, ChunkReceived, ChunkFails, ReadDone
<1>11. ASSUME NEW r \in Readers, ~Sequential(r) PROVE own'[r] = <<>>
  <2>1. own[r] = <<>>
    BY <1>11 DEF CollectInv
  <2>2. CASE own'[r] = own[r]
    BY <2>1, <2>2
  <2>3. ASSUME NEW q \in Readers, Ask(q) PROVE own'[r] = own[r]
    BY <1>1, <1>11, <2>3 DEF Ask, ReadTypes
  <2>4. ASSUME NEW q \in Readers, ChunkAnswered(q) PROVE own'[r] = own[r]
    BY <1>1, <2>1, <2>4 DEF ChunkAnswered, OwnSettles, ReadTypes
  <2> QED
    BY <2>2, <2>3, <2>4
       DEF everything, managerVars, readVars, ManagerNext, Replace, Store, Stored, BatchCommit,
           BatchStep, Asked, Get, Got, ReadDone
<1> SUFFICES ASSUME NEW r \in Readers, ~Sequential(r), rpc'[r] # "failed" PROVE CollectOf(r)'
  BY <1>2, <1>3, <1>11 DEF CollectInv, Sequential
<1>4. CASE rpc'[r] = rpc[r] /\ chunks'[r] = chunks[r] /\ asset'[r] = asset[r]
  BY <1>3, <1>4, CollectKept DEF CollectInv
<1>5. CASE UNCHANGED everything \/ Replace \/ Store \/ Stored \/ BatchCommit \/ BatchStep
  BY <1>4, <1>5 DEF everything, managerVars, readVars, Replace, Store, Stored, BatchCommit, BatchStep
<1>6. ASSUME NEW q \in Readers, q # r,
             Ask(q) \/ Asked(q) \/ Get(q) \/ Got(q) \/ ChunkAnswered(q) \/ ReadDone(q)
      PROVE  CollectOf(r)'
  BY <1>1, <1>4, <1>6 DEF ReadTypes, Ask, Asked, Get, Got, ChunkAnswered, ChunkReceived,
                          ChunkFails, ReadDone, Go, OnChunk
<1>7. CASE Ask(r)
  BY <1>4, <1>7 DEF Ask
<1>8. CASE Asked(r) \/ Get(r) \/ ReadDone(r)
  <2>1. chunks' = chunks /\ asset' = asset /\ rpc[r] # "failed"
    BY <1>8 DEF Asked, Get, ReadDone
  <2>2. CollectOf(r)
    BY <2>1 DEF CollectInv
  <2>3. Len(chunks[r]) \in Nat
    BY <1>1 DEF ReadTypes
  <2>4. /\ rpc'[r] \in {"get", "chunks", "closing", "done"}
        /\ rpc'[r] = "get" => chunks[r] = <<>>
        /\ rpc'[r] = "chunks" => Len(chunks[r]) <= More
        /\ rpc'[r] \in {"closing", "done"} => Len(chunks[r]) = More + 1
    <3>1. CASE Asked(r)
      <4>1. /\ rpc'[r] = IF Len(chunks[r]) <= More THEN "chunks" ELSE "closing"
            /\ rpc[r] = "asking"
        BY <1>1, <3>1 DEF Asked, Go, ReadTypes
      <4>2. Len(chunks[r]) = 1 /\ More \in Nat
        BY <2>2, <4>1, ManagerAssumption DEF CollectOf
      <4>3. CASE 1 <= More
        BY <4>1, <4>2, <4>3
      <4>4. CASE More = 0
        BY <4>1, <4>2, <4>4
      <4> QED
        BY <4>2, <4>3, <4>4
    <3>2. CASE Get(r)
      BY <1>1, <2>2, <3>2 DEF Get, Go, ReadTypes, CollectOf
    <3>3. CASE ReadDone(r)
      BY <1>1, <2>2, <3>3 DEF ReadDone, Go, ReadTypes, CollectOf
    <3> QED
      BY <1>8, <3>1, <3>2, <3>3
  <2>5. \A k \in DOMAIN chunks[r] : ChunkOf(r, chunks[r][k])'
    BY <1>3, <2>1, <2>2 DEF CollectOf, ChunkOf
  <2> QED
    BY <2>1, <2>2, <2>4, <2>5 DEF CollectOf
<1>9. CASE Got(r)
  <2>1. CollectOf(r) /\ chunks[r] = <<>>
    BY <1>9 DEF CollectInv, CollectOf, Got
  <2>2. rpc'[r] = "asking" /\ asset'[r] = version /\ OnChunk(r, 0, version)
    BY <1>1, <1>9 DEF Got, Go, ReadTypes
  <2>3. chunks'[r] = <<[index |-> 0, version |-> version]>>
    BY <1>1, <2>1, <2>2 DEF OnChunk, ReadTypes
  <2>4. Len(chunks'[r]) = 1 /\ DOMAIN chunks'[r] = {1} /\ chunks'[r][1] = [index |-> 0, version |-> version]
    BY <2>3
  <2>5. ChunkOf(r, chunks[r][1])'
    BY <2>2, <2>4, ManagerAssumption DEF ChunkOf
  <2> QED
    BY <2>2, <2>4, <2>5 DEF CollectOf
<1>10. CASE ChunkAnswered(r)
  <2>0. own[r] = <<>>
    BY DEF CollectInv
  <2>1. PICK i \in 1 .. More : JobSettles(GetChunk(r, i)) /\ (ChunkReceived(r, i) \/ ChunkFails(r))
    BY <1>10, <2>0 DEF ChunkAnswered, OwnSettles
  <2>2. ChunkReceived(r, i) /\ rpc[r] = "chunks" /\ CollectOf(r)
    BY <1>1, <2>1 DEF ChunkReceived, ChunkFails, Go, ReadTypes, CollectInv
  <2>3. /\ GetChunk(r, i) \notin Answered /\ GetChunk(r, i) \in Answered'
        /\ i \in Nat /\ i > 0 /\ i \in 0 .. More
    BY <2>1, ManagerAssumption DEF JobSettles, Answered, TypeInv, Apart, CollectInv, ManagerInv, Inv
  <2>4. /\ OnChunk(r, i, version) /\ asset' = asset /\ version' = version
        /\ hasHash => asset[r] = version
        /\ rpc'[r] = IF Len(chunks'[r]) = More + 1 THEN "closing" ELSE "chunks"
    BY <1>1, <2>2 DEF ChunkReceived, Served, HashSent, Go, ReadTypes
  <2>5. ChunkOf(r, [index |-> i, version |-> version])'
    BY <1>3, <2>3, <2>4 DEF ChunkOf
  <2>6. \A k \in DOMAIN chunks[r] : chunks[r][k].index # i
    BY <2>2, <2>3 DEF CollectOf, ChunkOf
  <2>7. /\ Len(chunks'[r]) = Len(chunks[r]) + 1
        /\ \A k \in DOMAIN chunks'[r] : ChunkOf(r, chunks[r][k])'
        /\ \A k, l \in DOMAIN chunks'[r] : chunks'[r][k].index = chunks'[r][l].index => k = l
    BY <1>1, <1>3, <2>2, <2>3, <2>4, <2>5, <2>6, CollectAppended
  <2>8. Len(chunks[r]) \in Nat /\ Len(chunks[r]) <= More
    BY <1>1, <2>2 DEF CollectOf, ReadTypes
  <2> QED
    BY <2>4, <2>7, <2>8, ManagerAssumption DEF CollectOf
<1> QED
  BY <1>5, <1>6, <1>7, <1>8, <1>9, <1>10 DEF ManagerNext

\* As many different indices as there are chunks are all of them.
LEMMA AllIndices ==
  ASSUME NEW s \in Seq([index : Nat, version : Nat]), Len(s) = More + 1,
         \A k \in DOMAIN s : s[k].index \in 0 .. More,
         \A k, l \in DOMAIN s : s[k].index = s[l].index => k = l
  PROVE  {s[k].index : k \in DOMAIN s} = 0 .. More
<1> DEFINE f == [k \in 1 .. More + 1 |-> s[k].index]
<1>1. DOMAIN s = 1 .. More + 1 /\ More \in Nat
  BY ManagerAssumption
<1>2. \A k \in 1 .. More + 1 : f[k] = s[k].index /\ f[k] \in 0 .. More
  BY <1>1
<1>3. f \in [1 .. More + 1 -> 0 .. More]
  BY <1>2
<1>4. f \in Injection(1 .. More + 1, 0 .. More)
  <2> HIDE DEF f
  <2> QED
    BY <1>1, <1>2, <1>3 DEF Injection, IsInjective
<1>5. IsFiniteSet(0 .. More) /\ Cardinality(0 .. More) = More + 1
  <2>1. 0 \in Int /\ More \in Int /\ ~(0 > More) /\ More - 0 + 1 = More + 1
    BY <1>1
  <2> QED
    BY <2>1, FS_Interval, Zenon
<1>6. Cardinality(1 .. More + 1) = More + 1
  <2>1. 1 \in Int /\ More + 1 \in Int /\ ~(1 > More + 1) /\ (More + 1) - 1 + 1 = More + 1
    BY <1>1
  <2> QED
    BY <2>1, FS_Interval, Zenon
<1>7. f \in Surjection(1 .. More + 1, 0 .. More)
  BY <1>4, <1>5, <1>6, FS_Injection
<1>8. ASSUME NEW i \in 0 .. More PROVE \E k \in 1 .. More + 1 : s[k].index = i
  <2> HIDE DEF f
  <2>1. PICK k \in 1 .. More + 1 : f[k] = i
    BY <1>7 DEF Surjection
  <2> QED
    BY <1>2, <2>1
<1> DEFINE T == {s[k].index : k \in 1 .. More + 1}
<1>9. T \subseteq 0 .. More /\ 0 .. More \subseteq T
  <2> HIDE DEF f
  <2> QED
    BY <1>2, <1>8
<1>10. T = 0 .. More
  <2> HIDE DEF T
  <2> QED
    BY <1>9
<1> QED
  BY <1>1, <1>10

\* What a reader collects is every chunk of the asset, once, and all of the content
\* that get() described if the canister keeps its hash, for any number of chunks,
\* in whatever order the answers come, and whatever replaces the content meanwhile.
THEOREM CollectedIsOneContent == ManagerSpec => []CollectsOneContent
<1>1. CollectInv => CollectsOneContent
  <2> SUFFICES ASSUME CollectInv, NEW r \in Readers, plan.readers[r] = "collect", rpc[r] = "done"
               PROVE  /\ Len(chunks[r]) = More + 1
                      /\ {chunks[r][k].index : k \in DOMAIN chunks[r]} = 0 .. More
                      /\ hasHash => \A k \in DOMAIN chunks[r] : chunks[r][k].version = asset[r]
    BY DEF CollectsOneContent
  <2>1. CollectOf(r) /\ chunks[r] \in Seq([index : Nat, version : Nat])
    BY DEF CollectInv, Sequential, ReadTypes
  <2> QED
    BY <2>1, AllIndices DEF CollectOf, ChunkOf
<1> QED
  BY <1>1, CollectInit, CollectStep, PTL DEF ManagerSpec

-----------------------------------------------------------------------------
(* The hash of a first commit() *)

\* A slice whose upload was not asked for.
NotYet(s) == s \notin stored /\ CreateChunk(s) \notin Known

\* An operation that did not open its file has read nothing; it begins when the batch
\* of its call is created.
FreshOf(c, f) ==
  /\ c > last \/ (c = last /\ pc = "creating") => op[c][f] = "none"
  /\ op[c][f] \in {"none", "open"} =>
       \A i \in Indices : NotYet(Slice(c, f, i)) /\ Slice(c, f, i) \notin reading

\* What is being read was not uploaded: it leaves `reading' when it is.
FreshInv ==
  /\ \A s \in reading : NotYet(s)
  /\ \A c \in Commits, f \in Files : FreshOf(c, f)

LEMMA ChunkNames ==
  /\ \A s, t : CreateChunk(s) = CreateChunk(t) => s = t
  /\ \A s, c : CreateChunk(s) # CreateBatch(c) /\ CreateChunk(s) # CommitBatch(c)
BY DEF CreateChunk, CreateBatch, CommitBatch

LEMMA SliceTypes ==
  /\ \A c \in Commits, f \in Files, i \in Indices : Slice(c, f, i) \in Slices
  /\ \A s \in Slices : /\ s = Slice(s.commit, s.file, s.index)
                       /\ s.commit \in Commits /\ s.file \in Files /\ s.index \in Indices
  /\ \A c, f, i : /\ Slice(c, f, i).commit = c /\ Slice(c, f, i).file = f
                  /\ Slice(c, f, i).index = i
  /\ \A c, f, i, d, g, k : Slice(c, f, i) = Slice(d, g, k) => c = d /\ f = g /\ i = k
BY DEF Slice, Slices

\* No slice but those that leave `reading' is uploaded, and no operation begins.
LEMMA FreshKept ==
  ASSUME FreshInv, BatchTypes, reading' \subseteq reading,
         \A s \in Slices : NotYet(s) /\ (s \notin reading \/ s \in reading') => NotYet(s)',
         \A c \in Commits, f \in Files :
           op'[c][f] \in {"none", "open"} => op[c][f] \in {"none", "open"},
         \A c \in Commits, f \in Files :
           c > last' \/ (c = last' /\ pc' = "creating") => op'[c][f] = "none"
  PROVE  FreshInv'
<1>1. ASSUME NEW s \in reading' PROVE NotYet(s)'
  BY DEF FreshInv, BatchTypes
<1>2. ASSUME NEW c \in Commits, NEW f \in Files PROVE FreshOf(c, f)'
  BY SliceTypes DEF FreshInv, FreshOf
<1> QED
  BY <1>1, <1>2 DEF FreshInv

\* The same for a step in which the call of commit() does not begin.
LEMMA FreshKeptInCall ==
  ASSUME FreshInv, BatchTypes, reading' \subseteq reading, last' = last,
         pc' = "creating" => pc = "creating",
         \A s \in Slices : NotYet(s) /\ (s \notin reading \/ s \in reading') => NotYet(s)',
         \A c \in Commits, f \in Files :
           op'[c][f] = op[c][f] \/ (op[c][f] # "none" /\ op'[c][f] \notin {"none", "open"})
  PROVE  FreshInv'
<1>1. \A c \in Commits, f \in Files :
        op'[c][f] \in {"none", "open"} => op[c][f] \in {"none", "open"}
  OBVIOUS
<1>2. \A c \in Commits, f \in Files :
        c > last' \/ (c = last' /\ pc' = "creating") => op'[c][f] = "none"
  BY DEF FreshInv, FreshOf
<1> QED
  BY <1>1, <1>2, FreshKept

LEMMA RejectsMoves ==
  ASSUME BatchTypes, NEW c \in Commits, NEW f \in Files, Rejects(c, f), op[c][f] # "none"
  PROVE  /\ pc' = "creating" => pc = "creating"
         /\ \A d \in Commits, g \in Files :
              \/ op'[d][g] = op[d][g]
              \/ d = c /\ g = f /\ op[d][g] # "none" /\ op'[d][g] = "failed"
BY DEF Rejects, BatchTypes

\* Foreign jobs, and those of the batch but create_chunk, leave slices as they are.
LEMMA NotYetKept ==
  ASSUME stored' = stored, NEW j, Known' \subseteq Known \union {j},
         \A s : j # CreateChunk(s)
  PROVE  \A s \in Slices : NotYet(s) => NotYet(s)'
BY DEF NotYet

LEMMA NotYetSame ==
  ASSUME stored' = stored, Known' \subseteq Known
  PROVE  \A s \in Slices : NotYet(s) => NotYet(s)'
BY DEF NotYet

LEMMA FreshStep == ManagerInv /\ FreshInv /\ [ManagerNext]_everything => FreshInv'
<1> SUFFICES ASSUME ManagerInv, FreshInv, [ManagerNext]_everything PROVE FreshInv'
  OBVIOUS
<1>1. ManagerTypes /\ BatchTypes /\ queue \in Seq(Jobs)
  BY DEF ManagerInv, ManagerTypes, Inv, TypeInv, TypeOK
<1> USE JobNames, ChunkNames
<1>2. CASE UNCHANGED batchVars /\ (UNCHANGED limitVars \/
             \E j \in Jobs : Foreign(j) /\ (Submit(j) \/ JobSettles(j)))
  <2>1. CASE UNCHANGED limitVars
    <3>1. Known' = Known
      BY <2>1 DEF limitVars, Known
    <3> QED
      BY <1>1, <1>2, <3>1, NotYetSame, FreshKeptInCall DEF batchVars
  <2>2. ASSUME NEW j \in Jobs, Foreign(j), Submit(j) \/ JobSettles(j) PROVE FreshInv'
    <3>1. Known' \subseteq Known \union {j}
      BY <1>1, <2>2, SubmitKnown, SettlesKnown
    <3> QED
      BY <1>1, <1>2, <2>2, <3>1, NotYetKept, FreshKeptInCall DEF batchVars, Foreign
  <2> QED
    BY <1>2, <2>1, <2>2
<1>3. CASE Commit
  <2>1. /\ last' \in Commits /\ last' = last + 1 /\ Submit(CreateBatch(last'))
        /\ UNCHANGED <<op, reading, stored>> /\ last \in Nat
    BY <1>1, <1>3, BatchAssumption DEF Commit, BatchTypes, Commits
  <2>2. Known' \subseteq Known \union {CreateBatch(last')}
    BY <1>1, <2>1, SubmitKnown
  <2>3. \A s \in Slices : NotYet(s) => NotYet(s)'
    BY <2>1, <2>2 DEF NotYet
  <2>4. \A c \in Commits, f \in Files : c > last' \/ c = last' => op'[c][f] = "none"
    BY <2>1, BatchAssumption DEF FreshInv, FreshOf, Commits
  <2> QED
    BY <1>1, <2>1, <2>3, <2>4, FreshKept
<1>4. CASE Created
  <2>1. /\ last \in Commits /\ pc = "creating" /\ UNCHANGED <<last, reading, stored>>
        /\ JobSettles(CreateBatch(last)) /\ pc' # "creating"
    BY <1>1, <1>4 DEF Created, BatchTypes
  <2>2. \A s \in Slices : NotYet(s) => NotYet(s)'
    BY <2>1, SettlesKnown, NotYetSame
  <2>3. \A c \in Commits, f \in Files :
          \/ op'[c][f] = op[c][f]
          \/ c = last /\ op'[c][f] \in {"open", "failed"}
    BY <1>1, <1>4 DEF Created, BatchTypes
  <2>4. \A c \in Commits, f \in Files :
          op'[c][f] \in {"none", "open"} => op[c][f] \in {"none", "open"}
    BY <2>1, <2>3 DEF FreshInv, FreshOf
  <2>5. \A c \in Commits, f \in Files : c > last' => op'[c][f] = "none"
    BY <2>1, <2>3 DEF FreshInv, FreshOf, Commits
  <2> QED
    BY <1>1, <2>1, <2>2, <2>4, <2>5, FreshKept
<1>5. CASE Committed
  BY <1>1, <1>5, SettlesKnown, NotYetSame, FreshKeptInCall DEF Committed
<1>6. CASE SlotFree
  BY <1>1, <1>6, ReleaseKnown, NotYetSame, FreshKeptInCall DEF SlotFree, batchVars
<1>7. ASSUME NEW s \in reading, Hash(s) PROVE FreshInv'
  <2>1. s \in Slices /\ reading' = reading \ {s} /\ UNCHANGED <<last, pc, op, stored>>
    BY <1>1, <1>7 DEF BatchTypes, Hash, ReadEnds
  <2>2. Known' \subseteq Known \union {CreateChunk(s)}
    BY <1>1, <1>7, <2>1, SubmitKnown DEF Hash
  <2>3. \A t \in Slices : NotYet(t) /\ (t \notin reading \/ t \in reading') => NotYet(t)'
    BY <2>1, <2>2 DEF NotYet
  <2> QED
    BY <1>1, <2>1, <2>3, FreshKeptInCall
<1>8. ASSUME NEW s \in reading, ReadFails(s) PROVE FreshInv'
  <2>1. /\ s.commit \in Commits /\ s.file \in Files /\ reading' = reading \ {s}
        /\ Rejects(s.commit, s.file) /\ UNCHANGED <<last, stored>> /\ Known' = Known
    BY <1>1, <1>8, SliceTypes DEF BatchTypes, ReadFails, ReadEnds, limitVars, Known
  <2>2. op[s.commit][s.file] # "none"
    BY <1>1, <2>1, SliceTypes DEF FreshInv, FreshOf, BatchTypes
  <2> QED
    BY <1>1, <2>1, <2>2, RejectsMoves, NotYetSame, FreshKeptInCall
<1>9. ASSUME NEW s \in Slices, Uploaded(s) \/ UploadFails(s) PROVE FreshInv'
  <2>1. /\ s.commit \in Commits /\ s.file \in Files /\ Known' \subseteq Known
        /\ CreateChunk(s) \in Known /\ UNCHANGED <<last, reading>>
    BY <1>9, SettlesKnown, SliceTypes DEF Uploaded, UploadFails
  <2>2. op[s.commit][s.file] \notin {"none", "open"}
    BY <2>1, SliceTypes DEF FreshInv, FreshOf, NotYet
  <2>3. \A t \in Slices : NotYet(t) => NotYet(t)'
    BY <1>9, <2>1 DEF NotYet, Uploaded, UploadFails
  <2>4. CASE Uploaded(s)
    <3>1. /\ pc' = pc
          /\ \A c \in Commits, f \in Files :
               op'[c][f] = op[c][f] \/ (op[c][f] = "reading" /\ op'[c][f] = "closing")
      BY <1>1, <2>1, <2>4 DEF Uploaded, BatchTypes
    <3> QED
      BY <1>1, <2>1, <2>3, <3>1, FreshKeptInCall
  <2>5. CASE UploadFails(s)
    BY <1>1, <2>1, <2>2, <2>3, <2>5, RejectsMoves, FreshKeptInCall DEF UploadFails
  <2> QED
    BY <1>9, <2>4, <2>5
<1>10. ASSUME NEW c \in Commits, NEW f \in Files, OpenFails(c, f) \/ CloseFails(c, f)
       PROVE  FreshInv'
  <2>1. /\ Known' = Known /\ UNCHANGED <<last, reading, stored>> /\ Rejects(c, f)
        /\ op[c][f] # "none"
    BY <1>10 DEF OpenFails, CloseFails, limitVars, Known
  <2> QED
    BY <1>1, <2>1, RejectsMoves, NotYetSame, FreshKeptInCall
<1>11. ASSUME NEW c \in Commits, NEW f \in Files, Closed(c, f) PROVE FreshInv'
  <2>1. /\ UNCHANGED <<last, reading, stored>> /\ pc' \in {pc, "committing"}
        /\ op[c][f] = "closing" /\ op' = [op EXCEPT ![c][f] = "done"]
    BY <1>11 DEF Closed
  <2>2. Known' \subseteq Known \union {CommitBatch(c)}
    BY <1>1, <1>11, SubmitKnown DEF Closed, limitVars, Known
  <2>3. \A d \in Commits, g \in Files :
          op'[d][g] = op[d][g] \/ (op[d][g] = "closing" /\ op'[d][g] = "done")
    BY <1>1, <2>1 DEF BatchTypes
  <2>4. \A s \in Slices : NotYet(s) => NotYet(s)'
    BY <2>1, <2>2, NotYetKept
  <2> QED
    BY <1>1, <2>1, <2>3, <2>4, FreshKeptInCall
<1>12. ASSUME NEW c \in Commits, NEW f \in Files, Opened(c, f) PROVE FreshInv'
  <2>1. /\ UNCHANGED <<last, pc, stored>> /\ Known' = Known
        /\ op[c][f] = "open" /\ op' = [op EXCEPT ![c][f] = "reading"]
    BY <1>12 DEF Opened, limitVars, Known
  <2>2. reading' = reading \union {Slice(c, f, i) : i \in Indices}
    BY <1>12 DEF Opened, Slice
  <2>3. \A s \in Slices : NotYet(s) => NotYet(s)'
    BY <2>1, NotYetSame
  <2>4. \A s \in reading' : NotYet(s)'
    BY <1>1, <2>1, <2>2, <2>3, SliceTypes DEF FreshInv, FreshOf, BatchTypes
  <2>5. ASSUME NEW d \in Commits, NEW g \in Files PROVE FreshOf(d, g)'
    <3>1. CASE d = c /\ g = f
      BY <1>1, <2>1, <3>1 DEF FreshInv, FreshOf, BatchTypes
    <3>2. CASE ~(d = c /\ g = f)
      <4>1. op'[d][g] = op[d][g]
        BY <1>1, <2>1, <3>2 DEF BatchTypes
      <4>2. \A i \in Indices : Slice(d, g, i) \in reading' => Slice(d, g, i) \in reading
        BY <2>2, <3>2, SliceTypes
      <4> QED
        BY <2>1, <2>3, <4>1, <4>2, SliceTypes DEF FreshInv, FreshOf
    <3> QED
      BY <3>1, <3>2
  <2> QED
    BY <2>4, <2>5 DEF FreshInv
<1> QED
  BY <1>1, <1>2, <1>3, <1>4, <1>5, <1>6, <1>7, <1>8, <1>9, <1>10, <1>11, <1>12, ManagerMoves DEF BatchNext, Step

\* When reads end in order, the chunks of a file are hashed as they follow each
\* other, and those still being read are the ones after them.
InTurn(f) ==
  /\ \A k \in DOMAIN hashed[f] : hashed[f][k] = k
  /\ Len(hashed[f]) <= Chunks
  /\ \A i \in Indices : Slice(1, f, i) \in reading <=> i > Len(hashed[f])

FirstOf(f) ==
  /\ op[1][f] \in {"none", "open"} => hashed[f] = <<>>
  /\ op[1][f] \in {"reading", "closing", "done"} => InTurn(f)
  /\ pc = "committing" => op[1][f] # "open" /\ hashed[f] = [i \in Indices |-> i]

FirstInv ==
  InOrder /\ last <= 1 =>
    (pc = "committing" => reading = {}) /\ \A f \in Files : FirstOf(f)

HashedTypes == hashed \in [Files -> Seq(Nat)]

LEMMA HashedTypesStep ==
  ManagerTypes /\ HashedTypes /\ [ManagerNext]_everything => HashedTypes'
<1> SUFFICES ASSUME ManagerTypes, HashedTypes, [ManagerNext]_everything PROVE HashedTypes'
  OBVIOUS
<1>1. CASE hashed' = hashed
  BY <1>1 DEF HashedTypes
<1>2. ASSUME NEW s \in reading, Hash(s) PROVE HashedTypes'
  <2>1. s.index \in Nat /\ s.file \in Files
    BY BatchAssumption DEF ManagerTypes, BatchTypes, Slices, Indices
  <2>2. Append(hashed[s.file], s.index) \in Seq(Nat)
    BY <2>1 DEF HashedTypes
  <2> QED
    BY <1>2, <2>2 DEF Hash, HashedTypes
<1>3. CASE BatchNext /\ ~(\E s \in reading : Hash(s))
  BY <1>1, <1>3 DEF BatchNext, Step, Commit, Created, Committed, SlotFree, batchVars, ReadFails,
       Uploaded, UploadFails, Opened, OpenFails, Closed, CloseFails
<1> QED
  BY <1>1, <1>2, <1>3, ManagerMoves DEF batchVars

\* The operation of a file is where it was, as far as its hash goes, or failed.
SamePlace(a, b) ==
  \/ b = a \/ b = "failed"
  \/ a \in {"none", "open"} /\ b \in {"none", "open"}
  \/ a \in {"reading", "closing", "done"} /\ b \in {"reading", "closing", "done"}

LEMMA FirstKept ==
  ASSUME FirstInv, last <= last', last \in Nat, last' \in Nat, hashed' = hashed, reading' = reading,
         \A f \in Files : SamePlace(op[1][f], op'[1][f]),
         pc' = "committing" => pc = "committing" /\ op' = op
  PROVE  FirstInv'
BY DEF FirstInv, FirstOf, InTurn, SamePlace

LEMMA RejectsPlace ==
  ASSUME BatchTypes, NEW c \in Commits, NEW f \in Files, Rejects(c, f)
  PROVE  \A g \in Files : op'[1][g] = op[1][g] \/ op'[1][g] = "failed"
BY DEF Rejects, BatchTypes

\* The next chunk of the content is hashed.
LEMMA NextHashed ==
  ASSUME NEW h \in Seq(Nat), \A k \in DOMAIN h : h[k] = k
  PROVE  LET g == Append(h, Len(h) + 1)
         IN  Len(g) = Len(h) + 1 /\ \A k \in DOMAIN g : g[k] = k
OBVIOUS

LEMMA AllHashed ==
  ASSUME NEW h \in Seq(Nat), \A k \in DOMAIN h : h[k] = k, Len(h) = Chunks
  PROVE  h = [i \in Indices |-> i]
<1>1. DOMAIN h = Indices /\ h = [i \in DOMAIN h |-> h[i]]
  BY DEF Indices
<1> QED
  BY <1>1

LEMMA FirstStep ==
  WholeInv /\ FreshInv /\ HashedTypes /\ FirstInv /\ [ManagerNext]_everything => FirstInv'
<1> SUFFICES ASSUME WholeInv, FreshInv, HashedTypes, FirstInv, [ManagerNext]_everything
             PROVE  FirstInv'
  OBVIOUS
<1>1. /\ ManagerTypes /\ BatchTypes /\ last \in Nat /\ last' \in Nat
      /\ 1 \in Commits /\ Chunks \in Nat
  BY ManagerInvStep, BatchAssumption
     DEF WholeInv, ManagerInv, ManagerTypes, BatchTypes, Commits
<1>2. ASSUME InOrder, last <= 1, NEW c \in Commits, NEW f \in Files, op[c][f] # "none"
      PROVE  c = 1
  BY <1>1, <1>2 DEF FreshInv, FreshOf, Commits
<1>3. ASSUME InOrder, last <= 1, NEW s \in reading
      PROVE  /\ s \in Slices /\ s = Slice(1, s.file, s.index) /\ s.file \in Files
             /\ s.index \in Indices /\ op[1][s.file] \notin {"none", "open"}
  <2>1. /\ s \in Slices /\ s = Slice(s.commit, s.file, s.index)
        /\ s.commit \in Commits /\ s.file \in Files /\ s.index \in Indices
    BY <1>1, SliceTypes DEF BatchTypes
  <2>2. op[s.commit][s.file] \notin {"none", "open"}
    BY <2>1 DEF FreshInv, FreshOf
  <2>3. s.commit = 1
    BY <1>2, <1>3, <2>1, <2>2
  <2> QED
    BY <2>1, <2>2, <2>3
<1>4. CASE UNCHANGED batchVars
  BY <1>1, <1>4, FirstKept DEF batchVars, SamePlace
<1>5. CASE Commit
  BY <1>1, <1>5, FirstKept DEF Commit, SamePlace
<1>6. CASE Created
  <2>1. \A f \in Files : SamePlace(op[1][f], op'[1][f])
    BY <1>1, <1>6 DEF Created, BatchTypes, FreshInv, FreshOf, SamePlace
  <2> QED
    BY <1>1, <1>6, <2>1, FirstKept DEF Created
<1>7. CASE Committed
  BY <1>1, <1>7, FirstKept DEF Committed, SamePlace
<1>8. CASE SlotFree
  BY <1>4, <1>8 DEF SlotFree
<1>9. ASSUME NEW s \in Slices, Uploaded(s) PROVE FirstInv'
  <2>1. \A f \in Files :
          op'[1][f] = op[1][f] \/ (op[1][f] = "reading" /\ op'[1][f] = "closing")
    BY <1>1, <1>9 DEF Uploaded, BatchTypes, Slices
  <2>2. UNCHANGED <<last, pc, reading, hashed>>
    BY <1>9 DEF Uploaded
  <2>3. ASSUME InOrder, last <= 1 PROVE FirstInv'
    <3>1. ASSUME NEW f \in Files PROVE FirstOf(f)'
      BY <2>1, <2>2, <2>3 DEF FirstInv, FirstOf, InTurn
    <3> QED
      BY <2>2, <2>3, <3>1 DEF FirstInv
  <2> QED
    BY <2>2, <2>3 DEF FirstInv
<1>10. ASSUME NEW c \in Commits, NEW f \in Files, Rejects(c, f),
              UNCHANGED <<last, reading, hashed>>
       PROVE  FirstInv'
  <2>1. \A g \in Files : op'[1][g] = op[1][g] \/ op'[1][g] = "failed"
    BY <1>1, <1>10, RejectsPlace
  <2>2. pc' = "committing" => pc = "committing"
    BY <1>10 DEF Rejects
  <2>3. ASSUME InOrder, last <= 1, NEW g \in Files PROVE FirstOf(g)'
    BY <1>10, <2>1, <2>2, <2>3 DEF FirstInv, FirstOf, InTurn
  <2> QED
    BY <1>10, <2>2, <2>3 DEF FirstInv
<1>11. ASSUME NEW s \in Slices, UploadFails(s) PROVE FirstInv'
  BY <1>10, <1>11 DEF UploadFails, Slices
<1>12. ASSUME NEW c \in Commits, NEW f \in Files, OpenFails(c, f) \/ CloseFails(c, f)
       PROVE  FirstInv'
  BY <1>10, <1>12 DEF OpenFails, CloseFails
<1>13. ASSUME NEW s \in reading, ReadFails(s) PROVE FirstInv'
  <2>1. reading' = reading \ {s} /\ UNCHANGED <<last, hashed>> /\ Rejects(s.commit, s.file)
    BY <1>13 DEF ReadFails, ReadEnds
  <2>2. ASSUME InOrder, last <= 1 PROVE FirstInv'
    <3>1. /\ s = Slice(1, s.file, s.index) /\ s.file \in Files /\ s.commit = 1
          /\ pc # "committing"
      BY <1>3, <2>2, SliceTypes DEF FirstInv
    <3>2. /\ pc' # "committing" /\ op'[1][s.file] = "failed"
          /\ \A g \in Files : g # s.file => op'[1][g] = op[1][g]
      BY <1>1, <2>1, <3>1 DEF Rejects, BatchTypes
    <3>3. ASSUME NEW g \in Files PROVE FirstOf(g)'
      <4>1. CASE g = s.file
        BY <3>2, <4>1 DEF FirstOf
      <4>2. CASE g # s.file
        <5>1. \A i \in Indices : Slice(1, g, i) \in reading' <=> Slice(1, g, i) \in reading
          BY <2>1, <3>1, <4>2, SliceTypes
        <5> QED
          BY <2>1, <2>2, <3>2, <4>2, <5>1 DEF FirstInv, FirstOf, InTurn
      <4> QED
        BY <4>1, <4>2
    <3> QED
      BY <3>2, <3>3 DEF FirstInv
  <2> QED
    BY <2>1, <2>2 DEF FirstInv
<1>14. ASSUME NEW s \in reading, Hash(s) PROVE FirstInv'
  <2>1. /\ ReadEnds(s) /\ hashed' = [hashed EXCEPT ![s.file] = Append(@, s.index)]
        /\ UNCHANGED <<last, pc, op>>
    BY <1>14 DEF Hash
  <2>2. ASSUME InOrder, last <= 1 PROVE FirstInv'
    <3> DEFINE h == hashed[s.file]
    <3>1. /\ s = Slice(1, s.file, s.index) /\ s.file \in Files /\ s.index \in Indices
          /\ op[1][s.file] \notin {"none", "open"} /\ pc # "committing"
      BY <1>3, <2>2 DEF FirstInv
    <3>2. h \in Seq(Nat) /\ Len(h) \in Nat /\ hashed'[s.file] = Append(h, s.index)
      BY <2>1, <3>1 DEF HashedTypes
    <3>3. CASE op[1][s.file] = "failed"
      <4>1. ASSUME NEW g \in Files PROVE FirstOf(g)'
        <5>1. CASE g = s.file
          BY <2>1, <3>1, <3>3, <5>1 DEF FirstOf
        <5>2. CASE g # s.file
          <6>1. /\ hashed'[g] = hashed[g]
                /\ \A i \in Indices : Slice(1, g, i) \in reading' <=> Slice(1, g, i) \in reading
            BY <2>1, <3>1, <5>2, SliceTypes DEF ReadEnds, HashedTypes
          <6> QED
            BY <2>1, <2>2, <3>1, <6>1 DEF FirstInv, FirstOf, InTurn
        <5> QED
          BY <5>1, <5>2
      <4> QED
        BY <2>1, <3>1, <4>1 DEF FirstInv
    <3>4. CASE op[1][s.file] # "failed"
      <4>1. InTurn(s.file)
        <5>1. op[1][s.file] \in OpStates
          BY <1>1, <3>1 DEF BatchTypes
        <5>2. op[1][s.file] \in {"reading", "closing", "done"}
          BY <3>1, <3>4, <5>1 DEF OpStates
        <5> QED
          BY <2>2, <3>1, <5>2 DEF FirstInv, FirstOf
      <4>2. s.index = Len(h) + 1
        <5>1. s.index > Len(h) /\ Len(h) + 1 \in Indices
          BY <1>1, <3>1, <3>2, <4>1 DEF InTurn, Indices
        <5>2. Slice(1, s.file, Len(h) + 1) \in reading
          BY <3>2, <4>1, <5>1 DEF InTurn
        <5>3. s.index <= Len(h) + 1
          BY <2>1, <2>2, <3>1, <5>2, SliceTypes DEF ReadEnds
        <5> QED
          BY <3>1, <3>2, <5>1, <5>3 DEF Indices
      <4>3. /\ Len(hashed'[s.file]) = Len(h) + 1
            /\ \A k \in DOMAIN hashed'[s.file] : hashed'[s.file][k] = k
        BY <3>2, <4>1, <4>2, NextHashed DEF InTurn
      <4>4. ASSUME NEW i \in Indices
            PROVE  Slice(1, s.file, i) \in reading' <=> i > Len(h) + 1
        BY <2>1, <3>1, <3>2, <4>1, <4>2, SliceTypes DEF ReadEnds, InTurn, Indices
      <4>5. Len(h) + 1 <= Chunks
        BY <3>1, <4>2 DEF Indices
      <4>6. InTurn(s.file)'
        BY <4>3, <4>4, <4>5 DEF InTurn
      <4>7. ASSUME NEW g \in Files PROVE FirstOf(g)'
        <5>1. CASE g = s.file
          BY <2>1, <3>1, <4>6, <5>1 DEF FirstOf
        <5>2. CASE g # s.file
          <6>1. /\ hashed'[g] = hashed[g]
                /\ \A i \in Indices : Slice(1, g, i) \in reading' <=> Slice(1, g, i) \in reading
            BY <2>1, <3>1, <5>2, SliceTypes DEF ReadEnds, HashedTypes
          <6> QED
            BY <2>1, <2>2, <3>1, <6>1 DEF FirstInv, FirstOf, InTurn
        <5> QED
          BY <5>1, <5>2
      <4> QED
        BY <2>1, <3>1, <4>7 DEF FirstInv
    <3> QED
      BY <3>3, <3>4
  <2> QED
    BY <2>1, <2>2 DEF FirstInv
<1>15. ASSUME NEW c \in Commits, NEW f \in Files, Opened(c, f) PROVE FirstInv'
  <2>1. /\ UNCHANGED <<last, pc, hashed>>
        /\ op[c][f] = "open" /\ op' = [op EXCEPT ![c][f] = "reading"]
    BY <1>15 DEF Opened
  <2>2. reading' = reading \union {Slice(c, f, i) : i \in Indices}
    BY <1>15 DEF Opened, Slice
  <2>3. ASSUME InOrder, last <= 1 PROVE FirstInv'
    <3>1. c = 1 /\ pc # "committing" /\ hashed[f] = <<>>
      BY <1>2, <2>1, <2>3 DEF FirstInv, FirstOf
    <3>2. ASSUME NEW g \in Files PROVE FirstOf(g)'
      <4>1. CASE g = f
        <5>1. /\ op'[1][f] = "reading" /\ hashed'[f] = <<>>
              /\ \A i \in Indices : Slice(1, f, i) \in reading' /\ i > 0
          BY <1>1, <2>1, <2>2, <3>1 DEF BatchTypes, Indices
        <5>2. InTurn(f)'
          BY <1>1, <5>1 DEF InTurn
        <5> QED
          BY <2>1, <3>1, <4>1, <5>1, <5>2 DEF FirstOf
      <4>2. CASE g # f
        <5>1. op'[1][g] = op[1][g]
          BY <1>1, <2>1, <3>1, <4>2 DEF BatchTypes
        <5>2. \A i \in Indices : Slice(1, g, i) \in reading' <=> Slice(1, g, i) \in reading
          BY <2>2, <3>1, <4>2, SliceTypes
        <5> QED
          BY <2>1, <2>3, <3>1, <5>1, <5>2 DEF FirstInv, FirstOf, InTurn
      <4> QED
        BY <4>1, <4>2
    <3> QED
      BY <2>1, <3>1, <3>2 DEF FirstInv
  <2> QED
    BY <2>1, <2>3 DEF FirstInv
<1>16. ASSUME NEW c \in Commits, NEW f \in Files, Closed(c, f) PROVE FirstInv'
  <2>1. /\ UNCHANGED <<last, reading, hashed>>
        /\ op[c][f] = "closing" /\ op' = [op EXCEPT ![c][f] = "done"]
        /\ \/ pc' = pc
           \/ pc' = "committing" /\ c = last /\ \A g \in Files : op'[c][g] = "done"
    BY <1>16 DEF Closed
  <2>2. ASSUME InOrder, last <= 1 PROVE FirstInv'
    <3>1. c = 1
      BY <1>2, <2>1, <2>2
    <3>2. /\ op'[1][f] = "done"
          /\ \A g \in Files : g # f => op'[1][g] = op[1][g]
      BY <1>1, <2>1, <3>1 DEF BatchTypes
    <3>3. CASE pc' = pc
      <4>1. ASSUME NEW g \in Files PROVE FirstOf(g)'
        BY <2>1, <2>2, <3>1, <3>2, <3>3 DEF FirstInv, FirstOf, InTurn
      <4> QED
        BY <2>1, <2>2, <3>3, <4>1 DEF FirstInv
    <3>4. CASE \A g \in Files : op'[1][g] = "done"
      <4>1. ASSUME NEW g \in Files
            PROVE  InTurn(g) /\ \A i \in Indices : Slice(1, g, i) \notin reading
        <5>1. op[1][g] \in {"closing", "done"}
          BY <2>1, <3>1, <3>2, <3>4
        <5>2. \A i \in Indices : Slice(1, g, i) \in stored
          BY <1>1, <5>1 DEF WholeInv, Whole
        <5> QED
          BY <2>2, <5>1, <5>2 DEF FirstInv, FirstOf, FreshInv, NotYet
      <4>2. reading = {}
        BY <1>3, <2>2, <4>1
      <4>3. ASSUME NEW g \in Files PROVE hashed[g] = [i \in Indices |-> i]
        <5>1. hashed[g] \in Seq(Nat) /\ Len(hashed[g]) \in Nat
          BY DEF HashedTypes
        <5>2. Len(hashed[g]) = Chunks
          BY <1>1, <4>1, <5>1, BatchAssumption DEF InTurn, Indices
        <5> QED
          BY <4>1, <5>1, <5>2, AllHashed DEF InTurn
      <4>4. ASSUME NEW g \in Files PROVE FirstOf(g)'
        BY <2>1, <3>4, <4>1, <4>3 DEF FirstOf, InTurn
      <4> QED
        BY <2>1, <4>2, <4>4 DEF FirstInv
    <3> QED
      BY <2>1, <3>1, <3>3, <3>4
  <2> QED
    BY <2>1, <2>2 DEF FirstInv
<1> QED
  BY <1>1, <1>4, <1>5, <1>6, <1>7, <1>8, <1>9, <1>11, <1>12, <1>13, <1>14, <1>15, <1>16, ManagerMoves
     DEF BatchNext, Step

\* The hash that a first commit() sends for a file is that of its content, for any
\* files and chunks, when the reads of a file end in the order they were issued.
THEOREM FirstCommitHashesContent == ManagerSpec => []FirstHashesContent
<1> DEFINE I == WholeInv /\ FreshInv /\ HashedTypes /\ FirstInv
<1>1. ManagerInit => I
  <2> HAVE ManagerInit
  <2>1. Known = {}
    BY DEF ManagerInit, BatchInit, Init, Known
  <2>2. /\ \A c \in Commits, f \in Files : op[c][f] = "none"
        /\ stored = {} /\ reading = {} /\ pc = "idle" /\ hashed = [f \in Files |-> <<>>]
    BY DEF ManagerInit, BatchInit
  <2>3. WholeInv
    BY <2>1, <2>2, ManagerInvInit DEF WholeInv
  <2>4. FreshInv
    BY <2>1, <2>2 DEF FreshInv, FreshOf, NotYet
  <2>5. HashedTypes
    BY <2>2 DEF HashedTypes
  <2>6. 1 \in Commits
    BY BatchAssumption DEF Commits
  <2>7. FirstInv
    BY <2>2, <2>6 DEF FirstInv, FirstOf
  <2> QED
    BY <2>3, <2>4, <2>5, <2>7
<1>2. I /\ [ManagerNext]_everything => I'
  BY WholeStep, FreshStep, HashedTypesStep, FirstStep DEF WholeInv, ManagerInv
<1>3. I => FirstHashesContent
  BY DEF FirstInv, FirstOf, FirstHashesContent, HashesContent
<1> QED
  BY <1>1, <1>2, <1>3, PTL DEF ManagerSpec
=============================================================================
