------------------------------- MODULE Limit -------------------------------
(***************************************************************************)
(* The promise executor with a concurrency limit                           *)
(* (packages/assets/src/utils/limit.ts).  A job is a function that returns *)
(* a promise.  Its submitter's promise settles with the job's, and only    *)
(* some microtasks later (.then(resolve).catch(reject).then(release)) does *)
(* the job give its slot back: whatever is submitted in between is queued. *)
(***************************************************************************)
EXTENDS Naturals, Sequences, FiniteSets

CONSTANTS
  Jobs,         \* the functions that will be submitted
  Concurrency   \* the limit

ASSUME LimitAssumption == Concurrency \in Nat \ {0}

VARIABLES
  queue,      \* jobs waiting for a slot
  active,     \* the counter of slots in use
  running,    \* jobs whose promise is pending
  releasing,  \* jobs whose promise has settled, with their slot not given back
  settled,    \* jobs that gave their slot back
  submitted,  \* history: the jobs in the order of their submission
  started     \* history: the jobs in the order of their start

vars == <<queue, active, running, releasing, settled, submitted, started>>

Known == running \union releasing \union settled
           \union {queue[i] : i \in DOMAIN queue}

Init ==
  /\ queue = <<>> /\ active = 0
  /\ running = {} /\ releasing = {} /\ settled = {}
  /\ submitted = <<>> /\ started = <<>>

\* next(), with the queue q and the counter a it finds.
NextJob(q, a) ==
  IF a < Concurrency /\ q # <<>>
    THEN /\ active' = a + 1
         /\ queue' = Tail(q)
         /\ running' = running \union {Head(q)}
         /\ started' = Append(started, Head(q))
    ELSE /\ active' = a /\ queue' = q
         /\ UNCHANGED <<running, started>>

\* Mutant: a job that finds a free slot overtakes the queue.
SubmitOvertaking(j) ==
  /\ j \notin Known
  /\ submitted' = Append(submitted, j)
  /\ NextJob(<<j>> \o queue, active)
  /\ UNCHANGED <<releasing, settled>>

\* The function limit() returns.
Submit(j) ==
  /\ j \notin Known
  /\ submitted' = Append(submitted, j)
  /\ NextJob(Append(queue, j), active)
  /\ UNCHANGED <<releasing, settled>>

\* Mutant: only a fulfilled promise gives its slot back.
JobSettlesFulfilled(j) ==
  /\ j \in running
  /\ running' = running \ {j}
  /\ \E fulfilled \in BOOLEAN :
       releasing' = IF fulfilled THEN releasing \union {j} ELSE releasing
  /\ UNCHANGED <<queue, active, settled, submitted, started>>

\* The promise of the job settles, and with it the submitter's.
JobSettles(j) ==
  /\ j \in running
  /\ running' = running \ {j}
  /\ releasing' = releasing \union {j}
  /\ UNCHANGED <<queue, active, settled, submitted, started>>

\* Mutant: the slot is given back without starting the next job.
ReleaseOnly(j) ==
  /\ j \in releasing
  /\ releasing' = releasing \ {j}
  /\ settled' = settled \union {j}
  /\ active' = active - 1
  /\ UNCHANGED <<queue, running, submitted, started>>

Release(j) ==
  /\ j \in releasing
  /\ releasing' = releasing \ {j}
  /\ settled' = settled \union {j}
  /\ NextJob(queue, active - 1)
  /\ UNCHANGED submitted

Next == \E j \in Jobs : Submit(j) \/ JobSettles(j) \/ Release(j)

Spec == Init /\ [][Next]_vars

(***************************************************************************)
(* Properties                                                              *)
(***************************************************************************)

\* Types, and the counter agrees with the jobs that hold a slot.
TypeOK ==
  /\ queue \in Seq(Jobs) /\ submitted \in Seq(Jobs) /\ started \in Seq(Jobs)
  /\ running \subseteq Jobs /\ releasing \subseteq Jobs /\ settled \subseteq Jobs
  /\ active = Cardinality(running) + Cardinality(releasing)

\* No more than Concurrency jobs run at the same time, and none waits while a
\* slot is free, although next() starts one job at a time and runs at every
\* submission and every release.
Saturated ==
  /\ active <= Concurrency
  /\ queue # <<>> => active = Concurrency

\* Jobs start in the order they were submitted: chunks asked for with a limit
\* of one arrive in order.
StartsInOrder == started \o queue = submitted
=============================================================================
