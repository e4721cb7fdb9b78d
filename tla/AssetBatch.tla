----------------------------- MODULE AssetBatch -----------------------------
(***************************************************************************)
(* AssetManagerBatch (packages/assets/src/index.ts): files are stored in a *)
(* batch and commit() uploads them.  commit() creates a batch on the       *)
(* canister, then runs the scheduled operation of every file at the same   *)
(* time: it opens the file, reads all its chunks, hashes each as its read  *)
(* ends, and uploads it as a job of the executor of Limit, which the whole *)
(* AssetManager shares.  When all operations are through, the batch is     *)
(* committed.  What fails is not undone: what other reads and jobs have    *)
(* under way goes on, and commit() may be called again.                    *)
(***************************************************************************)
EXTENDS Limit

CONSTANTS
  Files,      \* files stored in the batch, whose hash is not given
  Chunks,     \* chunks of each file
  MaxCommits, \* bound: calls of commit(), one after the other
  InOrder     \* whether the reads of a file end in the order they were issued

Commits == 1 .. MaxCommits
Indices == 1 .. Chunks

CreateBatch(c)   == [kind |-> "create_batch", commit |-> c]
CreateChunk(s)   == [kind |-> "create_chunk", slice |-> s]
CommitBatch(c)   == [kind |-> "commit_batch", commit |-> c]

\* A chunk of a file, in one call of commit().
Slices == [commit : Commits, file : Files, index : Indices]

BatchJobs ==
  {CreateBatch(c) : c \in Commits} \union {CommitBatch(c) : c \in Commits}
    \union {CreateChunk(s) : s \in Slices}

ASSUME BatchAssumption ==
  /\ Chunks \in Nat \ {0} /\ MaxCommits \in Nat \ {0} /\ InOrder \in BOOLEAN
  /\ BatchJobs \subseteq Jobs

VARIABLES
  last,     \* calls of commit() so far
  pc,       \* where the last one is suspended
  op,       \* where the operation of each file is, in each call of commit()
  reading,  \* slices being read
  stored,   \* slices the canister stored and the client knows of
  hashed,   \* of each file: the chunks its hasher was updated with, in order
  digested, \* files whose hasher was digested; it takes no update after that
  paths,    \* files that are read from a path; the others are in memory
  opened    \* paths whose ReadablePath has a file descriptor; it keeps it for good

limitVars == <<queue, active, running, releasing, settled, submitted, started>>
batchVars == <<last, pc, op, reading, stored, hashed, digested, paths, opened>>
allVars   == <<limitVars, batchVars>>

OpStates == {"none", "open", "reading", "closing", "done", "failed"}

BatchInit ==
  /\ Init
  /\ last = 0 /\ pc = "idle"
  /\ op = [c \in Commits |-> [f \in Files |-> "none"]]
  /\ reading = {} /\ stored = {} /\ digested = {}
  /\ hashed = [f \in Files |-> <<>>]
  /\ paths \in SUBSET Files /\ opened = {}

\* commit() is called, for the first time or after it failed.
Commit ==
  /\ pc \in {"idle", "failed"} /\ last < MaxCommits
  /\ last' = last + 1 /\ pc' = "creating"
  /\ Submit(CreateBatch(last'))
  /\ UNCHANGED <<op, reading, stored, hashed, digested, paths, opened>>

\* The answer to create_batch: every scheduled operation begins.  open() rejects at
\* once if the ReadablePath has a descriptor: close() does not forget it.
Created ==
  /\ pc = "creating" /\ JobSettles(CreateBatch(last))
  /\ \/ /\ pc' = IF opened = {} THEN "uploading" ELSE "failed"
        /\ op' = [op EXCEPT ![last] =
                    [f \in Files |-> IF f \in opened THEN "failed" ELSE "open"]]
     \/ pc' = "failed" /\ UNCHANGED op
  /\ UNCHANGED <<last, reading, stored, hashed, digested, paths, opened>>

\* Mutant: the error of an operation is swallowed.
RejectsSilently(c, f) == op' = [op EXCEPT ![c][f] = "failed"] /\ pc' = pc

\* An operation rejects, and with it the Promise.all of its commit().
Rejects(c, f) ==
  /\ op' = [op EXCEPT ![c][f] = "failed"]
  /\ pc' = IF c = last /\ pc = "uploading" THEN "failed" ELSE pc

\* The file is open: all its slices are read at once.  An open() of an earlier call
\* may have been under way beside this one.
Opened(c, f) ==
  /\ op[c][f] = "open"
  /\ opened' = IF f \in paths THEN opened \union {f} ELSE opened
  /\ op' = [op EXCEPT ![c][f] = "reading"]
  /\ reading' = reading \union [commit : {c}, file : {f}, index : Indices]
  /\ UNCHANGED <<limitVars, last, pc, stored, hashed, digested, paths>>

\* The file is gone.
OpenFails(c, f) ==
  /\ op[c][f] = "open" /\ Rejects(c, f)
  /\ UNCHANGED <<limitVars, last, reading, stored, hashed, digested, paths, opened>>

\* The read of a slice ends, well or not.
ReadEnds(s) ==
  /\ s \in reading
  /\ InOrder => \A r \in reading :
                  r.commit = s.commit /\ r.file = s.file => r.index >= s.index
  /\ reading' = reading \ {s}

\* Mutant: the hash leaves the chunk out.
HashSkipped(s) ==
  /\ ReadEnds(s) /\ s.file \notin digested /\ pc # "done"
  /\ hashed' = hashed
  /\ Submit(CreateChunk(s))
  /\ UNCHANGED <<last, pc, op, stored, digested, paths, opened>>

\* A slice was read: it is hashed, and its upload is queued.  After a successful
\* commit() the hashers are gone.
Hash(s) ==
  /\ ReadEnds(s) /\ s.file \notin digested /\ pc # "done"
  /\ hashed' = [hashed EXCEPT ![s.file] = Append(@, s.index)]
  /\ Submit(CreateChunk(s))
  /\ UNCHANGED <<last, pc, op, stored, digested, paths, opened>>

\* The read failed, or the hasher throws because it was digested or is gone.
ReadFails(s) ==
  /\ ReadEnds(s) /\ Rejects(s.commit, s.file)
  /\ UNCHANGED <<limitVars, last, stored, hashed, digested, paths, opened>>

\* Mutant: a chunk that failed counts as uploaded.
UploadedUnchecked(s) ==
  LET done == stored \union {s}
  IN  /\ JobSettles(CreateChunk(s)) /\ pc # "done"
      /\ stored' \in {stored, done}
      /\ op' = IF /\ \A i \in Indices : [s EXCEPT !.index = i] \in done
                  /\ op[s.commit][s.file] = "reading"
                 THEN [op EXCEPT ![s.commit][s.file] = "closing"] ELSE op
      /\ UNCHANGED <<last, pc, reading, hashed, digested, paths, opened>>

\* create_chunk answered; the last chunk of a file lets its operation close it.
Uploaded(s) ==
  LET done == stored \union {s}
  IN  /\ JobSettles(CreateChunk(s)) /\ pc # "done"
      /\ stored' = done
      /\ op' = IF /\ \A i \in Indices : [s EXCEPT !.index = i] \in done
                  /\ op[s.commit][s.file] = "reading"
                 THEN [op EXCEPT ![s.commit][s.file] = "closing"] ELSE op
      /\ UNCHANGED <<last, pc, reading, hashed, digested, paths, opened>>

\* create_chunk failed, or a later commit() succeeded and took _progress away.
UploadFails(s) ==
  /\ JobSettles(CreateChunk(s)) /\ Rejects(s.commit, s.file)
  /\ UNCHANGED <<last, reading, stored, hashed, digested, paths, opened>>

\* The file is closed and its hash taken; the last operation of a commit() that
\* did not fail submits commit_batch.
Closed(c, f) ==
  /\ op[c][f] = "closing" /\ f \notin digested /\ pc # "done"
  /\ digested' = digested \union {f}
  /\ op' = [op EXCEPT ![c][f] = "done"]
  /\ IF c = last /\ pc = "uploading" /\ \A g \in Files : op'[c][g] = "done"
       THEN pc' = "committing" /\ Submit(CommitBatch(c))
       ELSE UNCHANGED <<limitVars, pc>>
  /\ UNCHANGED <<last, reading, stored, hashed, paths, opened>>

\* close() fails, or the hash was taken before.
CloseFails(c, f) ==
  /\ op[c][f] = "closing" /\ Rejects(c, f)
  /\ UNCHANGED <<limitVars, last, reading, stored, hashed, digested, paths, opened>>

Committed ==
  /\ pc = "committing" /\ JobSettles(CommitBatch(last))
  /\ pc' \in {"done", "failed"}
  /\ UNCHANGED <<last, op, reading, stored, hashed, digested, paths, opened>>

SlotFree == (\E j \in Jobs : Release(j)) /\ UNCHANGED batchVars

Step ==
  \/ Created \/ Committed \/ SlotFree
  \/ \E s \in reading : Hash(s) \/ ReadFails(s)
  \/ \E s \in Slices : Uploaded(s) \/ UploadFails(s)
  \/ \E c \in Commits, f \in Files :
       Opened(c, f) \/ OpenFails(c, f) \/ Closed(c, f) \/ CloseFails(c, f)

BatchNext == Commit \/ Step

BatchSpec == BatchInit /\ [][BatchNext]_allVars

(***************************************************************************)
(* Properties                                                              *)
(***************************************************************************)

\* commit_batch is sent only when every chunk of every file is stored in the
\* batch of the same call, whatever an earlier, failed call still has under way.
CommitsWhole ==
  \A c \in Commits :
    CommitBatch(c) \in Known => [commit : {c}, file : Files, index : Indices] \subseteq stored

\* The hash sent for a file is that of its content.
HashesContent ==
  pc = "committing" => \A f \in Files : hashed[f] = [i \in Indices |-> i]

\* That holds when the reads of a file end in order and commit() did not fail before.
FirstHashesContent == InOrder /\ last = 1 => HashesContent

\* Every call of commit() returns or throws, although its jobs share the executor
\* with those an earlier call left behind.
CommitSettles == pc = "creating" ~> pc \in {"done", "failed"}
=============================================================================
