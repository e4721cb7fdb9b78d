---------------------------- MODULE AssetManager ----------------------------
(***************************************************************************)
(* AssetManager and Asset (packages/assets/src/index.ts): beside the batch *)
(* of AssetBatch a manager stores small files in one request and hands out *)
(* assets, whose chunks are fetched later.  All of them share the executor *)
(* of Limit, except for the chunks that verifySha256 asks for through an   *)
(* executor of its own, of one slot.  An asset remembers what get() said   *)
(* of the content; by the time its chunks are fetched the canister may     *)
(* have another one.                                                       *)
(***************************************************************************)
EXTENDS AssetBatch

CONSTANTS
  Readers,     \* assets handed out by get()
  More,        \* chunks of the asset after the first one, which get() returns
  Plans,       \* what the application does: see Plan
  MaxVersions  \* bound: contents the asset ever has

\* commits: calls of commit(); single: whether it stores a small file; readers: the
\* assets it gets, and how it reads each: to collect its chunks, or to hash them.
Plan == [commits : 0 .. MaxCommits, single : BOOLEAN,
         readers : [Readers -> {"none", "collect", "hash"}]]

GetChunk(r, i) == [kind |-> "get_chunk", reader |-> r, index |-> i]
StoreFile      == [kind |-> "store"]

ManagerJobs ==
  BatchJobs \union {StoreFile} \union {GetChunk(r, i) : r \in Readers, i \in 1 .. More}

ASSUME ManagerAssumption ==
  /\ More \in Nat /\ MaxVersions \in Nat \ {0}
  /\ Plans \subseteq Plan
  /\ Jobs = ManagerJobs

VARIABLES
  plan,      \* what the application does
  single,    \* where store() of a small file is
  version,   \* the content the canister has
  hasHash,   \* whether the canister keeps a hash of the content
  rpc,       \* where each reader is suspended
  asset,     \* the content each asset was got from
  asked,     \* chunks each reader has asked for
  own,       \* jobs of the executor a reader has for itself; the first one runs
  chunks     \* calls of onChunk: index and content of the chunk, in order

readVars    == <<rpc, asset, asked, own, chunks>>
managerVars == <<plan, single, version, hasHash, readVars>>
everything  == <<allVars, managerVars>>

RPCs == {"idle", "get", "asking", "chunks", "closing", "done", "failed"}

ManagerInit ==
  /\ BatchInit
  /\ plan \in Plans /\ hasHash \in BOOLEAN
  /\ single = "idle" /\ version = 1
  /\ rpc = [r \in Readers |-> "idle"]
  /\ asset = [r \in Readers |-> 0] /\ asked = [r \in Readers |-> 0]
  /\ own = [r \in Readers |-> <<>>] /\ chunks = [r \in Readers |-> <<>>]

\* The content of the asset changes.
Rewrite == version' = IF version < MaxVersions THEN version + 1 ELSE version

(***************************************************************************)
(* store() and the batch                                                   *)
(***************************************************************************)

\* A small file is opened, read, closed and sent inside one slot.
Store ==
  /\ plan.single /\ single = "idle"
  /\ single' = "storing" /\ Submit(StoreFile)
  /\ UNCHANGED <<batchVars, plan, version, hasHash, readVars>>

Stored ==
  /\ single = "storing" /\ JobSettles(StoreFile)
  /\ \/ single' = "done" /\ Rewrite
     \/ single' = "failed" /\ UNCHANGED version
  /\ UNCHANGED <<batchVars, plan, hasHash, readVars>>

BatchCommit == Commit /\ last' <= plan.commits /\ UNCHANGED managerVars

\* A step of the batch; the content changes when the canister commits it, whether or
\* not the client hears of it.
BatchStep ==
  /\ Step
  /\ IF pc = "committing" /\ pc' = "done" THEN Rewrite
     ELSE IF pc = "committing" /\ pc' = "failed" THEN Rewrite \/ UNCHANGED version
     ELSE UNCHANGED version
  /\ UNCHANGED <<plan, single, hasHash, readVars>>

\* Somebody else stores the asset.
Replace ==
  /\ version < MaxVersions /\ Rewrite
  /\ UNCHANGED <<allVars, plan, single, hasHash, readVars>>

(***************************************************************************)
(* get() and getChunks()                                                   *)
(***************************************************************************)

\* Mutant: verifySha256 fetches its chunks as the other readers do.
SharedExecutor(r) == FALSE

\* getChunks(onChunk, true) has an executor of its own with one slot.
Sequential(r) == plan.readers[r] = "hash"

Go(r, label) == rpc' = [rpc EXCEPT ![r] = label]

\* get() asks the canister without a slot.
Get(r) ==
  /\ plan.readers[r] # "none" /\ rpc[r] = "idle" /\ Go(r, "get")
  /\ UNCHANGED <<allVars, plan, single, version, hasHash, asset, asked, own, chunks>>

\* onChunk(i, content)
OnChunk(r, i, v) == chunks' = [chunks EXCEPT ![r] = Append(@, [index |-> i, version |-> v])]

\* The asset is there, and getChunks() begins with the chunk that came with it.
Got(r) ==
  /\ rpc[r] = "get"
  /\ \/ /\ Go(r, "asking")
        /\ asset' = [asset EXCEPT ![r] = version]
        /\ OnChunk(r, 0, version)
     \/ Go(r, "failed") /\ UNCHANGED <<asset, chunks>>
  /\ UNCHANGED <<allVars, plan, single, version, hasHash, asked, own>>

\* The next chunk is asked for: a job of the shared executor, or of the reader's own.
Ask(r) ==
  /\ rpc[r] = "asking" /\ asked[r] < More
  /\ asked' = [asked EXCEPT ![r] = @ + 1]
  /\ IF Sequential(r)
       THEN own' = [own EXCEPT ![r] = Append(@, asked'[r])] /\ UNCHANGED limitVars
       ELSE Submit(GetChunk(r, asked'[r])) /\ UNCHANGED own
  /\ UNCHANGED <<batchVars, plan, single, version, hasHash, rpc, asset, chunks>>

\* Every chunk is asked for; without more chunks Promise.all is through.
Asked(r) ==
  /\ rpc[r] = "asking" /\ asked[r] = More
  /\ Go(r, IF Len(chunks[r]) <= More THEN "chunks" ELSE "closing")
  /\ UNCHANGED <<allVars, plan, single, version, hasHash, asset, asked, own, chunks>>

\* Mutant: the request does not say of which content the chunk is.
HashLeftOut(r) == FALSE

\* A request for a chunk carries the hash that came with the asset, if any.
HashSent(r) == hasHash

\* The canister serves a chunk of the content it has; asked with the hash of another
\* content it refuses.
Served(r) == HashSent(r) => asset[r] = version

\* The answer to get_chunk.  The last one ends Promise.all.  A failed chunk rejects it,
\* but its executor goes on with the jobs that are queued, and onChunk is called.
ChunkReceived(r, i) ==
  /\ Served(r)
  /\ OnChunk(r, i, version)
  /\ \/ rpc[r] = "failed" /\ UNCHANGED rpc
     \/ /\ rpc[r] = "chunks"
        /\ IF Len(chunks'[r]) = More + 1 THEN Go(r, "closing") ELSE UNCHANGED rpc
  /\ UNCHANGED <<batchVars, plan, single, version, hasHash, asset, asked>>

ChunkFails(r) ==
  /\ rpc[r] \in {"chunks", "failed"} /\ Go(r, "failed")
  /\ UNCHANGED <<batchVars, plan, single, version, hasHash, asset, asked, chunks>>

\* The running job of the reader's own executor settles, and the next one starts.
OwnSettles(r, i) ==
  /\ own[r] # <<>> /\ Head(own[r]) = i
  /\ own' = [own EXCEPT ![r] = Tail(@)]
  /\ UNCHANGED limitVars

ChunkAnswered(r) ==
  \E i \in 1 .. More :
    /\ OwnSettles(r, i) \/ (JobSettles(GetChunk(r, i)) /\ UNCHANGED own)
    /\ ChunkReceived(r, i) \/ ChunkFails(r)

\* The reader puts its chunks together, or compares the hash.
ReadDone(r) ==
  /\ rpc[r] = "closing" /\ Go(r, "done")
  /\ UNCHANGED <<allVars, plan, single, version, hasHash, asset, asked, own, chunks>>

ReadStep(r) ==
  Got(r) \/ Ask(r) \/ Asked(r) \/ ChunkAnswered(r) \/ ReadDone(r)

\* A reader asks for all its chunks before anything else happens.
Asking == \E r \in Readers : rpc[r] = "asking"

ManagerNext ==
  \/ \E r \in Readers : Ask(r) \/ Asked(r)
  \/ /\ ~Asking
     /\ \/ Replace \/ Store \/ Stored \/ BatchCommit \/ BatchStep
        \/ \E r \in Readers :
             Get(r) \/ Got(r) \/ ChunkAnswered(r) \/ ReadDone(r)

ManagerSpec == ManagerInit /\ [][ManagerNext]_everything

\* Requests are answered, reads end and microtasks run.
ManagerFairSpec ==
  /\ ManagerSpec
  /\ WF_everything(BatchStep) /\ WF_everything(Stored)
  /\ \A r \in Readers : WF_everything(ReadStep(r))

(***************************************************************************)
(* Properties                                                              *)
(***************************************************************************)

\* What is collected in memory is every chunk, once, of a single content if the
\* canister keeps its hash: a content that changes meanwhile is not mixed in.
CollectsOneContent ==
  \A r \in Readers :
    plan.readers[r] = "collect" /\ rpc[r] = "done" =>
      /\ Len(chunks[r]) = More + 1
      /\ {chunks[r][k].index : k \in DOMAIN chunks[r]} = 0 .. More
      /\ hasHash => \A k \in DOMAIN chunks[r] : chunks[r][k].version = asset[r]

\* verifySha256 updates its hasher with the chunks in the order of the content: with
\* every one of them, up to the last, unless one has failed and the hash is thrown
\* away; but the chunks after that one, which its executor still fetches, neither
\* repeat one nor come before one that was there.
HashesInOrder ==
  \A r \in Readers :
    plan.readers[r] = "hash" =>
      /\ \A k, l \in DOMAIN chunks[r] : k < l => chunks[r][k].index < chunks[r][l].index
      /\ rpc[r] # "failed" => \A k \in DOMAIN chunks[r] : chunks[r][k].index = k - 1
      /\ rpc[r] = "done" => Len(chunks[r]) = More + 1

\* Every reader gets its asset or an error, although its requests wait for the slots
\* the batch and the other readers use.
ReadersSettle == \A r \in Readers : rpc[r] = "get" ~> rpc[r] \in {"done", "failed"}
=============================================================================
