# TLA+ verification of agent-js

Specifications, model-checking configurations and machine-checked proofs for the packages of
this repository: the HTTP agent, its certificates and actors, the encoding of Candid, the client
of the identity provider with its React hook, and the asset manager. A path without a directory
below is relative to `src/packages/`.

    tlc -config AgentQuery.cfg MCAgentQuery      model-check a run
    tlapm AgentQueryProofs.tla                   check a module's proofs

`PROJECT.json` lists the components, the runs, the lines of source every definition models, for
each checked property a mutation of the code that breaks it, the hazards of the code, the
disagreements found and the theorems.

## 1. The system

agent-js is a set of libraries that run in one JavaScript thread. What is concurrent there are
*promises*: a function runs from one `await` to the next without being disturbed, and between
two of them any other call of the program, a timer, a network answer or an event may run. State
lives in objects that such calls share.

| Component | State it keeps | Operations | Interacts with | What makes it correct |
|---|---|---|---|---|
| HttpAgent, update calls (`agent/src/agent/http/index.ts`) | identity, `#hasSyncedTime`, `#timeDiffMsecs`, `#syncTimePromise`; per call the request, its id, tries, backoff | `call`, `syncTime`, `replaceIdentity`, `invalidateIdentity` | replica over `fetch`; canister status for the time | executed at most once unless refused for its expiry; boundedly many requests; ends; expiry within the replica's window |
| HttpAgent, queries | `#subnetKeys` (an ExpirableMap), `#verifyQuerySignatures`; per query tries and response | `query`, `fetchSubnetKeys` | replica; canister status for the node keys; other queries over the cache | accepted only with recent keys; not rejected with stale ones; ends |
| read_state, status, fetchRootKey | `#rootKeyPromise`, `#waterMark` | `createReadStateRequest`, `readState`, `fetchRootKey`, the guards | certificates, polling | a shared promise is not cleared under a newer caller |
| Polling (`agent/src/polling`) | the strategy's closure: first, throttle, end; the signed request carried along | `pollForResponse` | `readState`; strategies shared by actors | times out neither early nor late; one signature; ends |
| Certificate (`agent/src/certificate.ts`) | the certificate, its delegation, whether the time was synced | `create`, `verify`, `lookup_path` | agent's time; root key | accepted only if signed for the canister and recent; recent ones not rejected |
| Hash tree | none | `reconstruct`, `find_label`, `lookup_path`, `lookup_subtree` | certificates | absence is only claimed when certain |
| Canister status (`agent/src/canisterStatus`) | none | `request`, `fetchNodeKeys` | read_state | errors that must not be swallowed |
| ExpirableMap | entries with a time | `set`, `get`, `delete`, `prune` | queries | an expired entry is never returned |
| Actor (`agent/src/actor.ts`) | its configuration; per call the response | a method per service method | call, query, certificates, polling, Candid | a value is returned only when the canister replied, a reject thrown only when it rejected; ends |
| AuthClient, session (`auth-client/src/index.ts`) | `_key`, `_chain`, `_identity`; storage shared by pages | `create`, `login`'s success, `logout`, idle logout | IndexedDB, localStorage, idle manager | a delegation belongs to the client's key, in memory and stored |
| AuthClient, login window | `_idpWindow`, `_eventHandler` | `login`, the message handler, the check for a closed window | the provider's page by `postMessage`, the user | one login at a time; each is answered |
| IdleManager (`auth-client/src/idleManager.ts`) | callbacks, timer, listeners | `create`, `registerCallback`, `_resetTimer`, `exit` | AuthClient, the hook, DOM events | a page that is logged in is watched |
| Limit (`assets/src/utils/limit.ts`) | queue, counter | submit, next | asset manager | limit kept, no idle slot, order kept |
| AssetManagerBatch (`assets/src/index.ts`) | scheduled operations, hashers, progress | `store`, `commit` | Limit, asset canister, readables | commits only complete files with their right hash; ends |
| AssetManager, Asset, Readables | the limit; what `get()` said of a content; a file's descriptor | `store`, `get`, `getChunks`, `write`, `list`, `isCertified` | asset canister, file system | chunks of one content, hashed in order; ends |
| Delegations, keys (`identity`, `identity-secp256k1`) | keys | create, sign, validity | auth client, agent | expiry and scopes respected |
| Candid (`candid/src/idl.ts`, `utils`) | type tables; the subtype cache of a message; the pipe's position | `encode`, `decode`, `subtype` | actors | decoding inverts encoding; a subtype decodes at its supertype; skipping a value leaves the next ones readable; the cache tells only what holds |
| Principal | bytes | text forms, order | everything | text round trip |
| use-auth-client | React state and refs | effects, `login`, `logout` | AuthClient, actors | what is shown is what the client is; the actor signs with the identity shown |
| Observable, CBOR, DER, request id, errors, candid UI, migrate, core, bls-verify, docs | little or none | codecs, logging, tooling | | |

**What is hard here.**
*Concurrency*: a value read before an `await` and used after it (the identity of a call, the
cached keys of a subnet, the clock correction of a certificate, the window of a login); promises
that several callers share (`syncTime`, `fetchRootKey`); objects with state that are shared
although they look like options (polling strategies, hashers, the upload executor).
*Failure*: a lost answer to a request that was accepted, boundary nodes that serve different
protocol versions, a store that refuses, one chunk of many that fails while the others go on,
reads whose errors are swallowed.
*Ordering*: late answers to requests that were given up, messages of an earlier window, reads
that end out of order, actors created by promises that nobody cancels, microtasks between a
promise's settlement and its handlers.
*Long sequences of legal calls*: login, logout, login and reload on one store; a second
`commit()` after a failed one; a message whose fields, options and references have to be skipped
one within the other without losing the place; a cache of assumptions that outlives the
comparison it was made for.
*Time*: wrong clocks, expiries that are rounded, caches, timeouts, a retry that meets an answer
on its way, a synchronisation that finds no time.

## 2. Modules

| Module | Models | Kind |
|---|---|---|
| `AgentCall` | update calls, synchronisation, identity | state machine |
| `AgentQuery` (extends `ExpirableMap`) | queries and the cache of node keys | state machine |
| `ExpirableMap` | the cache's operations | operators |
| `Polling` | polls and strategies | state machine |
| `Call` | what a method promises its caller | abstract specification |
| `Actor` (extends `Polling`, instantiates `Call`) | the methods of an actor | composition and refinement |
| `HashTree` | hash trees and lookups, with a reference definition | operators |
| `Certificate` (extends `HashTree`) | verification of one certificate | state machine |
| `CertifiedState` (extends `Certificate`) | the two together: what a program may rely on | composition |
| `Leb128` | the pipe, LEB128 and fixed integers | operators and recursive functions |
| `CandidTypes` | types, one comparison of the subtype check, the relations it knows | operators |
| `SubtypeCache` (extends `CandidTypes`) | the exported subtype check and its cache, comparison by comparison | state machine |
| `CandidEncode` (extends `Leb128`, `CandidTypes`) | values, the type table, `encode` | recursive operators |
| `Candid` (extends `CandidEncode`, `SubtypeCache`) | `decode` and the life of a message beside the questions to the subtype check; subtyping as a greatest fixed point | composition |
| `AuthSession` | key and delegation, in memory and stored | state machine |
| `AuthPage` (extends `AuthSession`) | the idle manager, the plain page and the hook | composition |
| `AuthLogin` | the login window | state machine |
| `Limit` | the executor | state machine |
| `AssetBatch` (extends `Limit`) | a batch whose requests are jobs of the executor | composition |
| `AssetManager` (extends `AssetBatch`) | small files and the reading of assets beside a batch | composition |
| `AgentCallProofs`, `AgentQueryProofs`, `ActorProofs`, `CertificateProofs`, `AuthPageProofs`, `AuthLoginProofs`, `AssetProofs`, `CandidProofs` | theorems | proofs |
| `MC...` | values of the constants for TLC | instances |

Conventions. An action is the code from one `await` that can last (a fetch, a timer, a
signature, a storage operation) to the next, with every call made in between; promises that are
already settled are not waited for. A `pc` says where a call is suspended. Time is discrete, and
`Tick` is always possible up to a bound. A definition named "Mutant" is a plausible error of the
code, used only to show that a property can fail; it is no part of the specification.

### AgentCall

`Init` is the constructor. `StartCall` is `call()` up to its first wait (`Enter`, the
`#asyncGuard`): it joins a fetch of the root key if there is none, or throws if the agent may
not fetch one (`JoinKey`, `KeyFetched`, `KeyThrows`), joins a synchronisation if the agent needs
one (`JoinSync`) and captures the identity. `Build` makes the nonce and the expiry, `Signed` and
`SignRejected` end the signature. `Resend`, `Retry`, `FetchRejected`, `AnswerOk`, `AnswerError`
are `#requestAndRetry` with its backoff; `AnswerNotFound` is the fallback to the v2 endpoint
when v3 answers 404, `AnswerExpiry` and `Reenter` the refusal of an expiry, followed by a
synchronisation and the call of `call()` by itself. `SyncOk`, `SyncNone`, `SyncThrow` are the
three ways in which `syncTime()` ends: "None" is the one where the canister-status reads failed
and their errors were swallowed; a call that comes back from it is counted as `fruitless`. A 200
may have a body that certifies nothing (`RejectUncertified`): a replica refused the call, none
accepted it, and `call()` returns all the same. So that a call returned says nothing of its
execution; what its body says is for `Actor`. The replica is the environment: messages in the
set `net` are accepted, refused or lost, in any order; `ingress` is the history of what was
executed (a request id only once, as the replica deduplicates them). A request id is the call,
the attempt, the nonce and the expiry, for which it is a hash.

### AgentQuery and ExpirableMap

A query runs two promises at the same time, and both are here: `ask` is the request with its
retries (`AskRejected`, `Outdated`, `Unsigned`, `Responded`), `keys` the node keys (`Found`,
`KeysAnswered`, `KeysMissing`, `KeysThrow`). `Verify` happens when both are there; `Refresh` is
the deletion of the cached entry and the second fetch. A node set is a number, certified at some
time; the nodes rotate, and a node that left may still answer. A fetch that a query gave up
still fills the cache when it is answered, as it does in the code. A fetch of node keys need not
end: the certificate it verifies may ask for the time again and again.

### Polling

Each poll has its options and a strategy object. `StrategyOf` says which: one of its own, which
an actor makes with the options of the call (`Make`), before the call is sent and perhaps long
before the poll begins (`Start`); the one of `DEFAULT_POLLING_OPTIONS`, as old as the module; or
none, in which case every iteration makes a new one. A strategy remembers when it was `made`,
because its age, and not the poll's, decides the timeout. An iteration is `Reuse` or `Sign` (the
request), the read (`ReadFails`, `ReadOutcome`, `ReadPending`), then the strategy's delay and
backoff (`DelayOver`, `BackoffOver`), which also decides the timeout. The status of a request
advances on the replicas (`Progress`) and a poll may be answered by one that lags behind.

### Call and Actor

`Call` is what a program may expect of `await actor.method(...)`: the canister runs the call
only if it was sent, but perhaps several times (`Ask`, `Execute`); a value or a certified reject
is what one of the runs did (`Answer`); an uncertified reject of an update is what one replica
said, and says nothing of the canister (`Refuse`), and neither does an error (`GiveUp`): the
call may run after it. `Actor` is `_createActorMethod`. `Invoke` encodes the arguments,
`CallReturns` and `QueryReturns` are the two kinds of methods, `AgentThrows` is any failure of
the agent. A v3 body is verified (`VerifyFails`, `Verified`), a v2 body is an uncertified
reject, thrown as one ("refused"), and an empty one is polled for after a 202 and an error after
a 200. A verified certificate that came with a 202 is polled for too, unless it shows a reject.
`Poll` is any step of `Polling` for the call's own poll, `PollReturns` and `Decode` end it;
`Prepare` made its strategy. `Process` is the canister with the request that the agent returned,
which it may run long after its caller gave up; `Evaluate` is every other run: a query the agent
repeated, or another request of the same update, made when the agent fell back to v2 or called
itself again. None of the agent's promises need settle (`AwaitsAgent`). `OutcomeOf` and the
`INSTANCE` of `Call` are the refinement mapping: sent, the results of the runs, and what the
caller got.

### HashTree, Certificate, CertifiedState

`HashTree` is written after `certificate.ts`, a tree as a tagged tuple, a label as a sequence of
bytes; hashes are injective, so the hash of a tree is the tree without pruning. The calls a
function makes to itself and to the others go to constants (`find_label` calls `FindLabel`), and
`MCCertificate` says what the calls return (`MCFindLabel`, `FindLabel <- MCFindLabel` in the
`.cfg` files), which closes the recursion for TLC. A proof assumes no more of the constants than
that they equal those bodies (`CallsAssumption`), which TLC evaluates on every tree of the
instance. The first theorems about `Certificate` do without that: it does not matter to them how
trees are read.

`TellsTheWhole` is the reference: "Found" only what the signed tree holds at the path, "Absent"
only where it holds nothing, and what a certificate shows is found. What is assumed of the
network is said in `CertifiedState`: a subnet prunes nothing of the state it signs and sorts the
labels of its forks (`StatesAssumption`), and the root's state gives the keys and ranges of the
subnets as the canisters are assigned (`NetworkAssumption`). The instance has both layouts of a
tree, and each of the assumptions is evaluated on it. Where the code compares labels in another
order than they are sorted, a lookup may take the wrong turn: `ComparedAlong` says of a path and
a tree that every comparison on the way agrees with the order. One pass of `verify()` is one
action; it ends accepted, rejected, or waiting for `syncTime()`, after which it begins anew.
While it waits, and before, another caller may synchronise the agent.

### Leb128, CandidTypes, SubtypeCache, CandidEncode, Candid

A message is a sequence of bytes and the pipe a record of the bytes left; an operator that can
throw returns `Ok` or `Throw` with the pipe where it stopped, as an exception leaves the pipe of
the code, because `decodeOpt` catches and restores. The loops over the bytes of a number are
recursive functions, so that they can be reasoned about; the descents into types and values are
recursive operators, for TLC. Types are tagged tuples, recursive ones the number of a definition
in `Fill`; field ids are those of `IdlHash`. The getter `name` calls itself through the constant
`Name`, which the instance gives the value of `name` itself; it gives terms, where the code
gives texts in which labels are not quoted.

`subtype_` is one call of the recursive function of the code: a `Check` holds its copy of the
relations and, in place of the calls that wait on the stack, the pairs still to be compared. A
call takes the first, adds it to the relations as assumed, and puts the pairs the rule asks for
(`Premises`) before the rest; `false` ends them all. A field the first record lacks is there
compared with itself, which holds and leaves no trace. Whether labels and annotations fit is
looked at before any pair is compared, and in the code on the way; the difference lies in the
copy of a check that fails, which is dropped. In `SubtypeCache` the exported `subtype` is `Ask`,
as many `Compare` as it takes, and `Answer`, which adds one relation to the cache (`Learn`).
What the answers are measured by are the constants `Subtypes`, a relation whose pairs are
justified by pairs in it, and `Rank`, which says of every other pair in how many steps its
comparison fails. There is always exactly one such relation, the greatest, with natural numbers
as ranks, because a pair has finitely many premises; TLC evaluates the assumption on the
instance, where both are computed by taking pairs out in rounds.

`encode` builds the type table entry by entry, `merge` with its splice included. `decode` reads
the table, builds the types (`BuildTable`), and decodes at the expected types: fields merged by
id, omitted ones filled in, surplus arguments skipped, options whose value does not fit skipped
at the type on the wire, function and service references checked with the subtype cache of the
message. What a type keeps of a value it accepts is not always all of it, and `Kept` is the
reference for that: nothing of a `reserved`, nothing of fields and components the type lacks.

The state machine has a life of one message: `Send` encodes the arguments, `Lose` drops its end,
`Decode` reads it at one of the receiver's interfaces, keeping what the check of references
learned (`subtype`, the whole of a check; the reference is `SubtypesAmong`, since a decoder
makes types of its own). `Question` is a step of `SubtypeCache` between messages.

### AuthSession, AuthPage and AuthLogin

`AuthSession` and `AuthLogin` are the two halves of AuthClient. `AuthSession` has the store that
all pages of an origin share and, per page, key, chain and identity in memory (an expired chain
is kept, though the identity is anonymous then); `create()` is a chain of awaits (`GetKey`,
`MoveChain`, `MoveKey`, `GetChain`, `WipeKey`, `WipeChain`, `SetKey`), and so are a login's
success (`LoginSucceeds`, `Saved`) and `logout()` (`Logout`, `LogoutKey`, `LogoutChain`,
`LogoutReset`). `IdleOut` starts a logout and does not wait for it; `Reload` follows when the
browser gets to it, before, between or after the removals, and any page may be reloaded at any
await. Storage may refuse (`CreateRefused`, `SaveRefused`, `LogoutRefused`). What may happen is
a value of `env`, chosen once: a legacy session, a refusing store, the stages of a logout at
which a login may succeed. Two variables are histories: `ended` is the key the last logout for
idleness removed, and a page is `torn` if it was reloaded between the two removals of a logout.

`AuthPage` puts a page around it. `Watch` is `IdleManager.create`, called by `create()` for a
session it finds, expired or not, and by a login; `Event` is an event of a listener, which is
heard after `exit()` too, because the listeners are not removed; `Exit` is the timer. One that
fires while `create()` still stores a key finds no callback registered, and is `Missed`. A plain
page then logs out and reloads. A page with the hook has `shown`, its React state, and `actor`:
`ClientCreated`, `ShowLogin`, `ShowLogout` and `ShowLoggedOut` are the effects and callbacks,
`ActorCreated` resolves one of the actors under way, in any order. `AuthLogin` has the windows,
the messages on their way, the registered listener and the pending checks of each call of
`login()`. `HandleFailure` closes the window, calls `onError` and then forgets listener and
window; a `login()` made by `onError` (`retried`) comes in between, and it is its listener and
its window that are forgotten.

### Limit, AssetBatch and AssetManager

`NextJob` is `next()`; `Submit`, `JobSettles` and `Release` are its three callers in time: a
job's submitter learns of its end before the slot is given back. `AssetBatch` sends every
request of a commit through it: `Created` (where a file whose descriptor is there already is
refused at once), then per file `Opened`, `Hash` for each chunk in the order the reads end,
`Uploaded`, `Closed`, then `Committed`, each with its failure. A failed commit leaves its reads
and jobs under way, and `Commit` may be called again. `AssetManager` adds a small file, which is
opened, read, closed and sent inside one slot (`Store`, `Stored`), and the readers of assets:
`get()`, then one request per further chunk, through the executor of the manager (collecting)
or, for `verifySha256()`, one by one through an executor of their own. The content is a version
that a commit, a small file or another client (`Replace`) replaces; a canister that keeps a hash
refuses the chunks of another version. A failed chunk fails the reader, but its executor goes on
with the chunks that are queued (`own`), and they still reach the reader's hasher.

## 3. What the runs check

| Run | Shows | Bounds |
|---|---|---|
| `call_retry` | one call with lost, late and refused fetches, fallback, clock error and synchronisations that find a time, find none or throw: executed at most once unless refused for its expiry; one synchronisation, and one more for each that found no time; two requests, and one more for each synchronisation; expiry in the window after a synchronisation | 1 retry; client clock 3 behind, right or 3 ahead, with an expiry of 3, rounded down to 2, and a tolerance of 1, so that a wrong clock is refused; time 2 to 4, enough for an expiry to pass during retries; counters to 3 |
| `call_settles` | two calls that share the fetch of the root key and a synchronisation, each of which may throw, the second also find no time: both end, or for ever come back from synchronisations without a time | a clock 3 behind, so that expiries are refused; replicas that disagree on v3; no retries; time 1 to 2. The exception occurs: a call that is refused, asks for the time, finds none and is refused again |
| `query` | responses are accepted by recent keys and rejected by fresh ones, queries end | two queries on one canister, one retry, one rotation, cache valid for 1 of 2 time units: entry valid, expired, deleted and replaced all occur; a fetch of keys may never end |
| `actor` | a method keeps the promise of `Call` (a refinement); its poll times out by the age of its strategy, neither early nor late, and signs once; every call that was sent settles, unless the agent leaves a promise open or no strategy was given | one call of either kind with its own strategy, the shared one or none; timeout 2, delays 1 to 2, request lifetime 2, so that a signed request expires during a poll; strategies made and polls begun until 3, so that a strategy may be too old when its poll begins; time to 6, enough for the strategy that is made last to end |
| `polling_shared_strategy` | *violated*: no early timeout | two polls on the strategy of the module |
| `auth_page` | store and memory match, key and delegation belong together, a session that idleness ended does not come back, a logged-in page is watched, the hook shows what the client is, its actor signs with what is shown | one page, plain or with the hook; up to three keys; delegations valid for 2 of 3 time units, idle after 1; two actors created at once. Reloads at any await, in three environments: everything that can go wrong at once (legacy session, a refusing store, logins during a logout), nothing, and logins at any time |
| `auth_session_migrated` | *violated*: the delegation of a logged-in client is for its key | one page, four keys, a legacy session |
| `auth_login` | only the last login listens, a single login is answered | three logins, so that the remains of two meet a third; any of them may be made in the `onError` of another; logins that overlap, and logins one after the other |
| `asset_manager` | slots never idle nor exceeded, jobs in order, commits only whole files and right hashes, readers collect one content and hash it in order, with a chunk failing among those that are queued, everything settles | two slots; one file of two chunks committed twice, the second time amid what the first left behind; a batch or a small file beside one or two readers of three chunks; two contents |
| `certificate` | accepted only for its canister, recent, lookups tell the state wherever labels are compared right on the way, one synchronisation | both tree layouts with every pruning, labels `<<1>>`, `<<2,2>>`, `<<3,1>>` of one and two bytes, every age of certificate and delegation, wrong signatures, keys and delegations, clocks 4 off |
| `certificate_labels` | *violated*: lookups tell the state | labels of two bytes |
| `candid` | `encode` accepts what fits, decoding gives back what the type keeps of a value; a receiver with a supertype decodes, any other decodes something of its own type or refuses; the arguments behind a value are read right, a message cut short is refused, the subtype cache tells only what holds | 52 pairs of a type and a value, of every class of type that is modelled, with numbers at the edges of their bytes, values of which the type keeps only a part, values that fit and cannot be encoded, and types whose type table is wrong, each followed by a text; 72 interfaces of a receiver; messages cut at every length; two queries over one cache, of 10 types, three of them recursive, a tuple and the record it abbreviates, which share their name |

**Bounds.** Time ends at `MaxTime`; actions that need no more time go on there, and timers that
are due later fire then, so no call hangs because of the bound. Calls, pages, logins and commits
are few; interference is between two of them, or an earlier and a later one, and in `auth_login`
three. `MaxKeys` and `MaxRotations` only limit how often the same step repeats. The theorems
below hold without these bounds. Candid's types are finite and small; that a class of types
decodes inside every other one is not covered, only the nestings of the instance. Deadlock is
not checked: calls end, the clock ends, and nothing happens after that.

**Fairness** is weak, and only for what the JavaScript runtime guarantees: a timer fires, a
fetch is answered or rejected (the browser's or Node's own timeout), a signature or storage
operation ends, microtasks run. Nothing is assumed of replicas, canisters, providers or the
order of answers, nor that a promise settles which rests on a loop of the code without a bound:
`call()`, `Certificate.verify` and what is built on them may synchronise again and again. So the
properties have exceptions where the code has them: `CallSettles` for a call that for ever comes
back from a synchronisation without a time, `QuerySettles` for a fetch of node keys that never
ends, `CallsSettle` of the actor for a promise of the agent (a call or query, a verification, a
signature, a read) that stays open and for a poll without `options.strategy`. Two assumptions go
further than the runtime: `AuthLogin` assumes that the user in the end closes a window that
nobody answers, because the code has no other end for it, and `Actor` that time passes.
`Certificate`, `AuthSession`, `AuthPage` and `Candid` have no liveness property.

**Properties with a condition.** Some hold only for a part of the program's behaviours, because
the code does not do more; section 5 says what happens otherwise.

- `AtMostOnceUnlessResynced` is for replicas that agree on v3, and for calls that were never
  refused for their expiry. `SyncsOnce` needs synchronisations that do not return without a
  time.
- `TimesOutByAge` and `NoLatePoll` go by the age of the poll's strategy; without
  `options.strategy` that is the strategy of the last iteration, which says little.
- `StoredMatchesMemory` and `SessionMatchesUndisturbed` are for one page; the first excludes a
  login after a logout of the same client, the second also a legacy session and a store that
  refuses. `SessionMatches` and `SessionMatchesUndisturbed` exclude pages that are `torn`.
  `IdleEndsSession` allows other pages only where there is no legacy session.
- `SessionWatched` leaves out a timer that was `Missed`, `ActorFollowsIdentity` actors that are
  created two at once, `ShownMatchesClient` a logout while a login is stored.
- `OneLoginAtATime` leaves out windows, and `SingleLoginAnswered` logins, that were made by
  `onError`; the second needs logins one after the other and windows that are not blocked.
- `FirstHashesContent` needs reads that end in order, `CollectsOneContent` a canister that keeps
  hashes. `HashesInOrder` speaks of all chunks only where none failed.
- `LookupsTellWhereCompared` speaks of paths on which `isBufferGreaterThan` orders labels right.
- `RoundTrip` leaves out values with a key that is no alternative of their variant
  (`ForeignKey`), and, like `LaterArgumentsIntact` and `SupertypeDecodes`, the types of
  `BodyWrittenOut`, where the type table is wrong. `LaterArgumentsIntact` leaves out arguments
  behind a vector that is read as a block of numbers of another width (`MayMisread`),
  `SupertypeDecodes` the pairs that `Refuses` names, where the decoder is stricter than
  `subtype`, and `TruncatedRefused` vectors of fixed numbers, which are read as a block.

## 4. What is proved

The proofs hold for every number of calls, retries, polls, pages, logins, jobs, every delay and
every value of the constants that the assumptions (`...Assumption` in the modules) allow.

- **AgentCallProofs.** The inductive invariants are layered. `TypeInv`: types, and a call that
  signs has an identity and a call that sends has a request of its own. `RequestInv` is what
  at-most-once needs: a request's nonce and expiry are made once per attempt, and until the
  first refusal for its expiry every message on its way that can be executed and every request
  executed carries the call's *current* request (`OneLiveRequest`), which stays so over the
  fallback because a 404 on v3 means, where replicas agree, that no message of v3 can be
  executed (`NotFoundOnV3`, `NothingOnV3`). From it `AtMostOnce`. Nothing is assumed of
  synchronisations: `ResyncsAreBounded` says that a call asks for one, and for one more for each
  that came back without a time (`ResyncInv`), `RequestsAreBounded` that it builds one request,
  one more for the fallback and one more for each of those synchronisations (`AttemptInv`).
  `CallTakesFinitelyManySteps`: the requests a call may still build and what is ahead of it with
  its current one, retries included, make up a number (`StepsLeft`) that falls whenever the call
  moves (`CallAdvances`), but for the one step in which a call comes back from a synchronisation
  without a time (`SentBack`); that is the only loop of `call()` without a bound (section 5).
  `WaitersAreServed`: a call that waits for the root key or the clock waits for something under
  way. With these two, `CallSettles` rests on fairness alone. `ExpiryAcceptedOnceSynced` is
  arithmetic over `TimeInv`, if `Lag + Granule <= Delta` and `MaxSync <= Drift`.
- **AgentQueryProofs.** `Inv` says of the cache that an entry's keys were certified at most
  `CertAge` before they were stored and that there is one entry per canister (`GoodMap`), and of
  each query that the keys it holds are recent with regard to its start (`QueryOK`).
  `AcceptedByRecentKeys` and `NeverRejectedByStaleKeys` follow. The two halves of `QuerySettles`
  that need no fairness: `QueryTakesFinitelyManySteps`, because tries run out and a second
  verification is the last, although other queries may empty the cache and fill it with older
  keys meanwhile; and `QueriesAwaitSomething`, which needs that a response that is there waits
  for keys and keys fetched again for nothing else (`Awaits`).
- **ActorProofs**, on `Polling`, for strategies of any kind, polls that share one included.
  `DeadlineInv`: a strategy ends one timeout after it was made, whoever uses it, and a poll was
  allowed its last iteration by the strategy it has (`TimesOutOnlyByAge`, `PollsNoLater`).
  `SignatureInv`: the one signature is carried by every iteration (`SignsOnce`).
- **ActorProofs**, on `Actor`. `ActorUsesPolling`: every step of an actor is a step of `Polling`
  or leaves it alone, so its theorems carry over (`ActorTimesOutByAge`, `ActorPollsNoLater`,
  `ActorSignsOnce`). `ActorKeepsPromise` is the refinement of `Call`. The mapping alone is not
  enough: that a value is returned only when some run replied needs `AgreeInv`, which says that
  a status "replied" or "rejected" on the replicas is backed by a run that ended so, that a call
  which was not sent has not run, and that wherever an outcome is already decided on its way (a
  certificate being verified, a poll that ended, a reply being decoded) a run had it. How many
  runs there are is left open. The initial states map (`PromiseInit`), and each step is an
  `Ask`, `Execute`, `Answer`, `Refuse`, `GiveUp` or a stutter (`PromiseStep`).
- **CertificateProofs.** In its first part lookups and hashes stay uninterpreted; what is
  assumed of certificates is that their times are numbers (`OptionsAssumption`). `ClockInv`: a
  synchronised time difference corrects the clock up to `Lag` behind and `MaxSync` ahead, and a
  waiting pass has a synchronisation to wait for. `VerdictInv` adds the verdicts, with what the
  last pass knew. `AcceptsRecent` holds for every clock error; `RejectsNoRecent` needs
  `Lag <= MaxFuture`, and goes by contradiction: an orderly certificate that is rejected is out
  of time (`RejectedIsOld`), where `GenuineInOrder` unfolds what "in order" means with its
  delegation. `OnceInv` counts synchronisations for `SynchronisesOnce`. The second part is about
  the trees, of any size: `TreeInduction` and `PathInduction` are induction on the height of a
  tree and on the length of a path, stated for sets (a set that has a tree whenever it has all
  lower ones has them all), because the provers cannot instantiate an induction theorem for
  predicates. A part of a state is a tree whose reconstruction is a state (`Parts`).
  `StateForms`, `LabelOnce` and `NodeShown` say what states and their parts look like;
  `FindSound` that what `find_label` finds is there, whatever the order of labels; `LookupFound`
  the same of a path. With `AcceptedInv`, an accepted certificate is in order, they give
  `AcceptsForCanister`. Where a label is compared right with those of a tree it is with those of
  its subtrees (`ForkCompared`, `NodeCompared`). Then `FindOrdered` is what the other answers
  mean (Less: before all labels of the state; Absent: between two of them) and `FindShown` that
  a node that is shown is found; hence `PartTellsTheWhole`, and `LookupsTell`. Nothing is
  assumed of `isBufferGreaterThan`, which misorders labels of several bytes (section 5): that
  what a lookup finds is there holds on every path (`FoundNode`, `SubtreeFound`), and that its
  other answers are right on every path that meets no misordered pair, with labels of any
  length. So the comparison is the only thing wrong with lookups.
- **AuthPageProofs.** For a page that is alone with its store: `StoreInv` says where in
  `create()`, login and logout the stored key and chain are those of memory
  (`StoreMatchesMemory`); `MatchInv`, for a page that nothing disturbs, that a stored chain
  which is still *valid* was issued to the stored key, which survives even a reload between the
  two removals of an expired session, because that one stays expired, but not one between the
  removals of a logout (`torn`; `SessionMatchesAlone`); `EndedInv`, for any reloads, that the
  key of a session ended for idleness is nowhere any more, neither stored nor about to be, and
  never generated again (`KeysCounted`; `EndedForGood`). `PageKeepsSession`: a page with its
  manager and hook behaves as `AuthSession` says. `WatchInv` (a manager's timer runs unless it
  logged its page out) gives `WatchesSessions`, for any number of pages. For the hook, `HookInv`
  follows what its state is made of (the effects after a render, the callbacks of login and
  logout, the actors being created) through every point where they wait: `HookShowsClient`,
  `ActorSignsAsShown`, for any number of pages.
- **AuthLoginProofs.** `WindowInv`: no window exists for a login not yet made, the handler is
  none later than the last, and a window that is open is the client's own or was opened by a
  login that `onError` made. `LatestLoginOnly` follows, for any number of logins that fail and
  are tried again inside `onError`.
- **AssetProofs.** In the executor the counter equals the number of jobs that hold a slot, which
  needs finiteness and disjointness of the phases (`TypeInv`); with it `AlwaysSaturated` and
  `FirstInFirstOut`. Every step of a manager is one of the executor (`ManagerUses`), so both
  hold of it too, and one of the batch or a request of others (`ManagerMoves`). `WholeInv`: an
  operation that closes its file has stored every chunk in the batch of its own call, and
  `commit_batch` is known only for calls whose files are whole; hence `OnlyWholeCommitted`,
  however many calls failed before. `HashingInv`: the own executor of a reader that hashes holds
  the chunks that were asked for and not yet answered, in order and behind those that came
  (`Awaited`), whether or not one failed, and none of its requests is in the shared executor,
  where answers overtake each other; hence `HashesArriveInOrder`. `CollectInv`: for a reader
  that collects, the chunks that came and the requests under way are apart, one for each index,
  and with a hash of the version it began with; that as many different indices as there are
  chunks are all of them is the pigeonhole principle (`AllIndices`), hence
  `CollectedIsOneContent`. `FirstCommitHashesContent`, for reads that end in order, needs
  `FreshInv` (until a first commit hashes a chunk, nothing of it was hashed or uploaded) and
  `FirstInv` (what was hashed is a beginning of the content, and what is being read follows it).
  `ManagerRefinesLimit` puts the steps together: a manager behaves as the executor says.
- **CandidProofs**, on `SubtypeCache`. For any types, any definitions of the recursive ones and
  any number of questions. `SubtypesAreGreatest`: a relation that justifies itself is within
  `Subtypes`; of its pairs that were outside, one of the lowest rank would rest on one of a
  lower rank. As a cache is kept under names and types with one name need not be one type, the
  premises of pairs with the same names have to have the same names again (`PremisesMatch`), so
  that subtypes depend on names only (`SubtypesByName`). `CacheSound` is not inductive: an
  answer is as good as the check it comes from. `CheckInv` says of a check under way that what
  it holds false is false; that a pair it holds true, or assumed, is a subtype or has each of
  its premises held or pending; and that as long as nothing failed, the question is a subtype
  only if all that is pending is. So when nothing is left to compare, what is held justifies
  itself and is right (`AssumptionsHold`), and when a comparison fails, the question is wrong;
  hence `CacheIsSound`. `CheckAdvances`: each comparison ends the check, uses up a pair, or
  learns of two names it did not know, which for finitely many names is why `subtype_` returns
  on recursive types.
- **CandidProofs**, on `Leb128`. For numbers of any size and bytes of any number, with anything
  behind them: what `decode` reads is what `encode` wrote and the pipe is left right behind it,
  for unsigned and signed LEB128 (`LebRoundTrip`, `SlebRoundTrip`) and for fixed integers
  (`NatRoundTrip`, `IntRoundTrip`); a number cut short is refused (`LebTruncated`,
  `SlebTruncated`, `IntTruncated`); a fixed integer is read within its range, whatever the bytes
  (`FixedFits`). A recursive function of TLA+ is a `CHOOSE`, so that it equals its equation is a
  lemma (`Recursion`), proved by induction stated for sets (`Induction`). The writers produce
  the low digits of a number while they shift it right: after i bytes the number left to write
  is the quotient by the i-th power of the base (`WrittenBy`, `Digits`), and the reader's sums
  of digits give the number back (`HornerSums`, `LittleEndianOf`). A negative number is the
  complement of `-x - 1`, digit by digit, in signed LEB128; in a fixed integer the code divides
  rounding towards zero and borrows, and the borrow amounts to rounding down (`TowardsZero`,
  `Borrow`), so the bytes are those of the number modulo the range (`IntWritten`).

Only model-checked: liveness and fairness (`CallSettles`, `QuerySettles`, `CallsSettle`,
`SingleLoginAnswered`, `CommitSettles`, `ReadersSettle`), since the proof system does not treat
it, and encoding and decoding of whole Candid messages, which descend by recursive operators:
`RoundTrip`, `LaterArgumentsIntact`, `DecodedFits`, `TruncatedRefused`, `SupertypeDecodes`. The
numbers these messages are made of are proved, as above, and so is the subtype check, which is a
machine with a stack (section 2). Mutants of the model, one per property and named in
`PROJECT.json`, show that each of the properties the runs check can fail.

## 5. Disagreements between the code and what is said of it

With a run: the default strategy is one object for the whole program (`polling/index.ts:72`);
the migration keeps the delegation and replaces the key (`auth-client/index.ts:245`); labels are
not compared in their order (`certificate.ts:146`).

Met while modelling, without a run of their own. `AssetBatch` with `InOrder = FALSE`, and
`AuthSession` with two pages or with a login after the logout of the same client, show the first
three.

- The hash of an asset is updated in the order in which concurrent reads end
  (`assets/src/index.ts:308-313`).
- After `logout()` the client keeps `_key` while its stored copy is gone; the next login stores
  only the delegation. After a reload a new key lies beside it.
- Two pages that call `create()` on an empty store generate two keys.
- A synchronisation that finds no time, because the reads failed and their errors were
  swallowed, lets `call()` repeat itself for ever (`agent/http/index.ts:632`); `call_settles`
  shows it by the exception it has to make. `Certificate.verify` repeats itself in the same way
  (`certificate.ts:293-300`), and with it the fetch of node keys that a query waits for.
- `call()` returns normally after a 200 whose body is a reject that no replica certified
  (`agent/http/index.ts:837-845`): a call that returned need not have been accepted.
- A second `login()` while one is under way: the check of the first finds its window closed and
  ends the second, which then calls no callback (`auth-client/src/index.ts:493`). A blocked
  window calls no callback either. A login can call both callbacks if storing the delegation
  fails after it was used in memory. The hook's `login()`, called before the client exists,
  never settles.
- A `login()` that is tried again inside `onError` is never answered: `_handleFailure` calls the
  callback before it removes the listener and forgets the window (`:547-552`), which are then
  the new ones. The new window stays open.
- The idle callback calls `logout()` and reloads the page without waiting for it (`:360-363`),
  where the comment says "clear stored identity and reload" (`:356`). A reload between the two
  removals leaves the old delegation in the store beside the next key: the reloaded page takes
  itself for logged in, and every request it signs is refused.
- The idle timer may fire while `create()` stores a key, before the callback is registered; then
  nobody logs out until the next event restarts the timer.
- The hook's default `onIdle` closes over the first render, which has no client
  (`use-auth-client.ts:79`), and replaces the client's own: its pages are never logged out.
- `IdleManager.exit()` removes freshly bound functions, so its listeners stay
  (`idleManager.ts:126-131`), and `registerCallback` adds a callback where
  `auth-client/README.md:114` says it replaces the default one.
- The timeout of a poll counts from the making of its strategy, which an actor makes before it
  calls the agent (`actor.ts:404-408`), so that retries of the call shorten the poll.
- `pollForResponse` without `options.strategy` makes a new strategy per iteration and never
  times out (`polling/index.ts:188`), which is why `CallsSettle` excepts it; `options.request`
  counts only together with `preSignReadStateRequest` (`:143`), the comment at `:57-58` says the
  opposite. The comment of `defaultStrategy` speaks of a first delay of 2 seconds
  (`polling/strategy.ts:16`), the code waits 1000 ms.
- The identity of a call is captured on entry, and again when the call repeats itself after a
  refusal (`agent/http/index.ts:499`): the second request may be signed by another one.
- `ExpirableMap.has` says "has not expired" (`utils/expirableMap.ts:137`) and does not look.
- `commit()` after a failed `commit()` feeds hashers that were already fed or digested, and a
  `ReadablePath` keeps its descriptor after `close()`, so that it can be opened only once
  (`readable/readablePath.ts:43`).
- `Asset.write` does not wait for the writes of its chunks before it closes the file: the
  promise of `onChunk` is dropped (`assets/src/index.ts:446`, `:481`).
- After a chunk that failed the reader's executor goes on with those that are queued, and they
  reach `onChunk` though `getChunks` has rejected (`utils/limit.ts:16-22`).
- The `finally` of a late caller of `fetchRootKey` or `syncTime` may clear a newer promise
  (`agent/http/index.ts:1312`).
- In a fork whose left side is `Empty` the search stops, and a label is not found beside one of
  its own prefixes (`certificate.ts:684-785`).
- Candid: the splice of `merge` (`candid/src/idl.ts:71-85`) moves the entries behind it, while
  the indices other types hold stay. That a body is also written out beside its recursive type
  is enough for a wrong table (`BodyWrittenOut`): a message of
  `Tuple(Vec(Opt(Nat)), Vec(Text), R)` with `R = Opt(Nat)` is read at other types than it was
  written at.
- Candid: the decoder refuses what `subtype` accepts (`Refuses`): a `nat` where an `int` is
  expected, a tuple that lacks optional components, a record that lacks a field of type `null`.
  A compound value on the wire at an option of an omittable type throws, while the comment
  (`idl.ts:1157`) says skip and return null. `encode` counts surplus arguments in the header
  (`idl.ts:1931`) and does not write them.
- Candid: not every value that `covariant` accepts survives. Components that a tuple type lacks
  are dropped (`idl.ts:1377-1399`), a `reserved` that is not null comes back as null
  (`:501-518`), and a variant accepts an object with a key that is none of its alternatives and
  may then throw while it encodes (`:1456-1486`).
- Candid: a vector of fixed numbers is read as a block of bytes without a look at the type on
  the wire (`idl.ts:974-984`): `[[768], "\u0001h"]` sent as `[Vec(Int16), Text]` decodes at
  `[Vec(Nat8), Text]`, with another text and without an error. And `PipeArrayBuffer` ignores
  where a view begins in its buffer (`candid/src/utils/buffer.ts:69`), as a lookup does with the
  leaf it returns (`certificate.ts:572`).

## 6. What is abstracted, and what is not modelled

Signatures are the keys that made them, hashes are injective, a payload is a value or absent.
`set` and `get` of a settled promise happen in one step, so races that live only in the
microtask queue (the `finally` handlers above) are outside the present modules. Logging, the
texts of errors and the codecs of the agent (CBOR, DER, PEM, base32) are left out: they are
functions of bytes without control.

Of the modelled components these parts are missing.

- *Agent*: `readState`, `status` and `fetchRootKey` as calls of a program, the shared promises
  that the guards of a query wait for, the watermark, request ids, transforms of the
  application; canister status but for the time and the node keys; range checks of query
  responses.
- *Polling*: `maxAttempts` and `throttlePolling`, which the default strategy does not use.
- *Hash tree*: which bytes of its buffer a leaf is (`HashTree.Here` takes the value itself),
  `flatten_forks`, `list_paths`.
- *Actor*: the making of actors and the options merged per call; `withHttpDetails` and
  `withCertificate`, which add to the result.
- *Candid*: floats, fixed integers of more than 16 bits, the checks of UTF-8 and of 32-bit ids,
  texts of types and values, the visitors; typed arrays of the other sign, which `covariant`
  takes for a vector; types whose names are the same text because labels are not quoted in it.
  Label hashes are constants.
- *Auth client*: identities the application passes, an agent passed to the hook, whose actor
  does not follow the identity, `registerCallback` after the construction, the debounce of
  scrolling, the opening of the database. *Delegations*: only the expiry of a chain; not its
  scopes, targets and signatures.
- *Assets*: `delete`, `list`, `clear` and `getBatch`, which are single requests, `isCertified`,
  the writing of files, progress reports.

Not modelled at all: the observable log, `fetchCandid`, key identities, `Principal`, the Candid
UI, generated bindings, the migration tool, `core`, `bls-verify`, documentation and end-to-end
tests. They keep no state that two callers share, or only format.

## 7. What is left

1. `SharedPromise`: `fetchRootKey` and `syncTime` at the grain of microtasks.
2. `AssetDownload`: `write()` with its dropped promises, `isCertified`.
3. `Delegations` and `RequestId`: the validity and targets of a chain, the order of the hashed
   pairs, each against a reference definition.
4. `AgentCall` as the agent of `Actor`, so that the at-most-once of the two meet.
