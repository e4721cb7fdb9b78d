---------------------------- MODULE AuthSession ----------------------------
(***************************************************************************)
(* The session that AuthClient (packages/auth-client/src/index.ts) keeps   *)
(* in the browser's storage: a session key and the delegation chain the    *)
(* identity provider issued to it, under two entries of a store that all   *)
(* tabs of the origin share.  Every storage operation is an await, so a    *)
(* page can be reloaded, or another tab can run, between any two of them.  *)
(* The login window is modelled in AuthLogin; here a login is its success. *)
(***************************************************************************)
EXTENDS Integers

CONSTANTS
  Tabs,         \* pages of one origin
  Environments, \* what may happen to the pages: see Environment
  Life,         \* how long a delegation is valid
  MaxTime,      \* bound: the clock stops here
  MaxKeys       \* bound: keys ever generated

LogoutStages == {"none", "key", "chain", "iv", "done"}

\* legacy: localStorage holds a session of an old version; loginWhen: stages of a
\* page's logout at which a login may succeed; faults: the storage may refuse an
\* operation.
Environment == [legacy : BOOLEAN, loginWhen : SUBSET LogoutStages, faults : BOOLEAN]

ASSUME SessionAssumption ==
  /\ Environments \subseteq Environment
  /\ Life \in Nat \ {0} /\ MaxTime \in Nat /\ MaxKeys \in Nat \ {0}

VARIABLES
  env,         \* the environment of this run of the pages
  now,         \* Date.now()
  generated,   \* keys generated so far; a key is its number
  local,       \* whether localStorage still holds the old session
  storedKey,   \* KEY_STORAGE_KEY
  storedChain, \* KEY_STORAGE_DELEGATION
  pc,          \* where create() of each page is suspended
  key,         \* _key
  chain,       \* _chain
  identity,    \* the chain _identity is built from, with _key; NoChain is anonymous
  saving,      \* the chain a successful login is storing
  behind,      \* whether the removal of logout was issued before that
  logout,      \* what logout() removes next
  idle,        \* whether the idle manager has called logout and is reloading the page
  ended,       \* history: key that the idle manager's logout removed last
  torn,        \* history: the page was reloaded between the removals of a logout
  refused      \* history: the storage refused an operation of this page

vars == <<env, now, generated, local, storedKey, storedChain, pc, key, chain, identity,
          saving, behind, logout, idle, ended, torn, refused>>

NoKey   == 0
NoChain == [key |-> NoKey, until |-> 0]
OldKey  == 1
OldChain == [key |-> OldKey, until |-> Life]

Keys   == NoKey .. MaxKeys
Chains == [key : Keys, until : Nat]
PCs    == {"getKey", "moveChain", "moveKey", "getChain", "wipeKey", "wipeChain",
           "dropKey", "dropChain", "setKey", "ready", "failed"}

\* isDelegationValid: it looks at the expiry, never at the key.
Valid(c) == now < c.until

Init ==
  /\ env \in Environments
  /\ now = 0
  /\ generated = IF env.legacy THEN OldKey ELSE 0
  /\ local = env.legacy
  /\ storedKey = NoKey /\ storedChain = NoChain
  /\ pc = [t \in Tabs |-> "getKey"]
  /\ key = [t \in Tabs |-> NoKey]
  /\ chain = [t \in Tabs |-> NoChain] /\ identity = [t \in Tabs |-> NoChain]
  /\ saving = [t \in Tabs |-> NoChain] /\ behind = [t \in Tabs |-> FALSE]
  /\ logout = [t \in Tabs |-> "none"] /\ idle = [t \in Tabs |-> FALSE]
  /\ ended = [t \in Tabs |-> NoKey] /\ torn = [t \in Tabs |-> FALSE]
  /\ refused = [t \in Tabs |-> FALSE]

Tick ==
  /\ now < MaxTime
  /\ now' = now + 1
  /\ UNCHANGED <<env, generated, local, storedKey, storedChain, pc, key, chain,
                 identity, saving, behind, logout, idle, ended, torn, refused>>

(***************************************************************************)
(* AuthClient.create                                                       *)
(***************************************************************************)

Resume(t, label) == pc' = [pc EXCEPT ![t] = label]

\* The key in the store, else the session of localStorage, else a new key.
GetKey(t) ==
  /\ pc[t] = "getKey"
  /\ \/ /\ storedKey # NoKey
        /\ key' = [key EXCEPT ![t] = storedKey] /\ Resume(t, "getChain")
     \/ /\ storedKey = NoKey
        /\ Resume(t, IF local THEN "moveChain" ELSE "setKey")
        /\ UNCHANGED key
  /\ UNCHANGED <<env, now, generated, local, storedKey, storedChain, chain,
                 identity, saving, behind, logout, idle, ended, torn, refused>>

MoveChain(t) ==
  /\ pc[t] = "moveChain"
  /\ storedChain' = OldChain
  /\ Resume(t, "moveKey")
  /\ UNCHANGED <<env, now, generated, local, storedKey, key, chain, identity,
                 saving, behind, logout, idle, ended, torn, refused>>

\* The old key is stored, but create() goes on with the text of the chain in
\* its place: that is no key, fromJSON throws, and a new key is generated.
MoveKey(t) ==
  /\ pc[t] = "moveKey"
  /\ storedKey' = OldKey
  /\ local' = FALSE
  /\ Resume(t, "setKey")
  /\ UNCHANGED <<env, now, generated, storedChain, key, chain, identity, saving,
                 behind, logout, idle, ended, torn, refused>>

\* The identity is built from the key read before and the chain read now.  An
\* expired chain is kept, beside an anonymous identity and soon another key.
GetChain(t) ==
  /\ pc[t] = "getChain"
  /\ chain' = [chain EXCEPT ![t] = storedChain]
  /\ \/ /\ storedChain = NoChain \/ Valid(storedChain)
        /\ identity' = [identity EXCEPT ![t] = storedChain] /\ Resume(t, "ready")
     \/ /\ storedChain # NoChain /\ ~Valid(storedChain)
        /\ Resume(t, "wipeKey") /\ UNCHANGED identity
  /\ UNCHANGED <<env, now, generated, local, storedKey, storedChain, key, saving,
                 behind, logout, idle, ended, torn, refused>>

\* _deleteStorage, called for an expired chain ("wipe") and again by the catch
\* clause when an operation on the chain failed ("drop").
WipeKey(t) ==
  /\ pc[t] \in {"wipeKey", "dropKey"}
  /\ storedKey' = NoKey
  /\ Resume(t, IF pc[t] = "wipeKey" THEN "wipeChain" ELSE "dropChain")
  /\ UNCHANGED <<env, now, generated, local, storedChain, key, chain, identity,
                 saving, behind, logout, idle, ended, torn, refused>>

WipeChain(t) ==
  /\ pc[t] \in {"wipeChain", "dropChain"}
  /\ storedChain' = NoChain
  /\ key' = [key EXCEPT ![t] = NoKey] /\ Resume(t, "setKey")
  /\ UNCHANGED <<env, now, generated, local, storedKey, chain, identity, saving,
                 behind, logout, idle, ended, torn, refused>>

\* A new key; a chain that is still stored stays.
SetKey(t) ==
  /\ pc[t] = "setKey" /\ generated < MaxKeys
  /\ generated' = generated + 1
  /\ storedKey' = generated' /\ key' = [key EXCEPT ![t] = generated']
  /\ Resume(t, "ready")
  /\ UNCHANGED <<env, now, local, storedChain, chain, identity, saving, behind,
                 logout, idle, ended, torn, refused>>

\* The storage refuses what create() is waiting for.
CreateRefused(t) ==
  /\ env.faults
  /\ \/ pc[t] \in {"getKey", "setKey", "dropKey", "dropChain"} /\ Resume(t, "failed")
     \/ pc[t] \in {"moveChain", "moveKey"} /\ Resume(t, "setKey")
     \/ pc[t] \in {"getChain", "wipeKey", "wipeChain"} /\ Resume(t, "dropKey")
  /\ refused' = [refused EXCEPT ![t] = TRUE]
  /\ UNCHANGED <<env, now, generated, local, storedKey, storedChain, key, chain,
                 identity, saving, behind, logout, idle, ended, torn>>

(***************************************************************************)
(* _handleSuccess, logout and the idle manager's callback                  *)
(***************************************************************************)

\* The provider delegated to the key of this client; memory first, then store.
LoginSucceeds(t) ==
  /\ pc[t] = "ready" /\ logout[t] \in env.loginWhen
  /\ saving[t] = NoChain
  /\ LET delegation == [key |-> key[t], until |-> now + Life]
     IN  /\ chain' = [chain EXCEPT ![t] = delegation]
         /\ identity' = [identity EXCEPT ![t] = delegation]
         /\ saving' = [saving EXCEPT ![t] = delegation]
  /\ behind' = [behind EXCEPT ![t] = logout[t] \in {"key", "chain", "iv"}]
  /\ UNCHANGED <<env, now, generated, local, storedKey, storedChain, pc, key, logout,
                 idle, ended, torn, refused>>

Saved(t) ==
  /\ saving[t] # NoChain /\ ~behind[t]
  /\ storedChain' = saving[t]
  /\ saving' = [saving EXCEPT ![t] = NoChain]
  /\ UNCHANGED <<env, now, generated, local, storedKey, pc, key, chain, identity,
                 behind, logout, idle, ended, torn, refused>>

\* login()'s handler reports the error; the client stays logged in.
SaveRefused(t) ==
  /\ env.faults /\ saving[t] # NoChain /\ ~behind[t]
  /\ saving' = [saving EXCEPT ![t] = NoChain]
  /\ refused' = [refused EXCEPT ![t] = TRUE]
  /\ UNCHANGED <<env, now, generated, local, storedKey, storedChain, pc, key, chain,
                 identity, behind, logout, idle, ended, torn>>

Logout(t) ==
  /\ pc[t] = "ready" /\ logout[t] \in {"none", "done"}
  /\ logout' = [logout EXCEPT ![t] = "key"]
  /\ UNCHANGED <<env, now, generated, local, storedKey, storedChain, pc, key, chain,
                 identity, saving, behind, idle, ended, torn, refused>>

\* The default idle callback: logout() is not awaited and location.reload() follows
\* at once, so that Reload may come before any of the removals.  The idle manager
\* that calls it, from the first session of the page on, is modelled in AuthPage.
IdleOut(t) ==
  /\ pc[t] = "ready" /\ logout[t] \in {"none", "done"}
  /\ logout' = [logout EXCEPT ![t] = "key"]
  /\ idle' = [idle EXCEPT ![t] = TRUE]
  /\ UNCHANGED <<env, now, generated, local, storedKey, storedChain, pc, key, chain,
                 identity, saving, behind, ended, torn, refused>>

\* The storage serves a page in order: the removal under way is over, and the
\* next one is issued behind whatever the page is storing.
RemovalOver(t) ==
  /\ saving[t] = NoChain \/ behind[t]
  /\ behind' = [behind EXCEPT ![t] = FALSE]

\* Mutant: logout forgets the key.
LogoutKeyNot(t) ==
  /\ RemovalOver(t) /\ logout[t] = "key"
  /\ ended' = [ended EXCEPT ![t] = IF idle[t] THEN key[t] ELSE @]
  /\ logout' = [logout EXCEPT ![t] = "chain"]
  /\ UNCHANGED <<env, now, generated, local, storedKey, storedChain, pc, key, chain,
                 identity, saving, idle, torn, refused>>

LogoutKey(t) ==
  /\ RemovalOver(t) /\ logout[t] = "key"
  /\ storedKey' = NoKey
  /\ ended' = [ended EXCEPT ![t] = IF idle[t] THEN key[t] ELSE @]
  /\ logout' = [logout EXCEPT ![t] = "chain"]
  /\ UNCHANGED <<env, now, generated, local, storedChain, pc, key, chain, identity,
                 saving, idle, torn, refused>>

\* Mutant: logout forgets the delegation.
LogoutChainNot(t) ==
  /\ RemovalOver(t) /\ logout[t] = "chain"
  /\ logout' = [logout EXCEPT ![t] = "iv"]
  /\ UNCHANGED <<env, now, generated, local, storedKey, storedChain, pc, key, chain,
                 identity, saving, idle, ended, torn, refused>>

LogoutChain(t) ==
  /\ RemovalOver(t) /\ logout[t] = "chain"
  /\ storedChain' = NoChain
  /\ logout' = [logout EXCEPT ![t] = "iv"]
  /\ UNCHANGED <<env, now, generated, local, storedKey, pc, key, chain, identity,
                 saving, idle, ended, torn, refused>>

\* Mutant: logout leaves the session in memory.
LogoutResetNot(t) ==
  /\ RemovalOver(t) /\ logout[t] = "iv"
  /\ logout' = [logout EXCEPT ![t] = "done"]
  /\ UNCHANGED <<env, now, generated, local, storedKey, storedChain, pc, key, chain,
                 identity, saving, idle, ended, torn, refused>>

\* The last entry is removed; the client forgets the session but keeps the key.
LogoutReset(t) ==
  /\ RemovalOver(t) /\ logout[t] = "iv"
  /\ chain' = [chain EXCEPT ![t] = NoChain]
  /\ identity' = [identity EXCEPT ![t] = NoChain]
  /\ logout' = [logout EXCEPT ![t] = "done"]
  /\ UNCHANGED <<env, now, generated, local, storedKey, storedChain, pc, key,
                 saving, idle, ended, torn, refused>>

\* logout() rejects and the client stays logged in.
LogoutRefused(t) ==
  /\ env.faults /\ RemovalOver(t) /\ logout[t] \in {"key", "chain", "iv"}
  /\ logout' = [logout EXCEPT ![t] = "none"]
  /\ refused' = [refused EXCEPT ![t] = TRUE]
  /\ UNCHANGED <<env, now, generated, local, storedKey, storedChain, pc, key, chain,
                 identity, saving, idle, ended, torn>>

\* The page is reloaded, at any moment, and creates its client anew; what it had
\* under way is lost.
Reload(t) ==
  /\ pc' = [pc EXCEPT ![t] = "getKey"]
  /\ key' = [key EXCEPT ![t] = NoKey]
  /\ chain' = [chain EXCEPT ![t] = NoChain]
  /\ identity' = [identity EXCEPT ![t] = NoChain]
  /\ saving' = [saving EXCEPT ![t] = NoChain] /\ behind' = [behind EXCEPT ![t] = FALSE]
  /\ logout' = [logout EXCEPT ![t] = "none"]
  /\ torn' = [torn EXCEPT ![t] = @ \/ logout[t] = "chain"]
  /\ idle' = [idle EXCEPT ![t] = FALSE]
  /\ refused' = [refused EXCEPT ![t] = FALSE]
  /\ UNCHANGED <<env, now, generated, local, storedKey, storedChain, ended>>

Create(t) ==
  \/ GetKey(t) \/ MoveChain(t) \/ MoveKey(t) \/ GetChain(t) \/ WipeKey(t)
  \/ WipeChain(t) \/ SetKey(t) \/ CreateRefused(t)

Use(t) ==
  \/ LoginSucceeds(t) \/ Saved(t) \/ SaveRefused(t) \/ Logout(t) \/ IdleOut(t)
  \/ LogoutKey(t) \/ LogoutChain(t) \/ LogoutReset(t) \/ LogoutRefused(t)

Next == Tick \/ \E t \in Tabs : Create(t) \/ Use(t) \/ Reload(t)

Spec == Init /\ [][Next]_vars

(***************************************************************************)
(* Properties                                                              *)
(***************************************************************************)

AtRest(t) == pc[t] = "ready" /\ saving[t] = NoChain /\ logout[t] \in {"none", "done"}
LoggedIn(t) == pc[t] = "ready" /\ identity[t] # NoChain

\* Types; a client that is ready has a key, and only a ready client has an identity,
\* which is built from its chain.
TypeOK ==
  /\ env \in Environments
  /\ now \in 0 .. MaxTime /\ generated \in Keys /\ local \in BOOLEAN
  /\ storedKey \in Keys /\ storedChain \in Chains
  /\ pc \in [Tabs -> PCs] /\ key \in [Tabs -> Keys]
  /\ chain \in [Tabs -> Chains] /\ identity \in [Tabs -> Chains]
  /\ saving \in [Tabs -> Chains] /\ behind \in [Tabs -> BOOLEAN]
  /\ logout \in [Tabs -> LogoutStages] /\ idle \in [Tabs -> BOOLEAN]
  /\ ended \in [Tabs -> Keys] /\ torn \in [Tabs -> BOOLEAN]
  /\ refused \in [Tabs -> BOOLEAN]
  /\ \A t \in Tabs :
       /\ pc[t] \in {"getChain", "ready"} => key[t] # NoKey
       /\ identity[t] # NoChain => pc[t] = "ready" /\ identity[t] = chain[t]

\* A single page that is logged in and has nothing under way would get the same
\* session back after a reload: the store holds its key and its chain; unless it
\* logged out before, which removed a key that no login stores again.
StoredMatchesMemory ==
  \A t \in Tabs :
    Tabs = {t} /\ "done" \notin env.loginWhen /\ LoggedIn(t) /\ AtRest(t) /\ ~refused[t] =>
      storedKey = key[t] /\ storedChain = identity[t]

\* The delegation of a logged-in client was issued to the client's own key; with any
\* other key every request it signs is refused.  Stated for pages that were not
\* reloaded between the removals of a logout, which leaves a delegation behind for
\* the next key.
SessionMatches == \A t \in Tabs : LoggedIn(t) /\ ~torn[t] => identity[t].key = key[t]

\* That holds for a single page that starts from an empty store which refuses
\* nothing, and logs in only before it logs out; reloaded at any other moment.
SessionMatchesUndisturbed ==
  \A t \in Tabs :
    Tabs = {t} /\ env.loginWhen = {"none"} /\ ~(env.legacy \/ env.faults) /\ ~torn[t]
      => (LoggedIn(t) => identity[t].key = key[t])

\* A session that the idle manager ended does not come back: once its logout has
\* removed the key, no reloaded page signs with it, whenever the reload came and
\* whatever else was left in the store; with other pages about, unless there is an
\* old session to migrate.
IdleEndsSession ==
  \A t \in Tabs :
    /\ Tabs = {t} \/ ~env.legacy
    /\ ended[t] # NoKey /\ ~idle[t] /\ LoggedIn(t)
    => key[t] # ended[t]
=============================================================================
