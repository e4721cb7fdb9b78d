------------------------------ MODULE AuthPage ------------------------------
(***************************************************************************)
(* A page that uses an AuthClient: the session of AuthSession, the idle    *)
(* manager that watches it (packages/auth-client/src/idleManager.ts), and  *)
(* either the plain client or the React hook around it                     *)
(* (packages/use-auth-client/src/use-auth-client.ts).  The hook keeps its  *)
(* own copy of what the client says, and an actor that is created by a     *)
(* promise whenever the identity changes.                                  *)
(***************************************************************************)
EXTENDS AuthSession, SequencesExt

CONSTANTS
  HookIn,       \* environments in which a page may use the hook
  IdleTimeout,  \* of the idle manager
  MaxCreating   \* bound: actors being created at once

ASSUME PageAssumption ==
  /\ HookIn \subseteq Environments
  /\ IdleTimeout \in Nat \ {0} /\ MaxCreating \in Nat \ {0}

VARIABLES
  use,        \* how each page uses its client: "plain" or "hook"
  manager,    \* whether the client has an idle manager
  timer,      \* when its timer fires
  active,     \* the last event the manager heard, or its creation
  shown,      \* the hook's state: authClient, identity, isAuthenticated
  creating,   \* identities of the actors being created, in the order of the calls
  actor,      \* identity of the actor the hook returns
  overlapped, \* history: two actors were being created at once
  crossed     \* history: a login was being stored during a logout

idleVars == <<manager, timer, active>>
hookVars == <<shown, creating, actor, overlapped>>
pageVars == <<vars, use, idleVars, hookVars, crossed>>

NoTimer    == 0 - 1
Missed     == 0 - 2   \* the timer fired before the client was there
NoIdentity == [key |-> NoKey - 1, until |-> 0]   \* null; NoChain is anonymous
NothingYet == [client |-> FALSE, identity |-> NoIdentity, auth |-> FALSE]

PageInit ==
  /\ Init
  /\ use \in [Tabs -> IF env \in HookIn THEN {"plain", "hook"} ELSE {"plain"}]
  /\ manager = [t \in Tabs |-> FALSE]
  /\ timer = [t \in Tabs |-> NoTimer] /\ active = [t \in Tabs |-> 0]
  /\ shown = [t \in Tabs |-> NothingYet]
  /\ creating = [t \in Tabs |-> <<>>]
  /\ actor = [t \in Tabs |-> NoIdentity] /\ overlapped = [t \in Tabs |-> FALSE]
  /\ crossed = [t \in Tabs |-> FALSE]

(***************************************************************************)
(* IdleManager                                                             *)
(***************************************************************************)

\* _resetTimer
ResetTimer(t) ==
  /\ timer' = [timer EXCEPT ![t] = now + IdleTimeout]
  /\ active' = [active EXCEPT ![t] = now]

\* Mutant: the manager starts to watch with the first event.
WatchLazily(t) ==
  IF manager[t] THEN UNCHANGED idleVars
  ELSE /\ manager' = [manager EXCEPT ![t] = TRUE]
       /\ active' = [active EXCEPT ![t] = now]
       /\ UNCHANGED timer

\* IdleManager.create, once for a client: the constructor registers listeners
\* and starts the timer.
Watch(t) ==
  IF manager[t] THEN UNCHANGED idleVars
  ELSE manager' = [manager EXCEPT ![t] = TRUE] /\ ResetTimer(t)

\* The user moves the mouse.  The listeners are those of the constructor: exit()
\* removes freshly bound functions, so that they are heard after it as well.
Event(t) ==
  /\ manager[t]
  /\ timer[t] # now + IdleTimeout
  /\ ResetTimer(t)
  /\ UNCHANGED <<vars, use, manager, hookVars, crossed>>

\* The timer fires and exit() runs the callbacks.  A plain client logs out and
\* reloads the page, but create() registers that callback last, after the storing of
\* a new key; the hook's callback calls the logout of the first render, which sees no
\* client.
Exit(t) ==
  /\ timer[t] \notin {NoTimer, Missed} /\ now >= timer[t]
  /\ \/ /\ use[t] = "plain" /\ IdleOut(t)
        /\ timer' = [timer EXCEPT ![t] = NoTimer]
     \/ /\ use[t] = "plain" /\ pc[t] # "ready"
        /\ timer' = [timer EXCEPT ![t] = Missed] /\ UNCHANGED vars
     \/ /\ use[t] = "hook"
        /\ timer' = [timer EXCEPT ![t] = NoTimer] /\ UNCHANGED vars
  /\ UNCHANGED <<use, manager, active, hookVars, crossed>>

(***************************************************************************)
(* The effects and callbacks of the hook                                   *)
(***************************************************************************)

Show(t, s) == shown' = [shown EXCEPT ![t] = s]

\* createActor, whose promise is resolved by ActorCreated; the options leave the agent
\* to it (an agent they give keeps an identity of its own, which the hook never sets).
CreateActor(t, signer) ==
  /\ Len(creating[t]) < MaxCreating
  /\ creating' = [creating EXCEPT ![t] = Append(@, signer)]
  /\ overlapped' = [overlapped EXCEPT ![t] = @ \/ creating[t] # <<>>]

ActorCreated(t) ==
  /\ \E i \in DOMAIN creating[t] :
       /\ actor' = [actor EXCEPT ![t] = creating[t][i]]
       /\ creating' = [creating EXCEPT ![t] = RemoveAt(@, i)]
  /\ UNCHANGED <<vars, use, idleVars, shown, overlapped, crossed>>

\* The promise of AuthClient.create resolves: the hook takes over what the client
\* says, and the effect on the identity creates an actor.
ClientCreated(t) ==
  /\ use[t] = "hook" /\ pc[t] = "ready" /\ ~shown[t].client
  /\ Show(t, [client |-> TRUE, identity |-> identity[t],
              auth |-> identity[t] # NoChain /\ Valid(chain[t])])
  /\ CreateActor(t, identity[t])
  /\ UNCHANGED <<vars, use, idleVars, actor, crossed>>

\* onSuccess of the hook's login.
ShowLogin(t) ==
  /\ Show(t, [shown[t] EXCEPT !.identity = identity[t], !.auth = TRUE])
  /\ CreateActor(t, identity[t])
  /\ UNCHANGED actor

\* Mutant: the hook leaves what it shows as it is.
ShowLogoutNot(t) == UNCHANGED hookVars

\* The hook's logout, up to its first await: the identity is null, and the effect
\* leaves the actor as it is.
ShowLogout(t) ==
  /\ Show(t, [shown[t] EXCEPT !.identity = NoIdentity, !.auth = FALSE])
  /\ UNCHANGED <<creating, actor, overlapped>>

\* Mutant: the actor of the old identity stays.
ShowLoggedOutNot(t) == UNCHANGED hookVars

\* The rest of it: an actor without identity.
ShowLoggedOut(t) ==
  /\ CreateActor(t, NoChain)
  /\ UNCHANGED <<shown, actor>>

(***************************************************************************)
(* The page                                                                *)
(***************************************************************************)

Hooked(t, effect) == IF use[t] = "hook" THEN effect ELSE UNCHANGED hookVars

\* create() makes an idle manager for the chain it has read, an expired one too,
\* before it generates a key.
PageCreates(t) ==
  /\ Create(t)
  /\ IF chain'[t] # NoChain /\ pc[t] # "setKey" /\ pc'[t] \in {"ready", "setKey"}
     THEN Watch(t) ELSE UNCHANGED idleVars
  /\ UNCHANGED <<use, hookVars, crossed>>

PageLogsIn(t) ==
  /\ use[t] = "hook" => shown[t].client
  /\ LoginSucceeds(t) /\ Watch(t)
  /\ crossed' = [crossed EXCEPT ![t] = @ \/ logout[t] \in {"key", "chain", "iv"}]
  /\ UNCHANGED <<use, hookVars>>

PageSaved(t) ==
  /\ Saved(t) /\ Hooked(t, ShowLogin(t))
  /\ UNCHANGED <<use, idleVars, crossed>>

PageLogsOut(t) ==
  /\ use[t] = "hook" => shown[t].client
  /\ Logout(t) /\ Hooked(t, ShowLogout(t))
  /\ crossed' = [crossed EXCEPT ![t] = @ \/ saving[t] # NoChain]
  /\ UNCHANGED <<use, idleVars>>

PageLoggedOut(t) ==
  /\ LogoutReset(t) /\ Hooked(t, ShowLoggedOut(t))
  /\ UNCHANGED <<use, idleVars, crossed>>

PageAwaits(t) ==
  /\ SaveRefused(t) \/ LogoutKey(t) \/ LogoutChain(t) \/ LogoutRefused(t)
  /\ UNCHANGED <<use, idleVars, hookVars, crossed>>

PageReloaded(t) ==
  /\ Reload(t)
  /\ manager' = [manager EXCEPT ![t] = FALSE]
  /\ timer' = [timer EXCEPT ![t] = NoTimer] /\ active' = [active EXCEPT ![t] = 0]
  /\ shown' = [shown EXCEPT ![t] = NothingYet]
  /\ creating' = [creating EXCEPT ![t] = <<>>]
  /\ actor' = [actor EXCEPT ![t] = NoIdentity]
  /\ overlapped' = [overlapped EXCEPT ![t] = FALSE]
  /\ crossed' = [crossed EXCEPT ![t] = FALSE]
  /\ UNCHANGED use

PageNext ==
  \/ Tick /\ UNCHANGED <<use, idleVars, hookVars, crossed>>
  \/ \E t \in Tabs :
       \/ Event(t) \/ Exit(t)
       \/ ClientCreated(t) \/ ActorCreated(t)
       \/ PageCreates(t) \/ PageLogsIn(t) \/ PageSaved(t)
       \/ PageLogsOut(t) \/ PageLoggedOut(t) \/ PageAwaits(t) \/ PageReloaded(t)

PageSpec == PageInit /\ [][PageNext]_pageVars

(***************************************************************************)
(* Properties                                                              *)
(***************************************************************************)

\* Types of the manager's and the hook's state; what a page shows before it has a
\* client is nothing.
PageTypeOK ==
  LET Identities == Chains \union {NoIdentity}
  IN  /\ TypeOK
      /\ use \in [Tabs -> {"plain", "hook"}]
      /\ manager \in [Tabs -> BOOLEAN]
      /\ timer \in [Tabs -> Nat \union {NoTimer, Missed}] /\ active \in [Tabs -> Nat]
      /\ shown \in [Tabs -> [client : BOOLEAN, identity : Identities, auth : BOOLEAN]]
      /\ creating \in [Tabs -> Seq(Identities)]
      /\ actor \in [Tabs -> Identities] /\ overlapped \in [Tabs -> BOOLEAN]
      /\ crossed \in [Tabs -> BOOLEAN]
      /\ \A t \in Tabs : ~shown[t].client => shown[t] = NothingYet

\* A plain page that is logged in is watched, however it got its session: unless the
\* manager has just logged it out, its timer fires no later than the idle timeout
\* after the last event.  Left out is a timer that fired while create() was storing a
\* key: nothing restarts it but the next event.
SessionWatched ==
  \A t \in Tabs :
    use[t] = "plain" /\ LoggedIn(t) /\ ~idle[t] /\ timer[t] # Missed =>
      /\ manager[t] /\ timer[t] # NoTimer
      /\ timer[t] <= active[t] + IdleTimeout

\* With nothing under way the hook shows an authenticated user exactly when its
\* client is logged in, and shows the client's identity; unless a login was being
\* stored during a logout, or the storage refused something.
ShownMatchesClient ==
  \A t \in Tabs :
    shown[t].client /\ AtRest(t) /\ ~crossed[t] /\ ~refused[t] =>
      /\ shown[t].auth => shown[t].identity = identity[t] /\ LoggedIn(t)
      /\ LoggedIn(t) /\ Valid(identity[t]) => shown[t].auth

\* With nothing under way the hook's actor signs with the identity shown, and is
\* anonymous after a logout; unless two actors were being created at once, which
\* may be resolved in any order.
ActorFollowsIdentity ==
  \A t \in Tabs :
    /\ shown[t].client /\ creating[t] = <<>>
    /\ AtRest(t) /\ ~crossed[t] /\ ~refused[t] /\ ~overlapped[t]
    => actor[t] = IF shown[t].identity = NoIdentity THEN NoChain ELSE shown[t].identity
=============================================================================
