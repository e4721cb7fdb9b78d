----------------------------- MODULE AuthLogin -----------------------------
(***************************************************************************)
(* The login window of AuthClient (packages/auth-client/src/index.ts):     *)
(* login() opens a window of the identity provider, listens to its         *)
(* messages, and polls every 500 ms whether the user closed it.  The window *)
(* and the listener are fields of the client, the poll and the callbacks   *)
(* belong to one call of login().  What is stored is modelled in           *)
(* AuthSession; here storing the delegation only takes time, and may fail. *)
(***************************************************************************)
EXTENDS Integers

CONSTANTS
  MaxLogins,   \* bound: calls of login()
  Environments \* what may happen: see Environment

\* overlap: login() is called while an earlier one is under way; retry: onError may
\* call login(); blocked: the browser may block the window; faults: storing the
\* delegation may fail.
Environment == [overlap : BOOLEAN, retry : BOOLEAN, blocked : BOOLEAN, faults : BOOLEAN]

ASSUME LoginAssumption ==
  /\ MaxLogins \in Nat \ {0}
  /\ Environments \subseteq Environment

Logins == 1 .. MaxLogins
None   == 0

VARIABLES
  env,       \* the environment of this run
  last,      \* calls of login() so far; a call and its window have its number
  handler,   \* _eventHandler: the call it was made for
  listeners, \* handlers registered with window.addEventListener
  idpWindow, \* _idpWindow
  phase,     \* of each window: what the provider in it is doing
  inbox,     \* messages posted to the page and not yet handled
  checks,    \* calls whose checkInterruption is scheduled
  saving,    \* calls whose success is being stored
  called,    \* callbacks of each call that were called: "success", "error"
  retried    \* history: calls of login() made by onError

vars == <<env, last, handler, listeners, idpWindow, phase, inbox, checks, saving, called,
          retried>>

\* "asked" and "answered" windows have had the session key sent to them.
Phases   == {"none", "new", "ready", "asked", "answered", "closed"}
Kinds    == {"authorize-ready", "authorize-client-success", "authorize-client-failure"}
Messages == [kind : Kinds, from : Logins]

Open(w) == phase[w] \notin {"none", "closed"}

Init ==
  /\ env \in Environments
  /\ last = 0 /\ handler = None /\ listeners = {} /\ idpWindow = None
  /\ phase = [w \in Logins |-> "none"]
  /\ inbox = {} /\ checks = {} /\ saving = {}
  /\ called = [l \in Logins |-> {}] /\ retried = {}

(***************************************************************************)
(* The user and the identity provider                                      *)
(***************************************************************************)

UserCloses(w) ==
  /\ Open(w)
  /\ phase' = [phase EXCEPT ![w] = "closed"]
  /\ UNCHANGED <<env, last, handler, listeners, idpWindow, inbox, checks, saving,
                 called, retried>>

ProviderReady(w) ==
  /\ phase[w] = "new"
  /\ phase' = [phase EXCEPT ![w] = "ready"]
  /\ inbox' = inbox \union {[kind |-> "authorize-ready", from |-> w]}
  /\ UNCHANGED <<env, last, handler, listeners, idpWindow, checks, saving, called,
                 retried>>

ProviderAnswers(w) ==
  /\ phase[w] = "asked"
  /\ phase' = [phase EXCEPT ![w] = "answered"]
  /\ \E k \in {"authorize-client-success", "authorize-client-failure"} :
       inbox' = inbox \union {[kind |-> k, from |-> w]}
  /\ UNCHANGED <<env, last, handler, listeners, idpWindow, checks, saving, called,
                 retried>>

(***************************************************************************)
(* login                                                                   *)
(***************************************************************************)

\* _idpWindow?.close()
WithoutWindow(ph) ==
  IF idpWindow = None THEN ph ELSE [ph EXCEPT ![idpWindow] = "closed"]

\* No earlier call has anything left to do.
Quiet == handler = None /\ checks = {} /\ saving = {}

\* login() makes call l: its window gets the name of the earlier ones, so that one
\* that is open is closed or taken over.  The check is scheduled for a window only.
Opened(l) == [w \in Logins |-> IF w = l THEN "new" ELSE IF Open(w) THEN "closed" ELSE phase[w]]

Blocked == env.blocked /\ \A w \in Logins : Open(w) => w = idpWindow

\* Mutant: login leaves the listener of the earlier call.
LoginListening ==
  LET l == last + 1
  IN  /\ last < MaxLogins /\ (env.overlap \/ Quiet)
      /\ last' = l /\ handler' = l
      /\ listeners' = listeners \union {l}
      /\ phase' = Opened(l) /\ idpWindow' = l
      /\ checks' = checks \union {l}
      /\ UNCHANGED <<env, inbox, saving, called, retried>>

\* The window and the listener of an earlier call go, its check does not.
Login ==
  LET l == last + 1
  IN  /\ last < MaxLogins /\ (env.overlap \/ Quiet)
      /\ last' = l /\ handler' = l
      /\ listeners' = (listeners \ {handler}) \union {l}
      /\ \/ /\ phase' = Opened(l) /\ idpWindow' = l
            /\ checks' = checks \union {l}
         \/ /\ Blocked
            /\ phase' = WithoutWindow(phase) /\ idpWindow' = None
            /\ UNCHANGED checks
      /\ UNCHANGED <<env, inbox, saving, called, retried>>

\* Listener and window are forgotten: those of the latest call, whichever call this
\* is done for.
Forget == listeners' = listeners \ {handler} /\ handler' = None /\ idpWindow' = None

Call(l, callback) == called' = [called EXCEPT ![l] = @ \union {callback}]

\* Mutant: the failure is not reported.
HandleFailureSilent(l, left) ==
  /\ Forget /\ phase' = WithoutWindow(phase) /\ checks' = left
  /\ UNCHANGED <<last, called, retried>>

\* The window is closed, onError is called, and then the rest is forgotten: if onError
\* calls login(), the window and the listener are those that it has just made.
HandleFailure(l, left) ==
  /\ Forget /\ Call(l, "error")
  /\ \/ /\ phase' = WithoutWindow(phase) /\ checks' = left
        /\ UNCHANGED <<last, retried>>
     \/ /\ env.retry /\ last < MaxLogins
        /\ last' = last + 1 /\ retried' = retried \union {last + 1}
        /\ \/ phase' = Opened(last + 1) /\ checks' = left \union {last + 1}
           \/ Blocked /\ phase' = WithoutWindow(phase) /\ checks' = left

(***************************************************************************)
(* Messages and timers                                                     *)
(***************************************************************************)

Received(l, m) == l \in listeners /\ m \in inbox /\ inbox' = inbox \ {m}

\* The request goes to the current window, whichever window was ready.
OnReady(l, m) ==
  /\ Received(l, m) /\ m.kind = "authorize-ready"
  /\ phase' = IF idpWindow # None /\ phase[idpWindow] = "ready"
                THEN [phase EXCEPT ![idpWindow] = "asked"] ELSE phase
  /\ UNCHANGED <<env, last, handler, listeners, idpWindow, checks, saving, called,
                 retried>>

\* _handleSuccess up to the storing of the delegation.
OnSuccess(l, m) ==
  /\ Received(l, m) /\ m.kind = "authorize-client-success"
  /\ Forget /\ phase' = WithoutWindow(phase)
  /\ saving' = saving \union {l}
  /\ UNCHANGED <<env, last, checks, called, retried>>

OnFailure(l, m) ==
  /\ Received(l, m) /\ m.kind = "authorize-client-failure"
  /\ HandleFailure(l, checks)
  /\ UNCHANGED <<env, saving>>

\* A message that no handler is registered for.
Unheard(m) ==
  /\ listeners = {} /\ m \in inbox /\ inbox' = inbox \ {m}
  /\ UNCHANGED <<env, last, handler, listeners, idpWindow, phase, checks, saving,
                 called, retried>>

Saved(l) ==
  /\ l \in saving /\ saving' = saving \ {l}
  /\ Call(l, "success")
  /\ UNCHANGED <<env, last, handler, listeners, idpWindow, phase, inbox, checks,
                 retried>>

SaveFails(l) ==
  /\ env.faults
  /\ l \in saving /\ saving' = saving \ {l}
  /\ HandleFailure(l, checks)
  /\ UNCHANGED <<env, inbox>>

\* checkInterruption looks at the current window; while that is open it is
\* scheduled again, and nothing changes.
Check(l) ==
  /\ l \in checks
  /\ \/ /\ idpWindow = None /\ checks' = checks \ {l}
        /\ UNCHANGED <<last, handler, listeners, idpWindow, phase, called, retried>>
     \/ /\ idpWindow # None /\ phase[idpWindow] = "closed"
        /\ HandleFailure(l, checks \ {l})
  /\ UNCHANGED <<env, inbox, saving>>

Client ==
  \/ \E l \in Logins, m \in inbox : OnReady(l, m) \/ OnSuccess(l, m) \/ OnFailure(l, m)
  \/ \E m \in inbox : Unheard(m)
  \/ \E l \in Logins : Saved(l) \/ SaveFails(l)

Next ==
  \/ Login \/ Client
  \/ \E l \in Logins :
       Check(l) \/ UserCloses(l) \/ ProviderReady(l) \/ ProviderAnswers(l)

Spec == Init /\ [][Next]_vars

\* Events are handled, timers fire, and in the end the user closes the window.
\* The provider need not do anything.
FairSpec ==
  /\ Spec /\ WF_vars(Client)
  /\ \A l \in Logins : WF_vars(Check(l)) /\ WF_vars(UserCloses(l))

(***************************************************************************)
(* Properties                                                              *)
(***************************************************************************)

\* Types; the window the client holds is that of the call it listens for.
TypeOK ==
  /\ env \in Environments
  /\ last \in 0 .. MaxLogins /\ handler \in {None} \union Logins
  /\ listeners \subseteq Logins /\ idpWindow \in {None} \union Logins
  /\ phase \in [Logins -> Phases] /\ inbox \subseteq Messages
  /\ checks \subseteq Logins /\ saving \subseteq Logins /\ retried \subseteq Logins
  /\ called \in [Logins -> SUBSET {"success", "error"}]
  /\ idpWindow # None => idpWindow = handler

\* However logins, answers, failed stores and checks overlap: only the latest login
\* listens, only its window is open, and a window is open only while the client
\* listens; but for a login that was made by onError, whose window stays open though
\* the client has forgotten it.
OneLoginAtATime ==
  /\ listeners \subseteq {last} /\ listeners = {handler} \ {None}
  /\ \A w \in Logins :
       Open(w) => w = last /\ (w \in retried \/ (idpWindow = w /\ handler = w))

\* With logins one after the other, each calls one of its callbacks, unless its window
\* is blocked or it was made by onError.  (Where logins overlap, the check of the
\* earlier one may end the later one unheard.)
SingleLoginAnswered ==
  \A l \in Logins :
    l <= last /\ l \notin retried /\ ~env.blocked /\ ~env.overlap ~> called[l] # {}
=============================================================================
