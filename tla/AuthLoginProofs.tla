-------------------------- MODULE AuthLoginProofs --------------------------
(***************************************************************************)
(* Theorems about AuthLogin, for every number of logins.                   *)
(***************************************************************************)
EXTENDS AuthLogin, TLAPS

\* No window exists for a call that was not made yet.
WindowInv ==
  /\ TypeOK /\ OneLoginAtATime
  /\ handler <= last
  /\ \A w \in Logins : w > last => phase[w] = "none"

LEMMA InitWindow == Init => WindowInv
BY LoginAssumption DEF Init, WindowInv, TypeOK, OneLoginAtATime, Logins, None, Phases, Open

\* The window of the client is closed; one that onError's login left stays open.
LEMMA Closed ==
  ASSUME WindowInv
  PROVE  /\ WithoutWindow(phase) \in [Logins -> Phases]
         /\ \A w \in Logins :
              /\ w > last => WithoutWindow(phase)[w] = "none"
              /\ WithoutWindow(phase)[w] \notin {"none", "closed"} =>
                   Open(w) /\ w # idpWindow /\ w = last /\ w \in retried
<1>1. WithoutWindow(phase) \in [Logins -> Phases]
  BY DEF WithoutWindow, WindowInv, TypeOK, Phases
<1>2. ASSUME NEW w \in Logins, WithoutWindow(phase)[w] \notin {"none", "closed"}
      PROVE  Open(w) /\ w # idpWindow /\ w = last /\ w \in retried
  <2>1. w # idpWindow /\ phase[w] = WithoutWindow(phase)[w]
    BY <1>2 DEF WithoutWindow, WindowInv, TypeOK, Logins, None
  <2>2. Open(w)
    BY <1>2, <2>1 DEF Open
  <2> QED
    BY <2>1, <2>2 DEF WindowInv, OneLoginAtATime
<1>3. ASSUME NEW w \in Logins, w > last PROVE WithoutWindow(phase)[w] = "none"
  <2>1. idpWindow # w
    BY <1>3, LoginAssumption DEF WindowInv, TypeOK, Logins, None
  <2> QED
    BY <1>3, <2>1 DEF WithoutWindow, WindowInv, TypeOK
<1> QED
  BY <1>1, <1>2, <1>3

\* A new window is the only one that is open.
LEMMA OpenedOnly ==
  ASSUME WindowInv, NEW l \in Logins, l = last + 1
  PROVE  /\ Opened(l) \in [Logins -> Phases]
         /\ \A w \in Logins :
              /\ w > l => Opened(l)[w] = "none"
              /\ Opened(l)[w] \notin {"none", "closed"} => w = l
<1>1. Opened(l) \in [Logins -> Phases]
  BY DEF Opened, Open, WindowInv, TypeOK, Phases
<1>2. ASSUME NEW w \in Logins, w > l PROVE Opened(l)[w] = "none"
  BY <1>2, LoginAssumption DEF Opened, Open, WindowInv, TypeOK, Logins
<1>3. ASSUME NEW w \in Logins, w # l PROVE Opened(l)[w] \in {"none", "closed"}
  BY <1>3 DEF Opened, Open
<1> QED
  BY <1>1, <1>2, <1>3

\* After Forget nobody listens, and no window is open but one of a login that was made
\* by onError.
LEMMA ForgetWindow ==
  ASSUME WindowInv, Forget, UNCHANGED env,
         last' \in 0 .. MaxLogins, last <= last', retried' \subseteq Logins,
         phase' \in [Logins -> Phases],
         \A w \in Logins : w > last' => phase'[w] = "none",
         \A w \in Logins : phase'[w] \notin {"none", "closed"} => w = last' /\ w \in retried',
         inbox' \subseteq Messages, checks' \subseteq Logins, saving' \subseteq Logins,
         called' \in [Logins -> SUBSET {"success", "error"}]
  PROVE  WindowInv'
<1>1. listeners' = {} /\ handler' = None /\ idpWindow' = None
  BY DEF Forget, WindowInv, OneLoginAtATime
<1>2. OneLoginAtATime'
  BY <1>1 DEF OneLoginAtATime, Open
<1>3. TypeOK'
  BY <1>1 DEF WindowInv, TypeOK
<1>4. handler' <= last'
  BY <1>1, LoginAssumption DEF None
<1> QED
  BY <1>1, <1>2, <1>3, <1>4 DEF WindowInv

\* The window of the client is closed and forgotten, without another login.
LEMMA CloseWindow ==
  ASSUME WindowInv, Forget, phase' = WithoutWindow(phase), UNCHANGED <<env, last, retried>>,
         inbox' \subseteq Messages, checks' \subseteq Logins, saving' \subseteq Logins,
         called' \in [Logins -> SUBSET {"success", "error"}]
  PROVE  WindowInv'
<1>1. last' \in 0 .. MaxLogins /\ last <= last' /\ retried' \subseteq Logins
  BY LoginAssumption DEF WindowInv, TypeOK
<1> QED
  BY <1>1, Closed, ForgetWindow

LEMMA CallType ==
  ASSUME TypeOK, NEW l \in Logins, NEW c \in {"success", "error"}, Call(l, c)
  PROVE  called' \in [Logins -> SUBSET {"success", "error"}]
BY DEF TypeOK, Call

\* A failure is reported, and onError may call login().
LEMMA FailureWindow ==
  ASSUME WindowInv, NEW l \in Logins, NEW left \in SUBSET Logins, HandleFailure(l, left),
         UNCHANGED env, inbox' \subseteq Messages, saving' \subseteq Logins
  PROVE  WindowInv'
<1>1. TypeOK /\ Forget /\ called' \in [Logins -> SUBSET {"success", "error"}]
  BY CallType DEF WindowInv, HandleFailure
<1>2. CASE phase' = WithoutWindow(phase) /\ checks' = left /\ UNCHANGED <<last, retried>>
  BY <1>1, <1>2, CloseWindow
<1>3. CASE /\ last < MaxLogins /\ last' = last + 1 /\ retried' = retried \union {last + 1}
           /\ \/ phase' = Opened(last + 1) /\ checks' = left \union {last + 1}
              \/ Blocked /\ phase' = WithoutWindow(phase) /\ checks' = left
  <2>1. /\ last + 1 \in Logins /\ last' \in 0 .. MaxLogins /\ last <= last'
        /\ retried' \subseteq Logins
    BY <1>1, <1>3, LoginAssumption DEF TypeOK, Logins
  <2>2. CASE phase' = Opened(last + 1) /\ checks' = left \union {last + 1}
    BY <1>1, <1>3, <2>1, <2>2, OpenedOnly, ForgetWindow
  <2>3. CASE Blocked /\ phase' = WithoutWindow(phase) /\ checks' = left
    <3>1. \A w \in Logins : phase'[w] \in {"none", "closed"}
      BY <2>3, Closed DEF Blocked
    <3>2. \A w \in Logins : w > last' => phase'[w] = "none"
      BY <1>1, <1>3, <2>3, Closed, LoginAssumption DEF TypeOK, Logins
    <3> QED
      BY <1>1, <2>1, <2>3, <3>1, <3>2, Closed, ForgetWindow
  <2> QED
    BY <1>3, <2>2, <2>3
<1> QED
  BY <1>2, <1>3 DEF HandleFailure

\* A step that leaves listener and windows alone.
LEMMA WindowKept ==
  ASSUME WindowInv, UNCHANGED <<env, last, handler, listeners, idpWindow, phase, retried>>,
         inbox' \subseteq Messages, checks' \subseteq Logins, saving' \subseteq Logins,
         called' \in [Logins -> SUBSET {"success", "error"}]
  PROVE  WindowInv'
BY DEF WindowInv, TypeOK, OneLoginAtATime, Open

\* A window that is open, or was just opened, changes what it is doing.
LEMMA WindowMoves ==
  ASSUME WindowInv, NEW w \in Logins, NEW ph \in Phases \ {"none"},
         phase[w] # "none", ph # "closed" => Open(w),
         phase' = [phase EXCEPT ![w] = ph],
         UNCHANGED <<env, last, handler, listeners, idpWindow, checks, saving, called, retried>>,
         inbox' \subseteq Messages
  PROVE  WindowInv'
<1>1. phase' \in [Logins -> Phases]
  BY DEF WindowInv, TypeOK
<1>2. \A v \in Logins : Open(v)' => Open(v)
  BY DEF Open, WindowInv, TypeOK
<1>3. \A v \in Logins : v > last => phase'[v] = "none"
  BY DEF WindowInv, TypeOK
<1> QED
  BY <1>1, <1>2, <1>3 DEF WindowInv, TypeOK, OneLoginAtATime

LEMMA LoginWindow == WindowInv /\ Login => WindowInv'
<1> SUFFICES ASSUME WindowInv, Login PROVE WindowInv'
  OBVIOUS
<1> DEFINE l == last + 1
<1> USE LoginAssumption
<1>1. l \in Logins /\ l > last /\ l # None
  BY DEF Login, WindowInv, TypeOK, Logins, None
<1>2. last' = l /\ handler' = l /\ listeners' = {l}
  BY DEF Login, WindowInv, OneLoginAtATime
<1>3. UNCHANGED <<env, inbox, saving, called, retried>> /\ checks' \subseteq Logins
  BY <1>1 DEF Login, WindowInv, TypeOK
<1>4. CASE phase' = Opened(l) /\ idpWindow' = l
  <2>3. phase' \in [Logins -> Phases] /\ \A w \in Logins : Open(w)' => w = l
    BY <1>1, <1>4, OpenedOnly DEF Open
  <2>4. \A w \in Logins : w > l => phase'[w] = "none"
    BY <1>1, <1>4, OpenedOnly
  <2> HIDE DEF l
  <2>5. OneLoginAtATime'
    BY <1>1, <1>2, <1>4, <2>3 DEF OneLoginAtATime
  <2>6. TypeOK'
    <3>1. idpWindow' = l
      BY <1>4
    <3>2. last' \in 0 .. MaxLogins
      BY <1>1, <1>2 DEF Logins
    <3> QED
      BY <1>1, <1>2, <1>3, <2>3, <3>1, <3>2 DEF WindowInv, TypeOK
  <2>7. handler' <= last'
    BY <1>1, <1>2 DEF Logins
  <2> QED
    BY <1>2, <2>4, <2>5, <2>6, <2>7 DEF WindowInv
<1>5. CASE Blocked /\ phase' = WithoutWindow(phase) /\ idpWindow' = None
  <2>1. phase' \in [Logins -> Phases] /\ \A w \in Logins : ~Open(w)'
    BY <1>5, Closed DEF Open, Blocked
  <2>2. \A w \in Logins : w > l => phase'[w] = "none"
    BY <1>5, Closed DEF WindowInv, TypeOK, Logins
  <2> HIDE DEF l
  <2> QED
    BY <1>1, <1>2, <1>3, <1>5, <2>1, <2>2 DEF WindowInv, TypeOK, OneLoginAtATime, Logins
<1> QED
  BY <1>4, <1>5 DEF Login

LEMMA StepWindow == WindowInv /\ [Next]_vars => WindowInv'
<1> SUFFICES ASSUME WindowInv, [Next]_vars PROVE WindowInv'
  OBVIOUS
<1>0. TypeOK
  BY DEF WindowInv
<1>1. CASE UNCHANGED vars
  BY <1>0, <1>1, WindowKept DEF vars, TypeOK
<1>2. CASE Login
  BY <1>2, LoginWindow
<1>3. ASSUME NEW w \in Logins, UserCloses(w) PROVE WindowInv'
  BY <1>0, <1>3, WindowMoves DEF UserCloses, Open, Phases, TypeOK
<1>4. ASSUME NEW w \in Logins, ProviderReady(w) PROVE WindowInv'
  <2>1. inbox' \subseteq Messages
    BY <1>0, <1>4 DEF ProviderReady, TypeOK, Messages, Kinds
  <2> QED
    BY <1>4, <2>1, WindowMoves DEF ProviderReady, Open, Phases
<1>5. ASSUME NEW w \in Logins, ProviderAnswers(w) PROVE WindowInv'
  <2>1. inbox' \subseteq Messages
    BY <1>0, <1>5 DEF ProviderAnswers, TypeOK, Messages, Kinds
  <2> QED
    BY <1>5, <2>1, WindowMoves DEF ProviderAnswers, Open, Phases
<1>6. ASSUME NEW l \in Logins, NEW m \in inbox, OnReady(l, m) PROVE WindowInv'
  <2>1. inbox' \subseteq Messages
    BY <1>0, <1>6 DEF OnReady, Received, TypeOK
  <2>2. CASE idpWindow # None /\ phase[idpWindow] = "ready"
    <3>1. idpWindow \in Logins
      BY <1>0, <2>2 DEF TypeOK
    <3> QED
      BY <1>6, <2>1, <2>2, <3>1, WindowMoves DEF OnReady, Open, Phases
  <2>3. CASE UNCHANGED phase
    BY <1>0, <1>6, <2>1, <2>3, WindowKept DEF OnReady, TypeOK
  <2> QED
    BY <1>6, <2>2, <2>3 DEF OnReady
<1>7. ASSUME NEW l \in Logins, NEW m \in inbox, OnSuccess(l, m) PROVE WindowInv'
  BY <1>0, <1>7, CloseWindow DEF OnSuccess, Received, TypeOK
<1>8. ASSUME NEW l \in Logins, NEW m \in inbox, OnFailure(l, m) PROVE WindowInv'
  BY <1>0, <1>8, FailureWindow DEF OnFailure, Received, TypeOK
<1>9. ASSUME NEW m \in inbox, Unheard(m) PROVE WindowInv'
  BY <1>0, <1>9, WindowKept DEF Unheard, TypeOK
<1>10. ASSUME NEW l \in Logins, Saved(l) PROVE WindowInv'
  BY <1>0, <1>10, WindowKept, CallType DEF Saved, TypeOK
<1>11. ASSUME NEW l \in Logins, SaveFails(l) PROVE WindowInv'
  BY <1>0, <1>11, FailureWindow DEF SaveFails, TypeOK
<1>12. ASSUME NEW l \in Logins, Check(l) PROVE WindowInv'
  <2>1. CASE HandleFailure(l, checks \ {l})
    <3>1. checks \ {l} \in SUBSET Logins
      BY <1>0 DEF TypeOK
    <3> QED
      BY <1>0, <1>12, <2>1, <3>1, FailureWindow DEF Check, TypeOK
  <2>2. CASE /\ checks' = checks \ {l}
             /\ UNCHANGED <<last, handler, listeners, idpWindow, phase, called, retried>>
    BY <1>0, <1>12, <2>2, WindowKept DEF Check, TypeOK
  <2> QED
    BY <1>12, <2>1, <2>2 DEF Check
<1> QED
  BY <1>1, <1>2, <1>3, <1>4, <1>5, <1>6, <1>7, <1>8, <1>9, <1>10, <1>11, <1>12
  DEF Next, Client

\* Every reachable state is well typed, and the window the client holds belongs
\* to the call it listens for.
THEOREM TypeCorrect == Spec => []TypeOK
<1>1. WindowInv => TypeOK
  BY DEF WindowInv
<1> QED
  BY <1>1, InitWindow, StepWindow, PTL DEF Spec

\* However many calls of login() overlap, and whichever of them onError makes: only the
\* latest one listens, only its window is open, and no window stays open that nobody
\* listens to but that of a login made by onError.
THEOREM LatestLoginOnly == Spec => []OneLoginAtATime
<1>1. WindowInv => OneLoginAtATime
  BY DEF WindowInv
<1> QED
  BY <1>1, InitWindow, StepWindow, PTL DEF Spec
=============================================================================
