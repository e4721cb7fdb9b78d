---------------------------- MODULE AuthPageProofs ----------------------------
(* Proofs about AuthSession and AuthPage: what holds of the session of a page, *)
(* for every life of a delegation and every idle timeout.                      *)
EXTENDS AuthPage, TLAPS

-----------------------------------------------------------------------------
(* Types *)

LEMMA ChainType ==
  ASSUME NEW k \in Keys, NEW n \in Nat
  PROVE  [key |-> k, until |-> n] \in Chains
BY Zenon DEF Chains

LEMMA Constants ==
  /\ NoKey \in Keys /\ OldKey \in Keys /\ NoKey # OldKey
  /\ NoChain \in Chains /\ OldChain \in Chains
<1>1. NoKey \in Keys /\ OldKey \in Keys /\ NoKey # OldKey
  BY SessionAssumption DEF Keys, NoKey, OldKey
<1>2. 0 \in Nat /\ Life \in Nat
  BY SessionAssumption
<1> QED
  BY <1>1, <1>2, ChainType DEF NoChain, OldChain

LEMMA TypeInit == Init => TypeOK
<1> HAVE Init
<1>1. generated \in Keys /\ local \in BOOLEAN
  BY SessionAssumption, Constants DEF Init, Keys, NoKey, OldKey, Environment
<1> QED
  BY <1>1, SessionAssumption, Constants DEF Init, TypeOK, PCs, LogoutStages

LEMMA TypeStep == TypeOK /\ [Next]_vars => TypeOK'
<1> SUFFICES ASSUME TypeOK, [Next]_vars PROVE TypeOK'
  OBVIOUS
<1> USE SessionAssumption, Constants
<1>1. CASE UNCHANGED vars
  BY <1>1 DEF vars, TypeOK
<1>2. CASE Tick
  BY <1>2 DEF Tick, TypeOK
<1>3. ASSUME NEW t \in Tabs, Create(t) PROVE TypeOK'
  <2>1. CASE GetKey(t)
    BY <2>1 DEF GetKey, Resume, TypeOK, PCs
  <2>2. CASE MoveChain(t)
    BY <2>2 DEF MoveChain, Resume, TypeOK, PCs
  <2>3. CASE MoveKey(t)
    BY <2>3 DEF MoveKey, Resume, TypeOK, PCs
  <2>4. CASE GetChain(t)
    BY <2>4 DEF GetChain, Resume, TypeOK, PCs
  <2>5. CASE WipeKey(t)
    BY <2>5 DEF WipeKey, Resume, TypeOK, PCs
  <2>6. CASE WipeChain(t)
    BY <2>6 DEF WipeChain, Resume, TypeOK, PCs
  <2>7. CASE SetKey(t)
    <3>1. generated' \in Keys /\ generated' # NoKey
      BY <2>7 DEF SetKey, TypeOK, Keys, NoKey
    <3> QED
      BY <2>7, <3>1 DEF SetKey, Resume, TypeOK, PCs
  <2>8. CASE CreateRefused(t)
    BY <2>8 DEF CreateRefused, Resume, TypeOK, PCs
  <2> QED
    BY <1>3, <2>1, <2>2, <2>3, <2>4, <2>5, <2>6, <2>7, <2>8 DEF Create
<1>4. ASSUME NEW t \in Tabs, Use(t) PROVE TypeOK'
  <2>1. CASE LoginSucceeds(t)
    <3>1. now + Life \in Nat /\ key[t] \in Keys
      BY DEF TypeOK
    <3>2. [key |-> key[t], until |-> now + Life] \in Chains
      BY <3>1, ChainType
    <3>3. /\ chain' \in [Tabs -> Chains] /\ identity' \in [Tabs -> Chains]
          /\ saving' \in [Tabs -> Chains]
      BY <2>1, <3>2 DEF LoginSucceeds, TypeOK
    <3> QED
      BY <2>1, <3>3 DEF LoginSucceeds, TypeOK
  <2>2. CASE Saved(t)
    BY <2>2 DEF Saved, TypeOK
  <2>3. CASE SaveRefused(t)
    BY <2>3 DEF SaveRefused, TypeOK
  <2>4. CASE Logout(t)
    BY <2>4 DEF Logout, TypeOK, LogoutStages
  <2>5. CASE IdleOut(t)
    BY <2>5 DEF IdleOut, TypeOK, LogoutStages
  <2>6. CASE LogoutKey(t)
    BY <2>6 DEF LogoutKey, RemovalOver, TypeOK, LogoutStages
  <2>7. CASE LogoutChain(t)
    BY <2>7 DEF LogoutChain, RemovalOver, TypeOK, LogoutStages
  <2>8. CASE LogoutReset(t)
    BY <2>8 DEF LogoutReset, RemovalOver, TypeOK, LogoutStages
  <2>9. CASE LogoutRefused(t)
    BY <2>9 DEF LogoutRefused, RemovalOver, TypeOK, LogoutStages
  <2> QED
    BY <1>4, <2>1, <2>2, <2>3, <2>4, <2>5, <2>6, <2>7, <2>8, <2>9 DEF Use
<1>5. ASSUME NEW t \in Tabs, Reload(t) PROVE TypeOK'
  BY <1>5 DEF Reload, TypeOK, PCs, LogoutStages
<1> QED
  BY <1>1, <1>2, <1>3, <1>4, <1>5 DEF Next

\* Every reachable state is well typed, and a client that is ready has a key.
THEOREM TypeCorrect == Spec => []TypeOK
BY TypeInit, TypeStep, PTL DEF Spec

-----------------------------------------------------------------------------
(* The store and the memory of a page *)

\* What StoredMatchesMemory needs of a page that is alone with its store: until a
\* logout the store holds its key, and its chain unless that is being stored.
StoreOf(t) ==
  /\ pc[t] = "getChain" => storedKey = key[t]
  /\ pc[t] # "ready" => saving[t] = NoChain /\ logout[t] = "none" /\ identity[t] = NoChain
  /\ pc[t] = "ready" /\ logout[t] = "none" /\ ~refused[t] =>
       /\ storedKey = key[t]
       /\ saving[t] = NoChain => identity[t] \in {NoChain, storedChain}
       /\ saving[t] # NoChain => saving[t] = identity[t]
  /\ logout[t] = "done" /\ ~refused[t] => identity[t] = NoChain

StoreInv ==
  /\ TypeOK
  /\ \A t \in Tabs : Tabs = {t} /\ "done" \notin env.loginWhen => StoreOf(t)

LEMMA StoreInit == Init => StoreInv
BY TypeInit DEF Init, StoreInv, StoreOf

LEMMA StoreStep == StoreInv /\ [Next]_vars => StoreInv'
<1> SUFFICES ASSUME StoreInv, [Next]_vars PROVE StoreInv'
  OBVIOUS
<1>1. TypeOK /\ TypeOK'
  BY TypeStep DEF StoreInv
<1>2. env' = env
  BY DEF Next, vars, Tick, Create, GetKey, MoveChain, MoveKey, GetChain, WipeKey, WipeChain,
         SetKey, CreateRefused, Use, LoginSucceeds, Saved, SaveRefused, Logout, IdleOut,
         LogoutKey, LogoutChain, LogoutReset, LogoutRefused, Reload
<1>3. SUFFICES ASSUME NEW t \in Tabs, Tabs = {t}, "done" \notin env.loginWhen
               PROVE  StoreOf(t)'
  BY <1>1, <1>2 DEF StoreInv
<1>4. StoreOf(t)
  BY <1>3 DEF StoreInv
<1>5. CASE UNCHANGED vars \/ Tick
  BY <1>4, <1>5 DEF vars, Tick, StoreOf
<1>6. CASE Create(t)
  <2>1. CASE GetKey(t)
    BY <1>1, <1>4, <2>1 DEF GetKey, Resume, StoreOf, TypeOK
  <2>2. CASE MoveChain(t)
    BY <1>1, <1>4, <2>2 DEF MoveChain, Resume, StoreOf, TypeOK
  <2>3. CASE MoveKey(t)
    BY <1>1, <1>4, <2>3 DEF MoveKey, Resume, StoreOf, TypeOK
  <2>4. CASE GetChain(t)
    BY <1>1, <1>4, <2>4 DEF GetChain, Resume, StoreOf, TypeOK
  <2>5. CASE WipeKey(t)
    BY <1>1, <1>4, <2>5 DEF WipeKey, Resume, StoreOf, TypeOK
  <2>6. CASE WipeChain(t)
    BY <1>1, <1>4, <2>6 DEF WipeChain, Resume, StoreOf, TypeOK
  <2>7. CASE SetKey(t)
    BY <1>1, <1>4, <2>7 DEF SetKey, Resume, StoreOf, TypeOK
  <2>8. CASE CreateRefused(t)
    BY <1>1, <1>4, <2>8 DEF CreateRefused, Resume, StoreOf, TypeOK
  <2> QED
    BY <1>6, <2>1, <2>2, <2>3, <2>4, <2>5, <2>6, <2>7, <2>8 DEF Create
<1>7. CASE Use(t)
  <2>1. CASE LoginSucceeds(t)
    <3>1. saving'[t] = identity'[t] /\ logout'[t] # "done" /\ pc'[t] = "ready"
      BY <1>1, <1>3, <2>1 DEF LoginSucceeds, TypeOK
    <3>2. identity'[t] # NoChain
      <4>1. identity'[t].key = key[t] /\ key[t] # NoKey
        BY <1>1, <2>1 DEF LoginSucceeds, TypeOK
      <4> QED
        BY <4>1 DEF NoChain
    <3> QED
      BY <1>4, <2>1, <3>1, <3>2 DEF LoginSucceeds, StoreOf
  <2>2. CASE Saved(t)
    BY <1>1, <1>4, <2>2 DEF Saved, StoreOf, TypeOK
  <2>3. CASE SaveRefused(t)
    BY <1>1, <1>4, <2>3 DEF SaveRefused, StoreOf, TypeOK
  <2>4. CASE Logout(t) \/ IdleOut(t)
    BY <1>1, <1>4, <2>4 DEF Logout, IdleOut, StoreOf, TypeOK
  <2>5. CASE LogoutKey(t) \/ LogoutChain(t)
    BY <1>1, <1>4, <2>5 DEF LogoutKey, LogoutChain, RemovalOver, StoreOf, TypeOK
  <2>6. CASE LogoutReset(t) \/ LogoutRefused(t)
    BY <1>1, <1>4, <2>6 DEF LogoutReset, LogoutRefused, RemovalOver, StoreOf, TypeOK
  <2> QED
    BY <1>7, <2>1, <2>2, <2>3, <2>4, <2>5, <2>6 DEF Use
<1>8. CASE Reload(t)
  BY <1>1, <1>8 DEF Reload, StoreOf, TypeOK
<1> QED
  BY <1>3, <1>5, <1>6, <1>7, <1>8 DEF Next

\* A reload gives a page that is alone, logged in and at rest the same session
\* again, wherever it was reloaded before and whatever was refused to earlier ones.
THEOREM StoreMatchesMemory == Spec => []StoredMatchesMemory
<1>1. StoreInv => StoredMatchesMemory
  BY DEF StoreInv, StoreOf, StoredMatchesMemory, LoggedIn, AtRest
<1> QED
  BY <1>1, StoreInit, StoreStep, PTL DEF Spec

-----------------------------------------------------------------------------
(* The chain and the key of a page that nothing disturbs *)

Calm == env.loginWhen = {"none"} /\ ~env.legacy /\ ~env.faults

\* What SessionMatchesUndisturbed needs: a stored chain that is still valid was issued
\* to the stored key, but for the time between the removals of a logout.
MatchOf(t) ==
  /\ ~local /\ ~refused[t] /\ ~behind[t]
  /\ pc[t] \notin {"moveChain", "moveKey", "dropKey", "dropChain", "failed"}
  /\ pc[t] \in {"wipeKey", "wipeChain"} => ~Valid(storedChain)
  /\ pc[t] = "setKey" => storedChain = NoChain \/ ~Valid(storedChain)
  /\ storedChain # NoChain => storedChain.key # NoKey
  /\ logout[t] \in {"none", "key"} /\ storedChain # NoChain /\ Valid(storedChain) =>
       storedChain.key = storedKey
  /\ saving[t] # NoChain =>
       pc[t] = "ready" /\ logout[t] \in {"none", "key"} /\ saving[t].key = key[t]
  /\ logout[t] = "key" => storedKey = key[t] \/ (storedKey = NoKey /\ saving[t] = NoChain)
  /\ logout[t] \in {"iv", "done"} => storedChain = NoChain
  /\ logout[t] \in {"chain", "iv", "done"} => storedKey = NoKey
  /\ pc[t] = "ready" /\ identity[t] # NoChain => identity[t].key = key[t]

MatchInv ==
  /\ StoreInv
  /\ \A t \in Tabs : Tabs = {t} /\ Calm /\ ~torn[t] => StoreOf(t) /\ MatchOf(t)

LEMMA MatchInit == Init => MatchInv
<1> HAVE Init
<1>1. StoreInv
  BY StoreInit
<1>2. ASSUME NEW t \in Tabs, Calm PROVE MatchOf(t) /\ StoreOf(t)
  BY <1>2 DEF Init, MatchOf, StoreOf, Calm
<1> QED
  BY <1>1, <1>2 DEF MatchInv

LEMMA MatchStep == MatchInv /\ [Next]_vars => MatchInv'
<1> SUFFICES ASSUME MatchInv, [Next]_vars PROVE MatchInv'
  OBVIOUS
<1>1. TypeOK /\ TypeOK' /\ StoreInv'
  BY TypeStep, StoreStep DEF MatchInv, StoreInv
<1>2. env' = env
  BY DEF Next, vars, Tick, Create, GetKey, MoveChain, MoveKey, GetChain, WipeKey, WipeChain,
         SetKey, CreateRefused, Use, LoginSucceeds, Saved, SaveRefused, Logout, IdleOut,
         LogoutKey, LogoutChain, LogoutReset, LogoutRefused, Reload
<1>3. SUFFICES ASSUME NEW t \in Tabs, Tabs = {t}, Calm, ~torn'[t] PROVE MatchOf(t)'
  BY <1>1, <1>2 DEF MatchInv, StoreInv, Calm
<1>4. StoreOf(t) /\ MatchOf(t)
  <2>1. ~torn[t]
    BY <1>1, <1>3 DEF Next, vars, Tick, Create, GetKey, MoveChain, MoveKey, GetChain, WipeKey,
       WipeChain, SetKey, CreateRefused, Use, LoginSucceeds, Saved, SaveRefused, Logout, IdleOut,
       LogoutKey, LogoutChain, LogoutReset, LogoutRefused, Reload, TypeOK
  <2> QED
    BY <1>3, <2>1 DEF MatchInv
<1>5. now \in Nat /\ storedChain.until \in Nat /\ storedChain \in Chains
  BY <1>1, SessionAssumption DEF TypeOK, Chains
<1>6. CASE UNCHANGED vars
  BY <1>4, <1>6 DEF vars, MatchOf, Valid
<1>7. CASE Tick
  <2>1. Valid(storedChain)' => Valid(storedChain)
    BY <1>5, <1>7 DEF Tick, Valid
  <2> QED
    BY <1>4, <1>7, <2>1 DEF Tick, MatchOf
<1>8. CASE Create(t)
  <2>1. CASE GetKey(t)
    BY <1>1, <1>4, <2>1 DEF GetKey, Resume, StoreOf, MatchOf, TypeOK, Valid
  <2>2. CASE GetChain(t)
    BY <1>1, <1>4, <2>2 DEF GetChain, Resume, StoreOf, MatchOf, TypeOK, Valid
  <2>3. CASE WipeKey(t)
    BY <1>1, <1>4, <2>3 DEF WipeKey, Resume, StoreOf, MatchOf, TypeOK, Valid
  <2>4. CASE WipeChain(t)
    BY <1>1, <1>4, <2>4 DEF WipeChain, Resume, StoreOf, MatchOf, TypeOK, Valid
  <2>5. CASE SetKey(t)
    BY <1>1, <1>4, <2>5 DEF SetKey, Resume, StoreOf, MatchOf, TypeOK, Valid
  <2> QED
    BY <1>3, <1>4, <1>8, <2>1, <2>2, <2>3, <2>4, <2>5
       DEF Create, MoveChain, MoveKey, CreateRefused, MatchOf, Calm
<1>9. CASE Use(t)
  <2>1. CASE LoginSucceeds(t)
    <3>1. saving'[t].key = key[t] /\ identity'[t].key = key[t] /\ key[t] # NoKey
          /\ logout[t] = "none" /\ ~behind'[t]
      BY <1>1, <1>3, <2>1 DEF LoginSucceeds, TypeOK, Calm
    <3> QED
      BY <1>1, <1>4, <2>1, <3>1 DEF LoginSucceeds, MatchOf, Valid
  <2>2. CASE Saved(t)
    <3>1. saving[t].key = key[t] /\ key[t] # NoKey /\ storedKey = key[t]
      BY <1>1, <1>4, <2>2 DEF Saved, MatchOf, StoreOf, TypeOK
    <3> QED
      BY <1>1, <1>4, <2>2, <3>1 DEF Saved, MatchOf, TypeOK
  <2>3. CASE Logout(t) \/ IdleOut(t)
    BY <1>1, <1>4, <2>3 DEF Logout, IdleOut, StoreOf, MatchOf, Valid, TypeOK
  <2>4. CASE LogoutKey(t)
    BY <1>1, <1>4, <2>4 DEF LogoutKey, RemovalOver, MatchOf, Valid, TypeOK
  <2>5. CASE LogoutChain(t)
    BY <1>1, <1>4, <2>5 DEF LogoutChain, RemovalOver, StoreOf, MatchOf, TypeOK
  <2>6. CASE LogoutReset(t)
    BY <1>1, <1>4, <2>6 DEF LogoutReset, RemovalOver, MatchOf, Valid, TypeOK
  <2> QED
    BY <1>3, <1>9, <2>1, <2>2, <2>3, <2>4, <2>5, <2>6
       DEF Use, SaveRefused, LogoutRefused, Calm
<1>10. CASE Reload(t)
  <2>1. logout[t] # "chain"
    BY <1>1, <1>3, <1>10 DEF Reload, TypeOK
  <2> QED
    BY <1>1, <1>4, <1>10, <2>1 DEF Reload, MatchOf, Valid, TypeOK, LogoutStages
<1> QED
  BY <1>3, <1>6, <1>7, <1>8, <1>9, <1>10 DEF Next

\* The delegation of a page was issued to its own key, wherever the page was reloaded
\* but between the removals of a logout.
THEOREM SessionMatchesAlone == Spec => []SessionMatchesUndisturbed
<1>1. MatchInv => SessionMatchesUndisturbed
  BY DEF MatchInv, MatchOf, Calm, SessionMatchesUndisturbed, LoggedIn
<1> QED
  BY <1>1, MatchInit, MatchStep, PTL DEF Spec

-----------------------------------------------------------------------------
(* The session that the idle manager ended *)

\* Keys are numbered as they are generated, and only the session to migrate brings one
\* that is older.
KeysCounted ==
  /\ storedKey <= generated
  /\ \A u \in Tabs : key[u] <= generated /\ ended[u] <= generated
  /\ env.legacy => OldKey <= generated
  /\ local => env.legacy
  /\ \A u \in Tabs : pc[u] \in {"moveChain", "moveKey"} => env.legacy

\* What IdleEndsSession needs: the key that was removed is stored by nobody again.
EndedOf(t) ==
  /\ ended[t] # NoKey => storedKey # ended[t]
  /\ ended[t] # NoKey /\ ~idle[t] => key[t] # ended[t]
  /\ pc[t] \in {"moveChain", "moveKey"} => local
  /\ local => storedKey # OldKey /\ key[t] # OldKey /\ ended[t] # OldKey

EndedInv ==
  /\ TypeOK /\ KeysCounted
  /\ \A t \in Tabs : Tabs = {t} \/ ~env.legacy => EndedOf(t)

LEMMA EndedInit == Init => EndedInv
<1> HAVE Init
<1>1. NoKey < OldKey
  BY DEF NoKey, OldKey
<1>2. KeysCounted
  BY <1>1, SessionAssumption DEF Init, KeysCounted, Environment, NoKey, OldKey
<1> QED
  BY <1>1, <1>2, TypeInit, Constants DEF Init, EndedInv, EndedOf

LEMMA EndedStep == EndedInv /\ [Next]_vars => EndedInv'
<1> SUFFICES ASSUME EndedInv, [Next]_vars PROVE EndedInv'
  OBVIOUS
<1>1. TypeOK /\ TypeOK' /\ KeysCounted
  BY TypeStep DEF EndedInv
<1>2. env' = env
  BY DEF Next, vars, Tick, Create, GetKey, MoveChain, MoveKey, GetChain, WipeKey, WipeChain,
         SetKey, CreateRefused, Use, LoginSucceeds, Saved, SaveRefused, Logout, IdleOut,
         LogoutKey, LogoutChain, LogoutReset, LogoutRefused, Reload
<1>3. /\ generated \in Nat /\ storedKey \in Nat /\ NoKey = 0 /\ OldKey = 1
      /\ \A u \in Tabs : key[u] \in Nat /\ ended[u] \in Nat
  BY <1>1, SessionAssumption DEF TypeOK, Keys, NoKey, OldKey
<1>4. CASE UNCHANGED vars \/ Tick
  BY <1>1, <1>4 DEF vars, Tick, EndedInv, EndedOf, KeysCounted
<1>5. ASSUME NEW u \in Tabs, GetKey(u) PROVE EndedInv'
  <2>1. KeysCounted'
    BY <1>1, <1>2, <1>3, <1>5 DEF GetKey, Resume, KeysCounted, TypeOK
  <2>2. ASSUME NEW t \in Tabs, Tabs = {t} \/ ~env.legacy PROVE EndedOf(t)'
    BY <1>1, <1>3, <1>5, <2>2 DEF GetKey, Resume, KeysCounted, EndedInv, EndedOf, TypeOK
  <2> QED
    BY <1>1, <1>2, <2>1, <2>2 DEF EndedInv
<1>6. ASSUME NEW u \in Tabs, MoveKey(u) PROVE EndedInv'
  <2>1. env.legacy
    BY <1>1, <1>6 DEF MoveKey, KeysCounted
  <2>2. KeysCounted'
    BY <1>1, <1>2, <1>3, <1>6, <2>1 DEF MoveKey, Resume, KeysCounted, TypeOK
  <2>3. ASSUME NEW t \in Tabs, Tabs = {t} PROVE EndedOf(t)'
    BY <1>1, <1>3, <1>6, <2>3 DEF MoveKey, Resume, EndedInv, EndedOf, TypeOK
  <2> QED
    BY <1>1, <1>2, <2>1, <2>2, <2>3 DEF EndedInv
<1>7. ASSUME NEW u \in Tabs, SetKey(u) PROVE EndedInv'
  <2>1. KeysCounted'
    BY <1>1, <1>2, <1>3, <1>7 DEF SetKey, Resume, KeysCounted, TypeOK
  <2>2. ASSUME NEW t \in Tabs, Tabs = {t} \/ ~env.legacy PROVE EndedOf(t)'
    BY <1>1, <1>3, <1>7, <2>2 DEF SetKey, Resume, KeysCounted, EndedInv, EndedOf, TypeOK
  <2> QED
    BY <1>1, <1>2, <2>1, <2>2 DEF EndedInv
<1>8. ASSUME NEW u \in Tabs, LogoutKey(u) PROVE EndedInv'
  <2>1. KeysCounted'
    BY <1>1, <1>2, <1>3, <1>8 DEF LogoutKey, KeysCounted, TypeOK
  <2>2. ASSUME NEW t \in Tabs, Tabs = {t} \/ ~env.legacy PROVE EndedOf(t)'
    BY <1>1, <1>3, <1>8, <2>2 DEF LogoutKey, KeysCounted, EndedInv, EndedOf, TypeOK
  <2> QED
    BY <1>1, <1>2, <2>1, <2>2 DEF EndedInv
<1>9. ASSUME NEW u \in Tabs,
             \/ MoveChain(u) \/ GetChain(u) \/ WipeKey(u) \/ WipeChain(u)
             \/ CreateRefused(u) \/ Reload(u)
      PROVE  EndedInv'
  <2>1. KeysCounted'
    BY <1>1, <1>2, <1>3, <1>9 DEF MoveChain, GetChain, WipeKey, WipeChain, CreateRefused, Reload,
       Resume, KeysCounted, TypeOK
  <2>2. ASSUME NEW t \in Tabs, Tabs = {t} \/ ~env.legacy PROVE EndedOf(t)'
    BY <1>1, <1>3, <1>9, <2>2 DEF MoveChain, GetChain, WipeKey, WipeChain, CreateRefused, Reload,
       Resume, EndedInv, EndedOf, TypeOK
  <2> QED
    BY <1>1, <1>2, <2>1, <2>2 DEF EndedInv
<1>10. ASSUME NEW u \in Tabs,
              \/ LoginSucceeds(u) \/ Saved(u) \/ SaveRefused(u) \/ Logout(u) \/ IdleOut(u)
              \/ LogoutChain(u) \/ LogoutReset(u) \/ LogoutRefused(u)
       PROVE  EndedInv'
  <2>1. UNCHANGED <<generated, local, storedKey, pc, key, ended>>
        /\ \A t \in Tabs : ~idle'[t] => ~idle[t]
    BY <1>1, <1>10 DEF LoginSucceeds, Saved, SaveRefused, Logout, IdleOut, LogoutChain,
       LogoutReset, LogoutRefused, TypeOK
  <2> QED
    BY <1>1, <1>2, <2>1 DEF KeysCounted, EndedInv, EndedOf
<1> QED
  BY <1>4, <1>5, <1>6, <1>7, <1>8, <1>9, <1>10 DEF Next, Create, Use

\* The session that the idle manager ended never signs again, wherever the reload cut
\* its logout short and whatever the storage refused afterwards: for any number of
\* pages, or a single one if there is an old session to migrate.
THEOREM EndedForGood == Spec => []IdleEndsSession
<1>1. EndedInv => IdleEndsSession
  BY DEF EndedInv, EndedOf, IdleEndsSession
<1> QED
  BY <1>1, EndedInit, EndedStep, PTL DEF Spec

-----------------------------------------------------------------------------
(* A page keeps its session as AuthSession says, and a manager watches it *)

LEMMA PageStep == [PageNext]_pageVars => [Next]_vars
<1> SUFFICES ASSUME PageNext PROVE Next \/ UNCHANGED vars
  BY DEF pageVars
<1>1. CASE Tick
  BY <1>1 DEF Next
<1>2. ASSUME NEW t \in Tabs, PageCreates(t) PROVE Next
  BY <1>2 DEF PageCreates, Next
<1>3. ASSUME NEW t \in Tabs,
             PageLogsIn(t) \/ PageSaved(t) \/ PageLogsOut(t) \/ PageLoggedOut(t) \/ PageAwaits(t)
      PROVE  Next
  BY <1>3 DEF PageLogsIn, PageSaved, PageLogsOut, PageLoggedOut, PageAwaits, Use, Next
<1>4. ASSUME NEW t \in Tabs, PageReloaded(t) PROVE Next
  BY <1>4 DEF PageReloaded, Next
<1>5. ASSUME NEW t \in Tabs, Exit(t) PROVE Next \/ UNCHANGED vars
  BY <1>5 DEF Exit, Use, Next
<1>6. ASSUME NEW t \in Tabs, Event(t) \/ ClientCreated(t) \/ ActorCreated(t)
      PROVE  UNCHANGED vars
  BY <1>6 DEF Event, ClientCreated, ActorCreated
<1> QED
  BY <1>1, <1>2, <1>3, <1>4, <1>5, <1>6 DEF PageNext

\* The idle manager and the hook leave the session to the client: what holds of
\* AuthSession holds of a page.
THEOREM PageKeepsSession == PageSpec => Spec
BY PageStep, PTL DEF PageSpec, PageInit, Spec

\* What SessionWatched needs: a manager's timer runs, unless it has logged its page
\* out, and a page that has a session has a manager.
WatchOf(t) ==
  /\ timer[t] # NoTimer => timer[t] <= active[t] + IdleTimeout
  /\ use[t] = "plain" =>
       /\ manager[t] /\ ~idle[t] => timer[t] # NoTimer
       /\ pc[t] \in {"setKey", "ready"} /\ chain[t] # NoChain => manager[t]

WatchInv ==
  /\ TypeOK
  /\ use \in [Tabs -> {"plain", "hook"}] /\ manager \in [Tabs -> BOOLEAN]
  /\ timer \in [Tabs -> Nat \union {NoTimer, Missed}] /\ active \in [Tabs -> Nat]
  /\ \A t \in Tabs : WatchOf(t)

LEMMA WatchInit == PageInit => WatchInv
<1> HAVE PageInit
<1>1. TypeOK
  BY TypeInit DEF PageInit
<1>2. use \in [Tabs -> {"plain", "hook"}]
  BY DEF PageInit
<1> QED
  BY <1>1, <1>2 DEF PageInit, Init, WatchInv, WatchOf

\* One page moves and leaves the others alone.
Others(t) ==
  \A u \in Tabs \ {t} : UNCHANGED <<manager[u], timer[u], active[u], idle[u], pc[u], chain[u]>>

IdleTypes ==
  /\ manager \in [Tabs -> BOOLEAN]
  /\ timer \in [Tabs -> Nat \union {NoTimer, Missed}] /\ active \in [Tabs -> Nat]

LEMMA WatchOthers ==
  ASSUME WatchInv, TypeOK', NEW t \in Tabs, UNCHANGED use, IdleTypes', WatchOf(t)', Others(t)
  PROVE  WatchInv'
BY DEF WatchInv, WatchOf, IdleTypes, Others

\* What Watch does to the page of t.
LEMMA WatchSets ==
  ASSUME WatchInv, NEW t \in Tabs, Watch(t)
  PROVE  /\ IdleTypes' /\ manager'[t]
         /\ timer'[t] # NoTimer => timer'[t] <= active'[t] + IdleTimeout
         /\ use[t] = "plain" /\ ~idle[t] => timer'[t] # NoTimer
         /\ \A u \in Tabs \ {t} : UNCHANGED <<manager[u], timer[u], active[u]>>
<1>1. now \in Nat /\ now + IdleTimeout \in Nat /\ now + IdleTimeout # NoTimer
  BY SessionAssumption, PageAssumption DEF WatchInv, TypeOK, NoTimer
<1>2. CASE manager[t]
  BY <1>2 DEF Watch, WatchInv, WatchOf, IdleTypes, idleVars
<1>3. CASE ~manager[t]
  <2>1. /\ manager' = [manager EXCEPT ![t] = TRUE]
        /\ timer' = [timer EXCEPT ![t] = now + IdleTimeout]
        /\ active' = [active EXCEPT ![t] = now]
    BY <1>3 DEF Watch, ResetTimer
  <2>2. /\ timer'[t] = now + IdleTimeout /\ active'[t] = now /\ manager'[t] = TRUE
        /\ \A u \in Tabs \ {t} : UNCHANGED <<manager[u], timer[u], active[u]>>
    BY <2>1 DEF WatchInv
  <2>3. IdleTypes'
    BY <1>1, <2>1 DEF WatchInv, IdleTypes
  <2> QED
    BY <1>1, <2>2, <2>3
<1> QED
  BY <1>2, <1>3

LEMMA WatchStep == WatchInv /\ [PageNext]_pageVars => WatchInv'
<1> SUFFICES ASSUME WatchInv, [PageNext]_pageVars PROVE WatchInv'
  OBVIOUS
<1>1. TypeOK /\ TypeOK'
  BY PageStep, TypeStep DEF WatchInv
<1>2. now \in Nat /\ IdleTimeout \in Nat /\ now + IdleTimeout \in Nat
      /\ now + IdleTimeout # NoTimer
  BY <1>1, SessionAssumption, PageAssumption DEF TypeOK, NoTimer
<1>3. CASE UNCHANGED pageVars \/ (Tick /\ UNCHANGED <<use, idleVars, hookVars, crossed>>)
  BY <1>1, <1>3 DEF pageVars, vars, idleVars, Tick, WatchInv, WatchOf
<1>4. ASSUME NEW t \in Tabs, Event(t) PROVE WatchInv'
  <2>1. IdleTypes' /\ WatchOf(t)' /\ Others(t)
    BY <1>2, <1>4 DEF Event, ResetTimer, vars, WatchInv, WatchOf, IdleTypes, Others
  <2> QED
    BY <1>1, <1>4, <2>1, WatchOthers DEF Event
<1>5. ASSUME NEW t \in Tabs, Exit(t) PROVE WatchInv'
  <2>1. /\ IdleTypes' /\ timer'[t] \in {NoTimer, Missed}
        /\ \A u \in Tabs \ {t} : UNCHANGED <<manager[u], timer[u], active[u]>>
    BY <1>5 DEF Exit, WatchInv, IdleTypes
  <2>0. timer'[t] <= active'[t] + IdleTimeout
    <3>1. active'[t] \in Nat
      BY <1>5 DEF Exit, WatchInv
    <3> QED
      BY <1>2, <2>1, <3>1 DEF NoTimer, Missed
  <2>2. CASE use[t] = "plain" /\ IdleOut(t)
    <3>1. /\ idle'[t] /\ UNCHANGED <<pc, chain>>
          /\ \A u \in Tabs \ {t} : UNCHANGED idle[u]
      BY <1>1, <2>2 DEF IdleOut, TypeOK
    <3>2. WatchOf(t)' /\ Others(t)
      BY <1>5, <2>0, <2>1, <3>1 DEF Exit, WatchInv, WatchOf, Others
    <3> QED
      BY <1>1, <1>5, <2>1, <3>2, WatchOthers DEF Exit
  <2>3. CASE UNCHANGED vars /\ (use[t] = "hook" \/ timer'[t] = Missed)
    <3>1. active' = active /\ manager' = manager /\ use' = use
      BY <1>5 DEF Exit, WatchInv
    <3>2. use[t] = "plain" => timer'[t] # NoTimer
      BY <1>5, <2>3 DEF WatchInv, NoTimer, Missed
    <3>3. WatchOf(t)' /\ Others(t)
      BY <2>0, <2>1, <2>3, <3>1, <3>2 DEF vars, WatchInv, WatchOf, Others
    <3> QED
      BY <1>1, <1>5, <2>1, <3>3, WatchOthers DEF Exit
  <2>4. pc[t] # "ready" /\ use[t] = "plain" /\ UNCHANGED vars => timer'[t] = Missed
    BY <1>5 DEF Exit, WatchInv, IdleOut, vars, TypeOK
  <2> QED
    BY <1>5, <2>2, <2>3, <2>4 DEF Exit
<1>6. ASSUME NEW t \in Tabs, PageCreates(t) PROVE WatchInv'
  <2>1. /\ idle' = idle /\ \A u \in Tabs \ {t} : UNCHANGED <<pc[u], chain[u]>>
        /\ pc[t] = "setKey" => chain'[t] = chain[t]
    BY <1>1, <1>6 DEF PageCreates, Create, GetKey, MoveChain, MoveKey, GetChain, WipeKey,
                      WipeChain, SetKey, CreateRefused, Resume, TypeOK
  <2>2. CASE chain'[t] # NoChain /\ pc[t] # "setKey" /\ pc'[t] \in {"ready", "setKey"}
    <3>1. Watch(t) /\ UNCHANGED use
      BY <1>6, <2>2 DEF PageCreates
    <3> QED
      BY <1>1, <2>1, <3>1, WatchSets, WatchOthers DEF WatchOf, Others
  <2>3. CASE ~(chain'[t] # NoChain /\ pc[t] # "setKey" /\ pc'[t] \in {"ready", "setKey"})
    <3>1. UNCHANGED <<use, idleVars>>
      BY <1>6, <2>3 DEF PageCreates
    <3> QED
      BY <1>1, <2>1, <2>3, <3>1, WatchOthers DEF idleVars, WatchInv, WatchOf, IdleTypes, Others
  <2> QED
    BY <2>2, <2>3
<1>7. ASSUME NEW t \in Tabs, PageLogsIn(t) PROVE WatchInv'
  <2>1. /\ Watch(t) /\ UNCHANGED <<use, pc, idle>>
        /\ \A u \in Tabs \ {t} : UNCHANGED chain[u]
    BY <1>1, <1>7 DEF PageLogsIn, LoginSucceeds, TypeOK
  <2> QED
    BY <1>1, <2>1, WatchSets, WatchOthers DEF WatchOf, Others
<1>8. ASSUME NEW t \in Tabs, PageLoggedOut(t) PROVE WatchInv'
  <2>1. /\ UNCHANGED <<use, idleVars, idle, pc>>
        /\ chain'[t] = NoChain
        /\ \A u \in Tabs \ {t} : UNCHANGED chain[u]
    BY <1>1, <1>8 DEF PageLoggedOut, LogoutReset, TypeOK
  <2> QED
    BY <1>1, <2>1, WatchOthers DEF idleVars, WatchInv, WatchOf, IdleTypes, Others
<1>9. ASSUME NEW t \in Tabs,
             \/ PageSaved(t) \/ PageLogsOut(t) \/ PageAwaits(t)
             \/ ClientCreated(t) \/ ActorCreated(t)
      PROVE  WatchInv'
  <2>1. UNCHANGED <<use, idleVars, idle, pc, chain>>
    BY <1>9 DEF PageSaved, Saved, PageLogsOut, Logout, PageAwaits, SaveRefused, LogoutKey,
                LogoutChain, LogoutRefused, ClientCreated, ActorCreated, vars
  <2> QED
    BY <1>1, <2>1 DEF idleVars, WatchInv, WatchOf
<1>10. ASSUME NEW t \in Tabs, PageReloaded(t) PROVE WatchInv'
  <2>1. /\ UNCHANGED use /\ IdleTypes'
        /\ ~manager'[t] /\ timer'[t] = NoTimer
        /\ chain'[t] = NoChain
        /\ Others(t)
    BY <1>1, <1>10 DEF PageReloaded, Reload, WatchInv, IdleTypes, Others, TypeOK
  <2> QED
    BY <1>1, <2>1, WatchOthers DEF WatchOf
<1> QED
  BY <1>3, <1>4, <1>5, <1>6, <1>7, <1>8, <1>9, <1>10 DEF PageNext

\* A plain page that is logged in is watched: its timer fires no later than the
\* idle timeout after the last event, for any number of pages and every timeout.
THEOREM WatchesSessions == PageSpec => []SessionWatched
<1>1. WatchInv => SessionWatched
  BY DEF WatchInv, WatchOf, SessionWatched, LoggedIn, TypeOK
<1> QED
  BY <1>1, WatchInit, WatchStep, PTL DEF PageSpec

-----------------------------------------------------------------------------
(* What the hook shows, and the actor it returns *)

LEMMA PageTypeInit == PageInit => PageTypeOK
<1> HAVE PageInit
<1>1. TypeOK /\ use \in [Tabs -> {"plain", "hook"}]
  BY TypeInit DEF PageInit
<1> DEFINE Identities == Chains \union {NoIdentity}
<1>2. NothingYet \in [client : BOOLEAN, identity : Identities, auth : BOOLEAN]
  BY Zenon DEF NothingYet
<1> QED
  BY <1>1, <1>2 DEF PageInit, PageTypeOK, NothingYet

Identities == Chains \union {NoIdentity}

LEMMA ShownType ==
  ASSUME NEW c \in BOOLEAN, NEW i \in Identities, NEW a \in BOOLEAN
  PROVE  /\ [client |-> c, identity |-> i, auth |-> a]
              \in [client : BOOLEAN, identity : Identities, auth : BOOLEAN]
         /\ [client |-> c, identity |-> i, auth |-> a].client = c
         /\ [client |-> c, identity |-> i, auth |-> a].identity = i
         /\ [client |-> c, identity |-> i, auth |-> a].auth = a
BY Zenon

LEMMA ShownExcept ==
  ASSUME NEW s \in [client : BOOLEAN, identity : Identities, auth : BOOLEAN],
         NEW i \in Identities, NEW a \in BOOLEAN
  PROVE  LET r == [s EXCEPT !.identity = i, !.auth = a]
         IN  /\ r \in [client : BOOLEAN, identity : Identities, auth : BOOLEAN]
             /\ r.client = s.client /\ r.identity = i /\ r.auth = a
<1> DEFINE t == [s EXCEPT !.identity = i]
           r == [t EXCEPT !.auth = a]
<1>1. /\ t \in [client : BOOLEAN, identity : Identities, auth : BOOLEAN]
      /\ t.client = s.client /\ t.identity = i
  OBVIOUS
<1> HIDE DEF t
<1>2. /\ r \in [client : BOOLEAN, identity : Identities, auth : BOOLEAN]
      /\ r.client = t.client /\ r.identity = t.identity /\ r.auth = a
  BY <1>1
<1> QED
  BY <1>1, <1>2 DEF t

LEMMA FirstAppended == \A x : Append(<<>>, x) = <<x>>
OBVIOUS

\* What an actor that is created does to the sequence of those under way.
LEMMA Removed ==
  ASSUME NEW S, NEW s \in Seq(S), NEW i \in DOMAIN s
  PROVE  RemoveAt(s, i) \in Seq(S) /\ \A x : s = <<x>> => RemoveAt(s, i) = <<>> /\ s[i] = x
<1>1. RemoveAt(s, i) \in Seq(S)
  BY DEF RemoveAt
<1>2. ASSUME NEW x, s = <<x>> PROVE RemoveAt(s, i) = <<>> /\ s[i] = x
  <2>1. i = 1 /\ Len(s) = 1
    BY <1>2
  <2>2. SubSeq(s, 1, 0) = <<>> /\ SubSeq(s, 2, 1) = <<>>
    BY <1>2
  <2> QED
    BY <1>2, <2>1, <2>2 DEF RemoveAt
<1> QED
  BY <1>1, <1>2

ShownStates == [client : BOOLEAN, identity : Identities, auth : BOOLEAN]

HookTypes ==
  /\ use \in [Tabs -> {"plain", "hook"}]
  /\ shown \in [Tabs -> ShownStates]
  /\ creating \in [Tabs -> Seq(Identities)]
  /\ actor \in [Tabs -> Identities] /\ overlapped \in [Tabs -> BOOLEAN]
  /\ crossed \in [Tabs -> BOOLEAN]

LEMMA HookTypesShown ==
  ASSUME HookTypes, NEW t \in Tabs
  PROVE  /\ shown[t] \in ShownStates /\ shown[t].client \in BOOLEAN
         /\ shown[t].identity \in Identities /\ shown[t].auth \in BOOLEAN
BY DEF HookTypes, ShownStates

LEMMA ShowSets ==
  ASSUME HookTypes, NEW t \in Tabs, NEW s \in ShownStates, Show(t, s)
  PROVE  /\ shown' \in [Tabs -> ShownStates] /\ shown'[t] = s
         /\ \A u \in Tabs \ {t} : shown'[u] = shown[u]
BY DEF Show, HookTypes

LEMMA CreateActorSets ==
  ASSUME HookTypes, NEW t \in Tabs, NEW i \in Identities, CreateActor(t, i)
  PROVE  /\ creating' \in [Tabs -> Seq(Identities)] /\ overlapped' \in [Tabs -> BOOLEAN]
         /\ creating'[t] = Append(creating[t], i)
         /\ overlapped'[t] <=> overlapped[t] \/ creating[t] # <<>>
         /\ \A u \in Tabs \ {t} : creating'[u] = creating[u] /\ overlapped'[u] = overlapped[u]
<1>1. creating[t] \in Seq(Identities) /\ Append(creating[t], i) \in Seq(Identities)
  BY DEF HookTypes
<1>2. creating' = [creating EXCEPT ![t] = Append(creating[t], i)]
  BY DEF CreateActor
<1>3. overlapped' = [overlapped EXCEPT ![t] = overlapped[t] \/ creating[t] # <<>>]
  BY DEF CreateActor
<1>4. creating' \in [Tabs -> Seq(Identities)] /\ creating'[t] = Append(creating[t], i)
      /\ \A u \in Tabs \ {t} : creating'[u] = creating[u]
  BY <1>1, <1>2 DEF HookTypes
<1>5. overlapped' \in [Tabs -> BOOLEAN] /\ (overlapped'[t] <=> overlapped[t] \/ creating[t] # <<>>)
      /\ \A u \in Tabs \ {t} : overlapped'[u] = overlapped[u]
  BY <1>3, Zenon DEF HookTypes
<1> QED
  BY <1>4, <1>5

-----------------------------------------------------------------------------
Target(t) == IF shown[t].identity = NoIdentity THEN NoChain ELSE shown[t].identity

LoggingOut(t) == logout[t] \in {"key", "chain", "iv"}

\* What the hook shows while a login is being stored, during a logout and at rest.
ShownOf(t) ==
  /\ ~LoggingOut(t) /\ saving[t] = NoChain =>
       /\ shown[t].auth => shown[t].identity = identity[t] /\ identity[t] # NoChain
       /\ identity[t] # NoChain /\ Valid(identity[t]) => shown[t].auth
  /\ saving[t] # NoChain => identity[t] = saving[t] /\ ~LoggingOut(t)
  /\ LoggingOut(t) => ~shown[t].auth /\ shown[t].identity = NoIdentity

\* The actor, or the only one being created, is that of the identity shown; a logout
\* creates the anonymous one at its end.
FollowOf(t) ==
  ~overlapped[t] /\ ~LoggingOut(t) =>
    \/ creating[t] = <<>> /\ actor[t] = Target(t)
    \/ creating[t] = <<Target(t)>>

HookOf(t) ==
  /\ shown[t].client => use[t] = "hook" /\ pc[t] = "ready"
  /\ use[t] = "hook" /\ ~shown[t].client =>
       saving[t] = NoChain /\ logout[t] = "none" /\ creating[t] = <<>>
  /\ ~shown[t].client => shown[t] = NothingYet
  /\ shown[t].client /\ ~crossed[t] /\ ~refused[t] => ShownOf(t) /\ FollowOf(t)

HookInv ==
  /\ TypeOK /\ HookTypes
  /\ \A t \in Tabs : HookOf(t)

LEMMA HookInit == PageInit => HookInv
<1> HAVE PageInit
<1>1. PageTypeOK
  BY PageTypeInit
<1>2. \A t \in Tabs : ~shown[t].client
  BY DEF PageInit, NothingYet
<1>3. ASSUME NEW t \in Tabs PROVE HookOf(t)
  BY <1>2 DEF PageInit, Init, HookOf
<1> QED
  BY <1>1, <1>3 DEF HookInv, PageTypeOK, HookTypes, ShownStates, Identities

\* What HookOf says of a page depends on nothing else.
Untouched(t) ==
  /\ UNCHANGED <<pc[t], identity[t], saving[t], logout[t], refused[t]>>
  /\ UNCHANGED <<shown[t], creating[t], actor[t], overlapped[t], crossed[t]>>

LEMMA UntouchedHook ==
  ASSUME NEW t \in Tabs, HookOf(t), Untouched(t), UNCHANGED <<now, use>>
  PROVE  HookOf(t)'
BY DEF HookOf, Untouched, ShownOf, FollowOf, LoggingOut, Target, Valid

LEMMA HookOthers ==
  ASSUME HookInv, TypeOK', HookTypes', NEW t \in Tabs, HookOf(t)',
         \A u \in Tabs \ {t} : Untouched(u), UNCHANGED <<now, use>>
  PROVE  HookInv'
BY UntouchedHook DEF HookInv

\* A step of the client of one page leaves the clients of the others alone.
LEMMA OneClient ==
  ASSUME TypeOK, NEW t \in Tabs, Create(t) \/ Use(t) \/ Reload(t), NEW u \in Tabs \ {t}
  PROVE  UNCHANGED <<pc[u], identity[u], saving[u], logout[u], refused[u]>> /\ UNCHANGED now
<1>1. CASE Create(t)
  BY <1>1 DEF Create, GetKey, MoveChain, MoveKey, GetChain, WipeKey, WipeChain, SetKey,
              CreateRefused, Resume, TypeOK
<1>2. CASE Use(t)
  BY <1>2 DEF Use, LoginSucceeds, Saved, SaveRefused, Logout, IdleOut, LogoutKey, LogoutChain,
              LogoutReset, LogoutRefused, TypeOK
<1>3. CASE Reload(t)
  BY <1>3 DEF Reload, TypeOK
<1> QED
  BY <1>1, <1>2, <1>3

LEMMA HookStep == HookInv /\ [PageNext]_pageVars => HookInv'
<1> SUFFICES ASSUME HookInv, [PageNext]_pageVars PROVE HookInv'
  OBVIOUS
<1>1. TypeOK /\ TypeOK' /\ HookTypes
  BY PageStep, TypeStep DEF HookInv
<1>2. NoChain \in Identities /\ NoIdentity \in Identities /\ NoChain # NoIdentity
      /\ \A t \in Tabs : identity[t] \in Identities /\ identity[t] # NoIdentity
  <2>1. NoIdentity.key \notin Keys /\ NoIdentity.key = 0 - 1
    BY SessionAssumption DEF NoIdentity, NoKey, Keys
  <2>2. \A c \in Chains : c.key \in Keys
    BY DEF Chains
  <2> QED
    BY <1>1, <2>1, <2>2, Constants DEF Identities, TypeOK
<1>3. CASE UNCHANGED pageVars
  BY <1>3 DEF pageVars, vars, hookVars, HookInv, HookOf, ShownOf, FollowOf, LoggingOut, Target,
              Valid, TypeOK, HookTypes
<1>4. CASE Tick /\ UNCHANGED <<use, idleVars, hookVars, crossed>>
  <2>1. \A c \in Chains : Valid(c)' => Valid(c)
    <3>1. now \in Nat /\ now' = now + 1
      BY <1>1, <1>4, SessionAssumption DEF Tick, TypeOK
    <3>2. \A c \in Chains : c.until \in Nat
      BY DEF Chains
    <3> QED
      BY <3>1, <3>2 DEF Valid
  <2>2. \A t \in Tabs : Valid(identity[t])' => Valid(identity[t])
    BY <1>1, <1>4, <2>1 DEF Tick, TypeOK
  <2>3. ASSUME NEW t \in Tabs PROVE HookOf(t)'
    <3>1. HookOf(t)
      BY DEF HookInv
    <3> QED
      BY <1>4, <2>2, <3>1 DEF Tick, hookVars, HookOf, ShownOf, FollowOf, LoggingOut, Target
  <2>4. HookTypes'
    BY <1>1, <1>4 DEF HookTypes, hookVars
  <2> QED
    BY <1>1, <2>3, <2>4 DEF HookInv
<1>5. ASSUME NEW t \in Tabs, Event(t) \/ Exit(t) PROVE HookInv'
  <2>1. HookTypes'
    BY <1>1, <1>5 DEF Event, Exit, hookVars, HookTypes
  <2>2. HookOf(t)
    BY DEF HookInv
  <2>3. CASE UNCHANGED vars
    BY <1>1, <1>5, <2>1, <2>3, UntouchedHook DEF Event, Exit, vars, hookVars, HookInv, Untouched
  <2>4. CASE use[t] = "plain" /\ IdleOut(t)
    <3>1. ~shown[t].client
      BY <2>2, <2>4 DEF HookOf
    <3>2. HookOf(t)'
      BY <1>5, <2>2, <2>4, <3>1 DEF Exit, Event, hookVars, HookOf
    <3>3. \A u \in Tabs \ {t} : Untouched(u)
      BY <1>1, <1>5, <2>4, OneClient DEF Exit, Event, hookVars, Use, Untouched
    <3> QED
      BY <1>1, <1>5, <2>1, <2>4, <3>2, <3>3, HookOthers DEF Exit, Event, IdleOut
  <2> QED
    BY <1>5, <2>3, <2>4 DEF Event, Exit
<1>6. ASSUME NEW t \in Tabs, ClientCreated(t) PROVE HookInv'
  <2>1. /\ HookOf(t) /\ ~shown[t].client /\ use[t] = "hook" /\ pc[t] = "ready"
        /\ UNCHANGED <<vars, use>>
    BY <1>6 DEF ClientCreated, HookInv
  <2> DEFINE auth == identity[t] # NoChain /\ Valid(chain[t])
             s    == [client |-> TRUE, identity |-> identity[t], auth |-> auth]
  <2>2. s \in ShownStates /\ s.client /\ s.identity = identity[t] /\ (s.auth <=> auth)
    BY <1>2, ShownType DEF ShownStates
  <2>3. Show(t, s) /\ CreateActor(t, identity[t]) /\ UNCHANGED <<actor, crossed>>
    BY <1>6 DEF ClientCreated
  <2> HIDE DEF s
  <2>4. /\ shown' \in [Tabs -> ShownStates] /\ shown'[t] = s
        /\ \A u \in Tabs \ {t} : shown'[u] = shown[u]
    BY <1>1, <2>2, <2>3, ShowSets
  <2>5. /\ creating' \in [Tabs -> Seq(Identities)] /\ overlapped' \in [Tabs -> BOOLEAN]
        /\ creating'[t] = Append(creating[t], identity[t])
        /\ \A u \in Tabs \ {t} : creating'[u] = creating[u] /\ overlapped'[u] = overlapped[u]
    BY <1>1, <1>2, <2>3, CreateActorSets
  <2>6. creating'[t] = <<identity[t]>> /\ saving[t] = NoChain /\ logout[t] = "none"
    BY <2>1, <2>5, FirstAppended DEF HookOf
  <2>7. s.auth <=> identity[t] # NoChain /\ Valid(identity[t])
    BY <1>1, <2>2 DEF TypeOK
  <2> HIDE DEF auth
  <2>8. HookOf(t)'
    BY <1>2, <2>1, <2>2, <2>3, <2>4, <2>6, <2>7
       DEF vars, HookOf, ShownOf, FollowOf, LoggingOut, Target, Valid
  <2>9. HookTypes'
    BY <1>1, <2>1, <2>3, <2>4, <2>5 DEF HookTypes
  <2>10. \A u \in Tabs \ {t} : Untouched(u)
    BY <2>1, <2>3, <2>4, <2>5 DEF Untouched, vars
  <2> QED
    BY <1>1, <2>1, <2>8, <2>9, <2>10, HookOthers DEF vars
<1>7. ASSUME NEW t \in Tabs, ActorCreated(t) PROVE HookInv'
  <2>1. HookOf(t) /\ UNCHANGED <<vars, use, shown, overlapped, crossed>>
    BY <1>7 DEF ActorCreated, HookInv
  <2>2. PICK i \in DOMAIN creating[t] :
          /\ actor' = [actor EXCEPT ![t] = creating[t][i]]
          /\ creating' = [creating EXCEPT ![t] = RemoveAt(creating[t], i)]
    BY <1>7 DEF ActorCreated
  <2>3. creating[t] \in Seq(Identities) /\ creating[t][i] \in Identities
    BY <1>1 DEF HookTypes
  <2>4. /\ RemoveAt(creating[t], i) \in Seq(Identities)
        /\ \A x : creating[t] = <<x>> => RemoveAt(creating[t], i) = <<>> /\ creating[t][i] = x
    <3> DEFINE q == creating[t]
    <3>1. q \in Seq(Identities) /\ i \in DOMAIN q
      BY <2>3
    <3> HIDE DEF q
    <3>2. RemoveAt(q, i) \in Seq(Identities)
      BY <3>1, Removed
    <3>3. \A x : q = <<x>> => RemoveAt(q, i) = <<>> /\ q[i] = x
      BY <3>1, Removed
    <3> QED
      BY <3>2, <3>3 DEF q
  <2>5. HookTypes'
    BY <1>1, <2>1, <2>2, <2>3, <2>4 DEF HookTypes
  <2>6. creating'[t] = RemoveAt(creating[t], i) /\ actor'[t] = creating[t][i]
        /\ \A u \in Tabs \ {t} : creating'[u] = creating[u] /\ actor'[u] = actor[u]
    BY <1>1, <2>2 DEF HookTypes
  <2>7. creating[t] # <<>>
    BY <2>2
  <2>8. HookOf(t)'
    BY <2>1, <2>4, <2>6, <2>7 DEF vars, HookOf, ShownOf, FollowOf, LoggingOut, Target, Valid
  <2>9. \A u \in Tabs \ {t} : Untouched(u)
    BY <2>1, <2>6 DEF Untouched, vars
  <2> QED
    BY <1>1, <2>1, <2>5, <2>8, <2>9, HookOthers DEF vars
<1>8. ASSUME NEW t \in Tabs, PageCreates(t) PROVE HookInv'
  <2>1. HookOf(t) /\ Create(t) /\ UNCHANGED <<use, hookVars, crossed, now>>
    BY <1>8 DEF PageCreates, HookInv, Create, GetKey, MoveChain, MoveKey, GetChain, WipeKey,
                WipeChain, SetKey, CreateRefused
  <2>2. pc[t] # "ready" /\ UNCHANGED <<saving, logout>>
    BY <2>1 DEF Create, GetKey, MoveChain, MoveKey, GetChain, WipeKey, WipeChain, SetKey,
                CreateRefused
  <2>3. HookOf(t)'
    BY <2>1, <2>2 DEF hookVars, HookOf
  <2>4. HookTypes' /\ \A u \in Tabs \ {t} : Untouched(u)
    BY <1>1, <2>1, OneClient DEF hookVars, Untouched, HookTypes
  <2> QED
    BY <1>1, <2>1, <2>3, <2>4, HookOthers
<1>9. ASSUME NEW t \in Tabs, PageLogsIn(t) PROVE HookInv'
  <2>1. HookOf(t) /\ LoginSucceeds(t) /\ UNCHANGED <<use, hookVars, now>>
    BY <1>9 DEF PageLogsIn, LoginSucceeds, HookInv
  <2>2. /\ crossed' \in [Tabs -> BOOLEAN]
        /\ crossed'[t] <=> crossed[t] \/ LoggingOut(t)
        /\ \A u \in Tabs \ {t} : crossed'[u] = crossed[u]
    BY <1>1, <1>9, Zenon DEF PageLogsIn, HookTypes, LoggingOut
  <2>3. /\ pc' = pc /\ refused' = refused /\ logout' = logout /\ saving[t] = NoChain
        /\ identity'[t] = saving'[t] /\ identity'[t] = [key |-> key[t], until |-> now + Life]
    BY <1>1, <2>1 DEF LoginSucceeds, TypeOK
  <2>4. saving'[t] # NoChain
    BY <1>1, <2>1, <2>3 DEF LoginSucceeds, TypeOK, NoChain
  <2>5. HookOf(t)'
    BY <1>9, <2>1, <2>2, <2>3, <2>4
       DEF PageLogsIn, hookVars, HookOf, ShownOf, FollowOf, LoggingOut, Target
  <2>6. HookTypes' /\ \A u \in Tabs \ {t} : Untouched(u)
    BY <1>1, <2>1, <2>2, OneClient DEF Use, hookVars, Untouched, HookTypes
  <2> QED
    BY <1>1, <2>1, <2>5, <2>6, HookOthers
<1>10. ASSUME NEW t \in Tabs, PageSaved(t) PROVE HookInv'
  <2>1. HookOf(t) /\ Saved(t) /\ UNCHANGED <<use, crossed, now>>
    BY <1>10 DEF PageSaved, Saved, HookInv
  <2>2. /\ UNCHANGED <<pc, identity, logout, refused>>
        /\ saving[t] # NoChain /\ saving'[t] = NoChain /\ use[t] \in {"plain", "hook"}
    BY <1>1, <2>1 DEF Saved, TypeOK, HookTypes
  <2>3. CASE use[t] = "plain"
    <3>1. UNCHANGED hookVars /\ ~shown[t].client
      BY <1>10, <2>1, <2>3 DEF PageSaved, Hooked, HookOf
    <3>2. HookOf(t)'
      BY <2>1, <2>3, <3>1 DEF hookVars, HookOf
    <3>3. HookTypes' /\ \A u \in Tabs \ {t} : Untouched(u)
      BY <1>1, <2>1, <3>1, OneClient DEF Use, hookVars, Untouched, HookTypes
    <3> QED
      BY <1>1, <2>1, <3>2, <3>3, HookOthers
  <2>4. CASE use[t] = "hook"
    <3>1. ShowLogin(t)
      BY <1>10, <2>4 DEF PageSaved, Hooked
    <3>2. shown[t].client
      BY <2>1, <2>2, <2>4 DEF HookOf
    <3> DEFINE s == [shown[t] EXCEPT !.identity = identity[t], !.auth = TRUE]
    <3>4. s \in ShownStates /\ s.client = shown[t].client /\ s.identity = identity[t] /\ s.auth
      BY <1>1, <1>2, ShownExcept, HookTypesShown DEF ShownStates
    <3>5. Show(t, s) /\ CreateActor(t, identity[t]) /\ UNCHANGED actor
      BY <3>1 DEF ShowLogin
    <3> HIDE DEF s
    <3>6. /\ shown' \in [Tabs -> ShownStates] /\ shown'[t] = s
          /\ \A u \in Tabs \ {t} : shown'[u] = shown[u]
      BY <1>1, <3>4, <3>5, ShowSets
    <3>7. /\ creating' \in [Tabs -> Seq(Identities)] /\ overlapped' \in [Tabs -> BOOLEAN]
          /\ creating'[t] = Append(creating[t], identity[t])
          /\ overlapped'[t] <=> overlapped[t] \/ creating[t] # <<>>
          /\ \A u \in Tabs \ {t} : creating'[u] = creating[u] /\ overlapped'[u] = overlapped[u]
      BY <1>1, <1>2, <3>5, CreateActorSets
    <3>8. ~overlapped'[t] => creating'[t] = <<identity[t]>>
      BY <3>7, FirstAppended
    <3>9. HookOf(t)'
      BY <1>2, <2>1, <2>2, <2>4, <3>2, <3>4, <3>6, <3>8
         DEF HookOf, ShownOf, FollowOf, LoggingOut, Target
    <3>10. HookTypes' /\ \A u \in Tabs \ {t} : Untouched(u)
      BY <1>1, <2>1, <3>5, <3>6, <3>7, OneClient DEF Use, Untouched, HookTypes
    <3> QED
      BY <1>1, <2>1, <3>9, <3>10, HookOthers
  <2> QED
    BY <2>2, <2>3, <2>4
<1>11. ASSUME NEW t \in Tabs, PageLogsOut(t) PROVE HookInv'
  <2>1. HookOf(t) /\ Logout(t) /\ UNCHANGED <<use, now>>
    BY <1>11 DEF PageLogsOut, Logout, HookInv
  <2>2. /\ UNCHANGED <<pc, identity, saving, refused>>
        /\ logout'[t] = "key" /\ use[t] \in {"plain", "hook"}
    BY <1>1, <2>1 DEF Logout, TypeOK, HookTypes
  <2>3. /\ crossed' \in [Tabs -> BOOLEAN]
        /\ crossed'[t] <=> crossed[t] \/ saving[t] # NoChain
        /\ \A u \in Tabs \ {t} : crossed'[u] = crossed[u]
    BY <1>1, <1>11, Zenon DEF PageLogsOut, HookTypes
  <2>4. CASE use[t] = "plain"
    <3>1. UNCHANGED hookVars /\ ~shown[t].client
      BY <1>11, <2>1, <2>4 DEF PageLogsOut, Hooked, HookOf
    <3>2. HookOf(t)'
      BY <2>1, <2>4, <3>1 DEF hookVars, HookOf
    <3>3. HookTypes' /\ \A u \in Tabs \ {t} : Untouched(u)
      BY <1>1, <2>1, <2>3, <3>1, OneClient DEF Use, hookVars, Untouched, HookTypes
    <3> QED
      BY <1>1, <2>1, <3>2, <3>3, HookOthers
  <2>5. CASE use[t] = "hook"
    <3>1. ShowLogout(t) /\ shown[t].client
      BY <1>11, <2>5 DEF PageLogsOut, Hooked
    <3> DEFINE s == [shown[t] EXCEPT !.identity = NoIdentity, !.auth = FALSE]
    <3>3. s \in ShownStates /\ s.client = shown[t].client /\ s.identity = NoIdentity /\ ~s.auth
      BY <1>1, <1>2, ShownExcept, HookTypesShown DEF ShownStates
    <3>4. Show(t, s) /\ UNCHANGED <<creating, actor, overlapped>>
      BY <3>1 DEF ShowLogout
    <3> HIDE DEF s
    <3>5. /\ shown' \in [Tabs -> ShownStates] /\ shown'[t] = s
          /\ \A u \in Tabs \ {t} : shown'[u] = shown[u]
      BY <1>1, <3>3, <3>4, ShowSets
    <3>6. HookOf(t)'
      BY <2>1, <2>2, <2>3, <2>5, <3>1, <3>3, <3>5 DEF HookOf, ShownOf, FollowOf, LoggingOut
    <3>7. HookTypes' /\ \A u \in Tabs \ {t} : Untouched(u)
      BY <1>1, <2>1, <2>3, <3>4, <3>5, OneClient DEF Use, Untouched, HookTypes
    <3> QED
      BY <1>1, <2>1, <3>6, <3>7, HookOthers
  <2> QED
    BY <2>2, <2>4, <2>5
<1>12. ASSUME NEW t \in Tabs, PageLoggedOut(t) PROVE HookInv'
  <2>1. HookOf(t) /\ LogoutReset(t) /\ UNCHANGED <<use, crossed, now>>
    BY <1>12 DEF PageLoggedOut, LogoutReset, HookInv
  <2>2. /\ UNCHANGED <<pc, saving, refused>>
        /\ logout[t] = "iv" /\ logout'[t] = "done" /\ identity'[t] = NoChain
        /\ use[t] \in {"plain", "hook"}
    BY <1>1, <2>1 DEF LogoutReset, TypeOK, HookTypes
  <2>3. CASE use[t] = "plain"
    <3>1. UNCHANGED hookVars /\ ~shown[t].client
      BY <1>12, <2>1, <2>3 DEF PageLoggedOut, Hooked, HookOf
    <3>2. HookOf(t)'
      BY <2>1, <2>3, <3>1 DEF hookVars, HookOf
    <3>3. HookTypes' /\ \A u \in Tabs \ {t} : Untouched(u)
      BY <1>1, <2>1, <3>1, OneClient DEF Use, hookVars, Untouched, HookTypes
    <3> QED
      BY <1>1, <2>1, <3>2, <3>3, HookOthers
  <2>4. CASE use[t] = "hook"
    <3>1. CreateActor(t, NoChain) /\ UNCHANGED <<shown, actor>> /\ shown[t].client
      BY <1>12, <2>1, <2>2, <2>4 DEF PageLoggedOut, Hooked, ShowLoggedOut, HookOf
    <3>2. /\ creating' \in [Tabs -> Seq(Identities)] /\ overlapped' \in [Tabs -> BOOLEAN]
          /\ creating'[t] = Append(creating[t], NoChain)
          /\ overlapped'[t] <=> overlapped[t] \/ creating[t] # <<>>
          /\ \A u \in Tabs \ {t} : creating'[u] = creating[u] /\ overlapped'[u] = overlapped[u]
      BY <1>1, <1>2, <3>1, CreateActorSets
    <3>3. ~overlapped'[t] => creating'[t] = <<NoChain>>
      BY <3>2, FirstAppended
    <3>4. HookOf(t)'
      BY <2>1, <2>2, <2>4, <3>1, <3>3 DEF HookOf, ShownOf, FollowOf, LoggingOut, Target
    <3>5. HookTypes' /\ \A u \in Tabs \ {t} : Untouched(u)
      BY <1>1, <2>1, <3>1, <3>2, OneClient DEF Use, Untouched, HookTypes
    <3> QED
      BY <1>1, <2>1, <3>4, <3>5, HookOthers
  <2> QED
    BY <2>2, <2>3, <2>4
<1>13. ASSUME NEW t \in Tabs, PageAwaits(t) PROVE HookInv'
  <2>1. HookOf(t) /\ UNCHANGED <<use, hookVars, crossed, now, pc, identity>>
    BY <1>13 DEF PageAwaits, SaveRefused, LogoutKey, LogoutChain, LogoutRefused, HookInv
  <2>2. Use(t)
    BY <1>13 DEF PageAwaits, Use
  <2>3. CASE SaveRefused(t) \/ LogoutRefused(t)
    BY <1>1, <2>1, <2>2, <2>3, OneClient, HookOthers
       DEF SaveRefused, LogoutRefused, hookVars, HookOf, HookTypes, Untouched, TypeOK
  <2>4. CASE LogoutKey(t) \/ LogoutChain(t)
    <3>1. LoggingOut(t) /\ LoggingOut(t)' /\ UNCHANGED <<saving, refused>>
      BY <1>1, <2>4 DEF LogoutKey, LogoutChain, LoggingOut, TypeOK
    <3>2. HookOf(t)'
      BY <2>1, <3>1 DEF hookVars, HookOf, ShownOf, FollowOf, LoggingOut
    <3>3. HookTypes' /\ \A u \in Tabs \ {t} : Untouched(u)
      BY <1>1, <2>1, <2>2, OneClient DEF hookVars, Untouched, HookTypes
    <3> QED
      BY <1>1, <2>1, <3>2, <3>3, HookOthers
  <2> QED
    BY <1>13, <2>3, <2>4 DEF PageAwaits
<1>14. ASSUME NEW t \in Tabs, PageReloaded(t) PROVE HookInv'
  <2>1. Reload(t) /\ UNCHANGED <<use, now>>
    BY <1>14 DEF PageReloaded, Reload
  <2>2. NothingYet \in ShownStates /\ ~NothingYet.client
    BY <1>2, ShownType DEF NothingYet, ShownStates
  <2>3. HookTypes' /\ shown'[t] = NothingYet /\ creating'[t] = <<>>
        /\ \A u \in Tabs \ {t} :
             UNCHANGED <<shown[u], creating[u], actor[u], overlapped[u], crossed[u]>>
    BY <1>1, <1>2, <1>14, <2>2 DEF PageReloaded, HookTypes
  <2>4. saving'[t] = NoChain /\ logout'[t] = "none"
    BY <1>1, <2>1 DEF Reload, TypeOK
  <2>5. HookOf(t)'
    BY <2>2, <2>3, <2>4 DEF HookOf
  <2>6. \A u \in Tabs \ {t} : Untouched(u)
    BY <1>1, <2>1, <2>3, OneClient DEF Untouched
  <2> QED
    BY <1>1, <2>1, <2>3, <2>5, <2>6, HookOthers
<1> QED
  BY <1>3, <1>4, <1>5, <1>6, <1>7, <1>8, <1>9, <1>10, <1>11, <1>12, <1>13, <1>14 DEF PageNext

\* With nothing under way the hook shows what its client says, for any number of
\* pages and every life of a delegation.
THEOREM HookShowsClient == PageSpec => []ShownMatchesClient
<1>1. HookInv => ShownMatchesClient
  BY DEF HookInv, HookOf, ShownOf, LoggingOut, ShownMatchesClient, AtRest, LoggedIn
<1> QED
  BY <1>1, HookInit, HookStep, PTL DEF PageSpec

\* The hook's actor signs with the identity that is shown, however the promises of
\* two pages interleave, unless two actors of one page were created at once.
THEOREM ActorSignsAsShown == PageSpec => []ActorFollowsIdentity
<1>1. HookInv => ActorFollowsIdentity
  BY DEF HookInv, HookOf, FollowOf, Target, LoggingOut, ActorFollowsIdentity, AtRest
<1> QED
  BY <1>1, HookInit, HookStep, PTL DEF PageSpec

\* Every reachable state of a page, its manager and its hook is well typed.
THEOREM PageTypeCorrect == PageSpec => []PageTypeOK
<1>1. HookInv /\ WatchInv => PageTypeOK
  BY DEF HookInv, HookTypes, HookOf, ShownStates, Identities, WatchInv, PageTypeOK
<1> QED
  BY <1>1, HookInit, HookStep, WatchInit, WatchStep, PTL DEF PageSpec
=============================================================================
