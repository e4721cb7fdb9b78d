---------------------------- MODULE Certificate ----------------------------
(***************************************************************************)
(* Certificate.create (packages/agent/src/certificate.ts): the delegation, *)
(* the check of the certified time against a client clock that may be      *)
(* wrong, the time synchronisation of the agent in between, the signature. *)
(* One certificate is checked while the rest of the program may            *)
(* synchronise the agent's time as well.                                   *)
(*                                                                         *)
(* verify() waits long only in syncTime(), and begins anew after it: an    *)
(* action is one pass of verify().  What a tree says is left to            *)
(* LookupPath and Reconstruct.                                             *)
(***************************************************************************)
EXTENDS Integers, HashTree

CONSTANTS
  DecodeRanges(_),   \* the pairs of canisters that a value encodes
  TimePath,          \* ["time"]
  RangesPath(_),     \* ["subnet", id, "canister_ranges"]
  KeyPath(_),        \* ["subnet", id, "public_key"]
  Options,           \* the CreateCertificateOptions a caller may give
  RootKey,           \* the root key of the agent
  None,              \* undefined
  MaxAge,            \* maxAgeInMinutes
  DelegationMaxAge,  \* the same for the certificate of a delegation
  MaxFuture,         \* DEFAULT_CERTIFICATE_MAX_MINUTES_IN_FUTURE
  Skews,             \* client clock - network clock
  Lag,               \* how old the newest certified time may be
  MaxSync,           \* bound: a synchronisation ends within this time
  StartTime,         \* bound: the network time at the start
  MaxTime            \* bound: the network time at the end

ASSUME CertificateAssumption ==
  /\ MaxAge \in Nat /\ DelegationMaxAge \in Nat /\ MaxFuture \in Nat
  /\ Skews \subseteq Int /\ Lag \in Nat /\ MaxSync \in Nat
  /\ StartTime \in Nat /\ MaxTime \in Nat /\ Lag < StartTime
  /\ None \notin Options

VARIABLES
  now,        \* network time
  skew,       \* client clock - network clock, fixed
  hasSynced,  \* hasSyncedTime() of the agent
  timeDiff,   \* getTimeDiffMsecs() of the agent
  sync,       \* #syncTimePromise of the agent: [pending, start]
  silent,     \* history: a synchronisation ended without a time
  pc,         \* where Certificate.create is
  options,    \* its options, None before it is called
  syncs,      \* history: how often it asked for a synchronisation (2: or more)
  last        \* history: the last pass of verify(): [at, synced]

agentVars == <<hasSynced, timeDiff, sync, silent>>
checkVars == <<pc, options, syncs, last>>
vars      == <<now, skew, agentVars, checkVars>>

(***************************************************************************)
(* One pass of verify(), with the agent's time synchronised or not         *)
(***************************************************************************)
lookupResultToBuffer(r) == IF r.status = "Found" THEN r.value ELSE None

TimeOf(cert) == lookupResultToBuffer(LookupPath(TimePath, cert.tree))

\* The times a certificate and that of its delegation show are numbers.
ShowsTime(cert) == TimeOf(cert) # None => TimeOf(cert) \in Int

ASSUME OptionsAssumption ==
  \A o \in Options :
    /\ o.agent \in BOOLEAN /\ o.disable \in BOOLEAN
    /\ ShowsTime(o.cert)
    /\ o.cert.delegation # None => ShowsTime(o.cert.delegation.cert)

\* The client's clock, corrected by the agent's time difference.
AdjustedNow(o, diff) == now + skew + IF o.agent THEN diff ELSE 0

\* Mutant: the age is not looked at.
InTimeUntilTooLate(o, cert, age, diff) ==
  o.disable \/ TimeOf(cert) <= AdjustedNow(o, diff) + MaxFuture

InTime(o, cert, age, diff) ==
  \/ o.disable
  \/ /\ AdjustedNow(o, diff) - age <= TimeOf(cert)
     /\ TimeOf(cert) <= AdjustedNow(o, diff) + MaxFuture

SignedBy(cert, key) == cert.sig = [key |-> key, hash |-> Reconstruct(cert.tree)]

\* Mutant: a certificate out of time is refused without a synchronisation.
JudgeAtOnce(o, cert, age, key, synced, diff) ==
  IF TimeOf(cert) # None /\ InTime(o, cert, age, diff) /\ SignedBy(cert, key)
  THEN "accepted" ELSE "rejected"

\* verify() of one certificate against one key.
Judge(o, cert, age, key, synced, diff) ==
  IF TimeOf(cert) # None /\ ~InTime(o, cert, age, diff) /\ o.agent /\ ~synced
  THEN "waiting"
  ELSE IF TimeOf(cert) # None /\ InTime(o, cert, age, diff) /\ SignedBy(cert, key)
  THEN "accepted"
  ELSE "rejected"

\* check_canister_ranges; without ranges it throws.
CanisterInRange(canister, subnet, tree) ==
  LET ranges == lookupResultToBuffer(LookupPath(RangesPath(subnet), tree))
  IN  ranges # None /\ \E r \in DecodeRanges(ranges) : r[1] <= canister /\ canister <= r[2]

KeyOf(d) == lookupResultToBuffer(LookupPath(KeyPath(d.subnet), d.cert.tree))

\* Mutant: the ranges of the subnet are not looked at.
AuthorisesAll(o, d) == KeyOf(d) # None

Authorises(o, d) ==
  CanisterInRange(o.canister, d.subnet, d.cert.tree) /\ KeyOf(d) # None

\* _checkDelegationAndGetKey up to the key.
JudgeDelegation(o, d, synced, diff) ==
  IF d.cert.delegation # None THEN "rejected"
  ELSE LET v == Judge(o, d.cert, DelegationMaxAge, RootKey, synced, diff)
       IN  IF v = "accepted" /\ ~Authorises(o, d) THEN "rejected" ELSE v

Verify(o, synced, diff) ==
  LET d == o.cert.delegation
  IN  IF d = None
      THEN Judge(o, o.cert, MaxAge, RootKey, synced, diff)
      ELSE LET v == JudgeDelegation(o, d, synced, diff)
           IN  IF v = "accepted"
               THEN Judge(o, o.cert, MaxAge, KeyOf(d), synced, diff)
               ELSE v

(***************************************************************************)
(* Actions                                                                 *)
(***************************************************************************)
Init ==
  /\ now = StartTime
  /\ skew \in Skews
  /\ hasSynced = FALSE /\ timeDiff = 0 /\ silent = FALSE
  /\ sync = [pending |-> FALSE, start |-> StartTime]
  /\ pc = "idle" /\ options = None /\ syncs = 0
  /\ last = [at |-> StartTime, synced |-> FALSE]

Tick ==
  /\ now < MaxTime /\ pc \in {"idle", "waiting"}
  /\ sync.pending => now < sync.start + MaxSync
  /\ now' = now + 1
  /\ UNCHANGED <<skew, agentVars, checkVars>>

NewSync == [pending |-> TRUE, start |-> now]

\* A pass of verify() for the options o.
Pass(o, synced, diff) ==
  /\ pc' = Verify(o, synced, diff)
  /\ last' = [at |-> now, synced |-> synced]
  /\ syncs' = IF pc' = "waiting" /\ syncs < 2 THEN syncs + 1 ELSE syncs

\* The network does not certify a time to come.
Certified(cert) == TimeOf(cert) # None => TimeOf(cert) <= now

Create(o) ==
  /\ pc = "idle"
  /\ Certified(o.cert)
  /\ o.cert.delegation # None => Certified(o.cert.delegation.cert)
  /\ options' = o
  /\ Pass(o, hasSynced, timeDiff)
  /\ sync' = IF pc' = "waiting" /\ ~sync.pending THEN NewSync ELSE sync
  /\ UNCHANGED <<now, skew, hasSynced, timeDiff, silent>>

\* Another part of the program calls syncTime().  (Once create() has ended it
\* looks at the agent no more, and one that waits has a synchronisation.)
StartSync ==
  /\ pc = "idle" /\ ~sync.pending
  /\ sync' = NewSync
  /\ UNCHANGED <<now, skew, hasSynced, timeDiff, silent, checkVars>>

\* Mutant: the time difference is found but not recorded as such.
SyncOkForgotten ==
  /\ sync.pending
  /\ \E replicaTime \in (sync.start - Lag)..now :
       timeDiff' = replicaTime - (sync.start + skew)
  /\ UNCHANGED hasSynced
  /\ IF pc = "waiting" THEN Pass(options, FALSE, timeDiff')
     ELSE UNCHANGED <<pc, syncs, last>>
  /\ sync' = IF pc' = "waiting" THEN NewSync ELSE [sync EXCEPT !.pending = FALSE]
  /\ UNCHANGED <<now, skew, silent, options>>

\* A synchronisation found the time; a certificate waiting for it is verified
\* again from the start.
SyncOk ==
  /\ sync.pending
  /\ \E replicaTime \in (sync.start - Lag)..now :
       timeDiff' = replicaTime - (sync.start + skew)
  /\ hasSynced' = TRUE
  /\ IF pc = "waiting" THEN Pass(options, TRUE, timeDiff')
     ELSE UNCHANGED <<pc, syncs, last>>
  /\ sync' = [sync EXCEPT !.pending = FALSE]
  /\ UNCHANGED <<now, skew, silent, options>>

\* It found none and returned: verify() begins anew and may ask for another.
SyncNone ==
  /\ sync.pending
  /\ silent' = TRUE
  /\ IF pc = "waiting" THEN Pass(options, hasSynced, timeDiff)
     ELSE UNCHANGED <<pc, syncs, last>>
  /\ sync' = IF pc' = "waiting" THEN NewSync ELSE [sync EXCEPT !.pending = FALSE]
  /\ UNCHANGED <<now, skew, hasSynced, timeDiff, options>>

\* It threw, and so does verify().
SyncThrow ==
  /\ sync.pending
  /\ pc' = IF pc = "waiting" THEN "failed" ELSE pc
  /\ sync' = [sync EXCEPT !.pending = FALSE]
  /\ UNCHANGED <<now, skew, hasSynced, timeDiff, silent, options, syncs, last>>

SyncStep == SyncOk \/ SyncNone \/ SyncThrow

Next ==
  \/ Tick
  \/ \E o \in Options : Create(o)
  \/ StartSync
  \/ SyncStep

Spec == Init /\ [][Next]_vars

(***************************************************************************)
(* Properties                                                              *)
(***************************************************************************)

\* Every variable has a value of its type, and create() has options from the
\* moment it is called; a pass that waits has a synchronisation to wait for.
TypeOK ==
  /\ now \in Nat /\ skew \in Skews
  /\ hasSynced \in BOOLEAN /\ timeDiff \in Int /\ silent \in BOOLEAN
  /\ sync \in [pending : BOOLEAN, start : Nat]
  /\ pc \in {"idle", "waiting", "accepted", "rejected", "failed"}
  /\ IF pc = "idle" THEN options = None ELSE options.agent \in BOOLEAN
  /\ syncs \in 0..2 /\ last \in [at : Nat, synced : BOOLEAN]
  /\ pc = "waiting" => sync.pending /\ ~hasSynced

\* Signature and delegation of a certificate are in order, whatever its time.
Genuine(o) ==
  Verify([cert |-> o.cert, canister |-> o.canister, agent |-> o.agent, disable |-> TRUE],
         TRUE, 0) = "accepted"

\* A certificate accepted after a synchronisation is not older than the maximum
\* age and the age of the certified time the clock was corrected by, whatever
\* the error of the client's clock and the duration of the synchronisation.
AcceptedIsRecent ==
  pc = "accepted" /\ options.agent /\ ~options.disable /\ last.synced =>
    TimeOf(options.cert) >= last.at - MaxAge - Lag

\* The certificate is younger than the age allowed by what a synchronisation
\* may take.
Young(cert, age) == TimeOf(cert) >= last.at - age + MaxSync

\* A genuine and recent certificate, with a recent delegation, is not rejected
\* by an agent that can synchronise its time, however wrong the client's clock:
\* the only way to lose it is a synchronisation that throws.
RecentNotRejected ==
  pc = "rejected" /\ options.agent /\ Genuine(options) =>
    \/ ~Young(options.cert, MaxAge)
    \/ LET d == options.cert.delegation
       IN  d # None /\ ~Young(d.cert, DelegationMaxAge)

\* verify() asks for the time once, unless a synchronisation returned without.
SyncsOnce == silent \/ syncs <= 1
=============================================================================
