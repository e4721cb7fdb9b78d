---------------------------- MODULE ExpirableMap ----------------------------
(***************************************************************************)
(* ExpirableMap (packages/agent/src/utils/expirableMap.ts): a Map whose    *)
(* entries expire.  A map is the set of its entries, at most one per key.  *)
(* set() removes every expired entry, get() the one it was asked for;      *)
(* has(), keys(), entries(), values() and size look at expired ones too.   *)
(***************************************************************************)
EXTENDS Integers

CONSTANT ExpirationTime

ASSUME ExpirationAssumption == ExpirationTime \in Nat

Entry(key, value, time) == [key |-> key, value |-> value, timestamp |-> time]

Expired(e, time) == time - e.timestamp > ExpirationTime

Prune(m, time) == {e \in m : ~Expired(e, time)}

Delete(m, key) == {e \in m : e.key # key}

Put(m, key, value, time) ==
  Delete(Prune(m, time), key) \union {Entry(key, value, time)}

\* Mutant: the age of an entry is not looked at.
GetExpired(m, key, time) == {e.value : e \in {f \in m : f.key = key}}

\* The values get() returns: one, or none for undefined.
Get(m, key, time) == {e.value : e \in {f \in m : f.key = key /\ ~Expired(f, time)}}

\* The map after get().
AfterGet(m, key, time) == {e \in m : e.key = key => ~Expired(e, time)}
=============================================================================
