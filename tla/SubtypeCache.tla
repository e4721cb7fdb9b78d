----------------------------- MODULE SubtypeCache -----------------------------
(***************************************************************************)
(* The exported subtype check of Candid (candid/src/idl.ts) and its cache, *)
(* a global of the module that lives from one reset to the next, with the  *)
(* subtypes of a set of types to measure it by.                            *)
(***************************************************************************)
EXTENDS CandidTypes

CONSTANTS
  Types,       \* the types in existence
  Subtypes,    \* the pairs of them that are subtypes
  Rank,        \* of the other pairs: how deep the comparison has to look
  Queries,     \* the pairs of types the subtype check is asked about
  MaxQueries   \* bound on the number of those questions

VARIABLES
  subtypeCache,  \* the answers given since the cache was reset
  check,         \* the check under way
  asked,         \* the pair it was asked about, or Nothing
  queries        \* the number of questions asked

cacheVars == <<subtypeCache, check, asked, queries>>

-----------------------------------------------------------------------------
(* A type is made of types in existence.                                   *)
Closed(t) ==
  CASE Kind(t) \in {"vec", "opt"} -> t[2] \in Types
    [] IsRecord(t) \/ Kind(t) \in {"variant", "service"} -> t[2] \in Seq(Labels(t) \X Types)
    [] Kind(t) = "func" -> t[2] \in Seq(Types) /\ t[3] \in Seq(Types)
    [] Kind(t) = "rec" -> Fill[t[2]] \in Types
    [] OTHER -> TRUE

ASSUME TypesAssumption == \A t \in Types : Closed(t) /\ Name(t) = name(t)

(* A relation between types is a subtyping if the premises of every pair   *)
(* in it are in it; Subtypes is the greatest subtyping, since comparing    *)
(* any other pair fails after finitely many steps.                         *)
Justified(p, R) ==
  LET rule == Premises(Fill, p[1], p[2])
  IN  name(p[1]) = name(p[2]) \/ (rule.holds /\ ToSet(rule.pairs) \subseteq R)

Subtyping(R) == \A p \in R : Justified(p, R)

Refuted(p) ==
  LET rule == Premises(Fill, p[1], p[2])
  IN  /\ Rank[p] \in Nat /\ name(p[1]) # name(p[2])
      /\ rule.holds => \E q \in ToSet(rule.pairs) : q \notin Subtypes /\ Rank[q] < Rank[p]

ASSUME SubtypesAssumption ==
  /\ Subtypes \subseteq Types \X Types /\ Subtyping(Subtypes)
  /\ \A p \in (Types \X Types) \ Subtypes : Refuted(p)

ASSUME QueriesAssumption == Queries \subseteq Types \X Types

-----------------------------------------------------------------------------
Nothing == <<>>
NoCheck == [relations |-> NoRelations, pending |-> <<>>, holds |-> TRUE]
Idle == asked = Nothing

CacheInit ==
  /\ subtypeCache = NoRelations
  /\ check = NoCheck
  /\ asked = Nothing
  /\ queries = 0

(* subtype: the check starts on a copy of the cache, ...                   *)
Ask(q) ==
  /\ Idle /\ queries < MaxQueries
  /\ asked' = q
  /\ check' = Check(subtypeCache, q[1], q[2])
  /\ queries' = queries + 1
  /\ UNCHANGED subtypeCache

(* ... compares what it has to, ...                                        *)
Compare ==
  /\ ~Idle /\ check.pending # <<>>
  /\ check' = subtype_(Fill, check)
  /\ UNCHANGED <<subtypeCache, asked, queries>>

(* ... and its answer is kept.                                             *)
Answer ==
  /\ ~Idle /\ check.pending = <<>>
  /\ subtypeCache' = Learn(subtypeCache, check, asked[1], asked[2])
  /\ check' = NoCheck /\ asked' = Nothing
  /\ UNCHANGED queries

resetSubtypeCache ==
  /\ Idle
  /\ subtypeCache' = NoRelations
  /\ UNCHANGED <<check, asked, queries>>

CacheNext ==
  \/ \E q \in Queries : Ask(q)
  \/ Compare
  \/ Answer
  \/ resetSubtypeCache

CacheSpec == CacheInit /\ [][CacheNext]_cacheVars

-----------------------------------------------------------------------------
Named(n) == {t \in Types : name(t) = n}

(* Every answer in the subtype cache is right, of all the types that have  *)
(* the names it is kept under: an assumption made on the way to a negative *)
(* answer is not left behind, a positive answer rests on no assumption     *)
(* that was not checked, and answers given before mislead no later check.  *)
CacheSound ==
  \A k \in DOMAIN subtypeCache :
    \A t1 \in Named(k[1]), t2 \in Named(k[2]) : subtypeCache[k] = (<<t1, t2>> \in Subtypes)
=============================================================================
