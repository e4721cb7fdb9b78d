----------------------------- MODULE CandidTypes -----------------------------
(***************************************************************************)
(* The types of Candid (candid/src/idl.ts) and the subtyping check of the  *)
(* decoder, with its table of assumed relations.                           *)
(*                                                                         *)
(* A type is a tuple that starts with its kind:                            *)
(*   <<"null">> <<"bool">> <<"nat">> <<"int">> <<"text">> <<"reserved">>   *)
(*   <<"empty">> <<"principal">> <<"unknown">>                             *)
(*   <<"fixednat", bits>> <<"fixedint", bits>>                             *)
(*   <<"vec", type>> <<"opt", type>>                                       *)
(*   <<"record", fields>> <<"tuple", fields>> <<"variant", fields>>        *)
(*   <<"func", argTypes, retTypes, annotations>> <<"service", methods>>    *)
(*   <<"rec", id>>                                                         *)
(* fields is a sequence of pairs <<label, type>> sorted by the id of the   *)
(* label.  What fill() gave the recursive types is a function defs from    *)
(* their ids: it is a parameter, since a decoder creates a RecClass for    *)
(* every entry of the type table it reads.  The calls that the name getter *)
(* makes to itself go to the constant Name.                                *)
(***************************************************************************)
EXTENDS Integers, Sequences, SequencesExt

CONSTANTS
  IdlHash,   \* the 32-bit hash of every label that is not of the form _n_
  MaxId,     \* bound: labels _n_ name the ids 0..MaxId
  Fill,      \* what fill() gave the recursive types of the program
  Name(_)    \* the name getter

WireLabel(id) == "_" \o ToString(id) \o "_"
WireIds == [l \in {WireLabel(id) : id \in 0..MaxId} |->
              CHOOSE id \in 0..MaxId : l = WireLabel(id)]
idlLabelToId(label) == (WireIds @@ IdlHash)[label]

Kind(t) == t[1]

SortedFields(types) ==
  LET labels == SetToSortSeq(DOMAIN types, LAMBDA a, b : idlLabelToId(a) < idlLabelToId(b))
  IN  [i \in DOMAIN labels |-> <<labels[i], types[labels[i]]>>]

Null == <<"null">>
Bool == <<"bool">>
Nat_ == <<"nat">>
Int_ == <<"int">>
Text == <<"text">>
Reserved == <<"reserved">>
Empty == <<"empty">>
Principal == <<"principal">>
Unknown == <<"unknown">>
FixedNat(bits) == <<"fixednat", bits>>
FixedInt(bits) == <<"fixedint", bits>>
Vec(t) == <<"vec", t>>
Opt(t) == <<"opt", t>>
Record(types) == <<"record", SortedFields(types)>>
Tuple(types) == <<"tuple", [i \in DOMAIN types |-> <<WireLabel(i - 1), types[i]>>]>>
Variant(types) == <<"variant", SortedFields(types)>>
Func(args, rets, annotations) == <<"func", args, rets, annotations>>
Service(methods) == <<"service", methods>>
Rec(id) == <<"rec", id>>

(* RecordClass's instanceof accepts a tuple too.                           *)
IsRecord(t) == Kind(t) \in {"record", "tuple"}
IsPrimitive(t) == Kind(t) \notin {"vec", "opt", "record", "tuple", "variant", "func",
                                 "service", "rec"}

(* The name getter identifies a type in the type table and in Relations:   *)
(* a tuple has the name of the record it abbreviates, a recursive type the *)
(* name of its counter.  Where the code joins labels and names to a string *)
(* without quotes, these are terms: two types that differ in more than     *)
(* this have different names, as they have where no label contains the     *)
(* punctuation of the strings.                                             *)
name(t) ==
  LET named(fields) == [i \in DOMAIN fields |-> <<fields[i][1], Name(fields[i][2])>>]
      names(types) == [i \in DOMAIN types |-> Name(types[i])]
  IN  CASE Kind(t) \in {"vec", "opt"} -> <<Kind(t), Name(t[2])>>
        [] IsRecord(t) -> <<"record", named(t[2])>>
        [] Kind(t) \in {"variant", "service"} -> <<Kind(t), named(t[2])>>
        [] Kind(t) = "func" -> <<"func", names(t[2]), names(t[3]), t[4]>>
        [] OTHER -> t

The(S) == CHOOSE x \in S : TRUE
Labels(t) == {t[2][i][1] : i \in DOMAIN t[2]}
FieldType(t, label) == t[2][The({i \in DOMAIN t[2] : t[2][i][1] = label})][2]

(* The field of a type that has the id of a label, as the objects built by *)
(* fieldsAsObject and alternativesAsObject find it.                        *)
HasId(t, label) == \E l \in Labels(t) : idlLabelToId(l) = idlLabelToId(label)
OfId(t, label) ==
  FieldType(t, The({l \in Labels(t) : idlLabelToId(l) = idlLabelToId(label)}))

canBeOmitted(t) == Kind(t) \in {"opt", "null", "reserved"}

-----------------------------------------------------------------------------
(* One level of subtype_: the verdict on t1 <: t2 if no component of the   *)
(* types has to be compared, and else the pairs of components it compares, *)
(* in the order of the code.                                               *)
Verdict(holds) == [holds |-> holds, pairs |-> <<>>]
IfAll(holds, pairs) == [holds |-> holds, pairs |-> IF holds THEN pairs ELSE <<>>]

Axiom(t1, t2) ==
  \/ Kind(t2) \in {"reserved", "opt"}
  \/ Kind(t1) = "empty"
  \/ Kind(t1) = "nat" /\ Kind(t2) = "int"

(* A field that t1 lacks and that can be omitted is compared with itself,  *)
(* which holds and leaves no trace.                                        *)
RecordPremises(t1, t2) ==
  IfAll(\A l \in Labels(t2) : HasId(t1, l) \/ canBeOmitted(FieldType(t2, l)),
        [i \in DOMAIN t2[2] |->
           <<IF HasId(t1, t2[2][i][1]) THEN OfId(t1, t2[2][i][1]) ELSE t2[2][i][2], t2[2][i][2]>>])

FuncPremises(t1, t2) ==
  IfAll(/\ ToSet(t1[4]) = ToSet(t2[4])
        /\ \A i \in DOMAIN t1[2] \ DOMAIN t2[2] : canBeOmitted(t1[2][i])
        /\ \A i \in DOMAIN t2[3] \ DOMAIN t1[3] : canBeOmitted(t2[3][i]),
        [i \in DOMAIN t1[2] \cap DOMAIN t2[2] |-> <<t2[2][i], t1[2][i]>>]
          \o [i \in DOMAIN t1[3] \cap DOMAIN t2[3] |-> <<t1[3][i], t2[3][i]>>])

VariantPremises(t1, t2) ==
  IfAll(\A l \in Labels(t1) : HasId(t2, l),
        [i \in DOMAIN t1[2] |-> <<t1[2][i][2], OfId(t2, t1[2][i][1])>>])

ServicePremises(t1, t2) ==
  IfAll(Labels(t2) \subseteq Labels(t1),
        [i \in DOMAIN t2[2] |-> <<FieldType(t1, t2[2][i][1]), t2[2][i][2]>>])

Premises(defs, t1, t2) ==
  LET both(kind) == Kind(t1) = kind /\ Kind(t2) = kind
  IN  IF Axiom(t1, t2) THEN Verdict(TRUE)
      ELSE CASE both("vec") -> IfAll(TRUE, <<<<t1[2], t2[2]>>>>)
             [] IsRecord(t1) /\ IsRecord(t2) -> RecordPremises(t1, t2)
             [] both("func") -> FuncPremises(t1, t2)
             [] both("variant") -> VariantPremises(t1, t2)
             [] both("service") -> ServicePremises(t1, t2)
             [] Kind(t1) = "rec" -> IfAll(TRUE, <<<<defs[t1[2]], t2>>>>)
             [] Kind(t1) # "rec" /\ Kind(t2) = "rec" -> IfAll(TRUE, <<<<t1, defs[t2[2]]>>>>)
             [] OTHER -> Verdict(FALSE)

-----------------------------------------------------------------------------
(* Relations: what is known or assumed of pairs of names.                  *)
NoRelations == <<>>
Key(t1, t2) == <<name(t1), name(t2)>>
known(relations, t1, t2) == Key(t1, t2) \in DOMAIN relations
addNames(relations, t1, t2, isSubtype) ==
  [k \in DOMAIN relations \cup {Key(t1, t2)} |->
     IF k = Key(t1, t2) THEN isSubtype ELSE relations[k]]

(* A check under way: its copy of the cache, the pairs it still has to     *)
(* compare, in their order, and whether none has failed.                   *)
Check(cache, t1, t2) == [relations |-> cache, pending |-> <<<<t1, t2>>>>, holds |-> TRUE]

(* One call of subtype_, on the first pair: its own calls are those on the *)
(* premises, and one that returns false ends them all.  The pair is        *)
(* assumed to hold, so that a recursive type comes to an end.              *)
subtype_(defs, check) ==
  LET t1      == Head(check.pending)[1]
      t2      == Head(check.pending)[2]
      rest    == Tail(check.pending)
      rule    == Premises(defs, t1, t2)
      assumed == addNames(check.relations, t1, t2, TRUE)
  IN  IF name(t1) = name(t2) THEN [check EXCEPT !.pending = rest]
      ELSE IF known(check.relations, t1, t2)
      THEN IF check.relations[Key(t1, t2)] THEN [check EXCEPT !.pending = rest]
           ELSE [check EXCEPT !.pending = <<>>, !.holds = FALSE]
      ELSE IF rule.holds THEN [check EXCEPT !.relations = assumed, !.pending = rule.pairs \o rest]
      ELSE [relations |-> assumed, pending |-> <<>>, holds |-> FALSE]

(* Mutant: the check works on the shared cache and not on a copy, and      *)
(* leaves its assumptions there.                                           *)
LearnAssumptions(cache, check, t1, t2) == addNames(check.relations, t1, t2, check.holds)

(* The cache with the answer of a check that has ended; the check itself   *)
(* works on a copy of the cache.                                           *)
Learn(cache, check, t1, t2) == addNames(cache, t1, t2, check.holds)
=============================================================================
