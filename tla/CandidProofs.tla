---------------------------- MODULE CandidProofs ----------------------------
(***************************************************************************)
(* Theorems about SubtypeCache, for every set of types, recursive ones and *)
(* infinitely many among them, and every sequence of questions and resets; *)
(* and about Leb128, for all numbers, widths and bytes.                    *)
(***************************************************************************)
EXTENDS SubtypeCache, Leb128, SequenceTheorems, WellFoundedInduction, TLAPS

Pairs == Types \X Types
Same(p, q) == name(p[1]) = name(q[1]) /\ name(p[2]) = name(q[2])

-----------------------------------------------------------------------------
(* What types with the same name have in common *)

Fielded(t) == IsRecord(t) \/ Kind(t) \in {"variant", "service"}

SameFields(t, u) ==
  /\ DOMAIN t[2] = DOMAIN u[2]
  /\ \A i \in DOMAIN t[2] : t[2][i][1] = u[2][i][1] /\ name(t[2][i][2]) = name(u[2][i][2])

\* A name shows the kind of its type, a tuple's that of the record.
LEMMA NameShowsKind ==
  ASSUME NEW t
  PROVE  name(t)[1] = IF IsRecord(t) THEN "record" ELSE Kind(t)
BY DEF name, IsRecord, Kind

LEMMA SameKind ==
  ASSUME NEW t, NEW u, name(t) = name(u)
  PROVE  /\ IsRecord(t) = IsRecord(u)
         /\ ~IsRecord(t) => Kind(t) = Kind(u)
BY NameShowsKind DEF IsRecord

LEMMA NameOfFields ==
  ASSUME NEW t, Fielded(t)
  PROVE  name(t)[2] = [i \in DOMAIN t[2] |-> <<t[2][i][1], Name(t[2][i][2])>>]
BY DEF name, Fielded, IsRecord

LEMMA FieldsInTypes ==
  ASSUME NEW t \in Types, Fielded(t)
  PROVE  /\ t[2] \in Seq(Labels(t) \X Types)
         /\ \A i \in DOMAIN t[2] : t[2][i][2] \in Types
<1>1. t[2] \in Seq(Labels(t) \X Types)
  BY TypesAssumption DEF Closed, Fielded, IsRecord
<1> QED
  BY <1>1

LEMMA NamesSameFields ==
  ASSUME NEW t \in Types, NEW u \in Types, name(t) = name(u), Fielded(t)
  PROVE  Fielded(u) /\ SameFields(t, u)
<1>1. Fielded(u)
  BY SameKind DEF Fielded
<1> DEFINE n(x) == [i \in DOMAIN x[2] |-> <<x[2][i][1], Name(x[2][i][2])>>]
<1>2. n(t) = n(u)
  <2>1. name(t)[2] = n(t)
    BY NameOfFields
  <2>2. name(u)[2] = n(u)
    BY <1>1, NameOfFields
  <2> QED
    BY <2>1, <2>2
<1>3. DOMAIN t[2] = DOMAIN n(t) /\ DOMAIN u[2] = DOMAIN n(u)
  OBVIOUS
<1>4. ASSUME NEW i \in DOMAIN t[2]
      PROVE  t[2][i][1] = u[2][i][1] /\ name(t[2][i][2]) = name(u[2][i][2])
  <2>1. n(t)[i] = n(u)[i]
    BY <1>2
  <2>2. <<t[2][i][1], Name(t[2][i][2])>> = <<u[2][i][1], Name(u[2][i][2])>>
    BY <2>1, <1>2, <1>3
  <2>3. t[2][i][2] \in Types /\ u[2][i][2] \in Types
    BY <1>1, <1>2, <1>3, FieldsInTypes
  <2> QED
    BY <2>2, <2>3, TypesAssumption
<1> QED
  BY <1>1, <1>2, <1>3, <1>4 DEF SameFields

\* A field is where its label is.
LEMMA FieldFound ==
  ASSUME NEW t, NEW l \in Labels(t)
  PROVE  \E i \in DOMAIN t[2] : t[2][i][1] = l /\ FieldType(t, l) = t[2][i][2]
<1> DEFINE places == {i \in DOMAIN t[2] : t[2][i][1] = l}
<1>1. \E i : i \in places
  BY DEF Labels
<1>2. The(places) \in places
  BY <1>1 DEF The
<1> QED
  BY <1>2 DEF FieldType

LEMMA FieldTypeInTypes ==
  ASSUME NEW t \in Types, Fielded(t), NEW l \in Labels(t)
  PROVE  FieldType(t, l) \in Types
<1>1. PICK i \in DOMAIN t[2] : FieldType(t, l) = t[2][i][2]
  BY FieldFound
<1> QED
  BY <1>1, FieldsInTypes

LEMMA SameLabels ==
  ASSUME NEW t, NEW u, SameFields(t, u)
  PROVE  Labels(t) = Labels(u)
BY DEF SameFields, Labels

LEMMA SameFieldType ==
  ASSUME NEW t, NEW u, SameFields(t, u), NEW l \in Labels(t)
  PROVE  name(FieldType(t, l)) = name(FieldType(u, l))
<1>1. {i \in DOMAIN t[2] : t[2][i][1] = l} = {i \in DOMAIN u[2] : u[2][i][1] = l}
  BY DEF SameFields
<1> DEFINE place == The({i \in DOMAIN t[2] : t[2][i][1] = l})
<1>2. \E i : i \in {j \in DOMAIN t[2] : t[2][j][1] = l}
  BY DEF Labels
<1>3. place \in DOMAIN t[2]
  BY <1>2 DEF The
<1>4. FieldType(t, l) = t[2][place][2] /\ FieldType(u, l) = u[2][place][2]
  BY <1>1 DEF FieldType
<1> QED
  BY <1>3, <1>4 DEF SameFields

\* The label that OfId looks up.
LEMMA LabelOfId ==
  ASSUME NEW t, NEW label, HasId(t, label)
  PROVE  The({l \in Labels(t) : idlLabelToId(l) = idlLabelToId(label)}) \in Labels(t)
BY DEF HasId, The

LEMMA OfIdInTypes ==
  ASSUME NEW t \in Types, Fielded(t), NEW label, HasId(t, label)
  PROVE  OfId(t, label) \in Types
BY LabelOfId, FieldTypeInTypes DEF OfId

LEMMA SameOfId ==
  ASSUME NEW t, NEW u, SameFields(t, u), NEW label
  PROVE  /\ HasId(t, label) = HasId(u, label)
         /\ HasId(t, label) => name(OfId(t, label)) = name(OfId(u, label))
<1>1. Labels(t) = Labels(u)
  BY SameLabels
<1>2. HasId(t, label) = HasId(u, label)
  BY <1>1 DEF HasId
<1> DEFINE found == The({l \in Labels(t) : idlLabelToId(l) = idlLabelToId(label)})
<1>3. ASSUME HasId(t, label) PROVE name(FieldType(t, found)) = name(FieldType(u, found))
  BY <1>3, LabelOfId, SameFieldType
<1>4. OfId(t, label) = FieldType(t, found) /\ OfId(u, label) = FieldType(u, found)
  BY <1>1 DEF OfId
<1> QED
  BY <1>2, <1>3, <1>4

LEMMA SameOmitted ==
  ASSUME NEW t, NEW u, name(t) = name(u)
  PROVE  canBeOmitted(t) = canBeOmitted(u)
BY SameKind DEF canBeOmitted, IsRecord

-----------------------------------------------------------------------------
(* The premises of a pair of types are those of their names *)

\* Rules with the same verdict, on premises of the same names.
Matches(r, s) ==
  /\ r.holds = s.holds
  /\ DOMAIN r.pairs = DOMAIN s.pairs
  /\ \A i \in DOMAIN r.pairs : Same(r.pairs[i], s.pairs[i])

Rule == [holds : BOOLEAN, pairs : Seq(Pairs)]

LEMMA VerdictRule ==
  ASSUME NEW b \in BOOLEAN
  PROVE  Verdict(b) \in Rule
<1>1. <<>> \in Seq(Pairs)
  OBVIOUS
<1> QED
  BY <1>1 DEF Verdict, Rule

LEMMA IfAllRule ==
  ASSUME NEW b \in BOOLEAN, NEW s, b => s \in Seq(Pairs)
  PROVE  IfAll(b, s) \in Rule
<1>1. <<>> \in Seq(Pairs)
  OBVIOUS
<1> QED
  BY <1>1 DEF IfAll, Rule

LEMMA IfAllMatches ==
  ASSUME NEW b \in BOOLEAN, NEW c, b = c, NEW r, NEW s,
         b => DOMAIN r = DOMAIN s /\ \A i \in DOMAIN r : Same(r[i], s[i])
  PROVE  Matches(IfAll(b, r), IfAll(c, s))
BY DEF IfAll, Matches

LEMMA PairsListed ==
  ASSUME NEW n \in Nat, NEW f \in [1..n -> Pairs]
  PROVE  f \in Seq(Pairs)
OBVIOUS

LEMMA RecordPremisesRule ==
  ASSUME NEW t \in Types, NEW u \in Types, IsRecord(t), IsRecord(u)
  PROVE  RecordPremises(t, u) \in Rule
<1> DEFINE pair(i) == <<IF HasId(t, u[2][i][1]) THEN OfId(t, u[2][i][1]) ELSE u[2][i][2], u[2][i][2]>>
<1>1. u[2] \in Seq(Labels(u) \X Types) /\ \A i \in DOMAIN u[2] : u[2][i][2] \in Types
  BY FieldsInTypes DEF Fielded
<1>2. \A i \in DOMAIN u[2] : pair(i) \in Pairs
  BY <1>1, OfIdInTypes DEF Fielded, Pairs
<1>3. [i \in DOMAIN u[2] |-> pair(i)] \in Seq(Pairs)
  BY <1>1, <1>2
<1> QED
  BY <1>3, IfAllRule DEF RecordPremises

LEMMA RecordPremisesMatch ==
  ASSUME NEW t1, NEW u1, NEW t2, NEW u2, SameFields(t1, u1), SameFields(t2, u2)
  PROVE  Matches(RecordPremises(t1, t2), RecordPremises(u1, u2))
<1> DEFINE all(t, u) == \A l \in Labels(u) : HasId(t, l) \/ canBeOmitted(FieldType(u, l))
           pair(t, u, i) == <<IF HasId(t, u[2][i][1]) THEN OfId(t, u[2][i][1]) ELSE u[2][i][2], u[2][i][2]>>
<1>1. all(t1, t2) = all(u1, u2)
  <2>1. Labels(t2) = Labels(u2)
    BY SameLabels
  <2>2. \A l \in Labels(t2) : canBeOmitted(FieldType(t2, l)) = canBeOmitted(FieldType(u2, l))
    BY SameFieldType, SameOmitted
  <2>3. \A l : HasId(t1, l) = HasId(u1, l)
    BY SameOfId
  <2> QED
    BY <2>1, <2>2, <2>3
<1>2. DOMAIN t2[2] = DOMAIN u2[2]
  BY DEF SameFields
<1>3. ASSUME NEW i \in DOMAIN t2[2] PROVE Same(pair(t1, t2, i), pair(u1, u2, i))
  <2>1. t2[2][i][1] = u2[2][i][1] /\ name(t2[2][i][2]) = name(u2[2][i][2])
    BY DEF SameFields
  <2> QED
    BY <2>1, SameOfId DEF Same
<1> DEFINE r == [i \in DOMAIN t2[2] |-> pair(t1, t2, i)]
           s == [i \in DOMAIN u2[2] |-> pair(u1, u2, i)]
<1>4. DOMAIN r = DOMAIN s /\ \A i \in DOMAIN r : Same(r[i], s[i])
  BY <1>2, <1>3
<1>5. RecordPremises(t1, t2) = IfAll(all(t1, t2), r) /\ RecordPremises(u1, u2) = IfAll(all(u1, u2), s)
  BY DEF RecordPremises
<1> HIDE DEF r, s, all
<1>6. all(t1, t2) \in BOOLEAN
  BY DEF all
<1> QED
  BY <1>1, <1>4, <1>5, <1>6, IfAllMatches

LEMMA VariantPremisesRule ==
  ASSUME NEW t \in Types, NEW u \in Types, Kind(t) = "variant", Kind(u) = "variant"
  PROVE  VariantPremises(t, u) \in Rule
<1> DEFINE all == \A l \in Labels(t) : HasId(u, l)
           pair(i) == <<t[2][i][2], OfId(u, t[2][i][1])>>
<1>1. t[2] \in Seq(Labels(t) \X Types) /\ \A i \in DOMAIN t[2] : t[2][i][2] \in Types
  BY FieldsInTypes DEF Fielded
<1>2. ASSUME all, NEW i \in DOMAIN t[2] PROVE pair(i) \in Pairs
  <2>1. HasId(u, t[2][i][1])
    BY <1>2 DEF Labels
  <2> QED
    BY <1>1, <2>1, OfIdInTypes DEF Fielded, Pairs
<1>3. ASSUME all PROVE [i \in DOMAIN t[2] |-> pair(i)] \in Seq(Pairs)
  <2>1. PICK n \in Nat : DOMAIN t[2] = 1..n
    BY <1>1
  <2>2. \A i \in DOMAIN t[2] : pair(i) \in Pairs
    BY <1>2, <1>3
  <2> HIDE DEF pair
  <2> QED
    BY <2>1, <2>2, PairsListed
<1> QED
  BY <1>3, IfAllRule DEF VariantPremises

LEMMA VariantPremisesMatch ==
  ASSUME NEW t1, NEW u1, NEW t2, NEW u2, SameFields(t1, u1), SameFields(t2, u2)
  PROVE  Matches(VariantPremises(t1, t2), VariantPremises(u1, u2))
<1> DEFINE all(t, u) == \A l \in Labels(t) : HasId(u, l)
           pair(t, u, i) == <<t[2][i][2], OfId(u, t[2][i][1])>>
           r == [i \in DOMAIN t1[2] |-> pair(t1, t2, i)]
           s == [i \in DOMAIN u1[2] |-> pair(u1, u2, i)]
<1>1. all(t1, t2) = all(u1, u2)
  BY SameLabels, SameOfId
<1>2. DOMAIN t1[2] = DOMAIN u1[2]
  BY DEF SameFields
<1>3. ASSUME all(t1, t2), NEW i \in DOMAIN t1[2] PROVE Same(pair(t1, t2, i), pair(u1, u2, i))
  <2>1. t1[2][i][1] = u1[2][i][1] /\ name(t1[2][i][2]) = name(u1[2][i][2])
    BY DEF SameFields
  <2>2. HasId(t2, t1[2][i][1])
    BY <1>3 DEF Labels
  <2> QED
    BY <2>1, <2>2, SameOfId DEF Same
<1>4. all(t1, t2) => DOMAIN r = DOMAIN s /\ \A i \in DOMAIN r : Same(r[i], s[i])
  BY <1>2, <1>3
<1>5. VariantPremises(t1, t2) = IfAll(all(t1, t2), r) /\ VariantPremises(u1, u2) = IfAll(all(u1, u2), s)
  BY DEF VariantPremises
<1> HIDE DEF r, s, all
<1>6. all(t1, t2) \in BOOLEAN
  BY DEF all
<1> QED
  BY <1>1, <1>4, <1>5, <1>6, IfAllMatches

LEMMA ServicePremisesRule ==
  ASSUME NEW t \in Types, NEW u \in Types, Kind(t) = "service", Kind(u) = "service"
  PROVE  ServicePremises(t, u) \in Rule
<1> DEFINE all == Labels(u) \subseteq Labels(t)
           pair(i) == <<FieldType(t, u[2][i][1]), u[2][i][2]>>
<1>1. u[2] \in Seq(Labels(u) \X Types) /\ \A i \in DOMAIN u[2] : u[2][i][2] \in Types
  BY FieldsInTypes DEF Fielded
<1>2. ASSUME all, NEW i \in DOMAIN u[2] PROVE pair(i) \in Pairs
  <2>1. u[2][i][1] \in Labels(t)
    BY <1>2 DEF Labels
  <2> QED
    BY <1>1, <2>1, FieldTypeInTypes DEF Fielded, Pairs
<1>3. ASSUME all PROVE [i \in DOMAIN u[2] |-> pair(i)] \in Seq(Pairs)
  <2>1. PICK n \in Nat : DOMAIN u[2] = 1..n
    BY <1>1
  <2>2. \A i \in DOMAIN u[2] : pair(i) \in Pairs
    BY <1>2, <1>3
  <2> HIDE DEF pair
  <2> QED
    BY <2>1, <2>2, PairsListed
<1> QED
  BY <1>3, IfAllRule DEF ServicePremises

LEMMA ServicePremisesMatch ==
  ASSUME NEW t1, NEW u1, NEW t2, NEW u2, SameFields(t1, u1), SameFields(t2, u2)
  PROVE  Matches(ServicePremises(t1, t2), ServicePremises(u1, u2))
<1> DEFINE all(t, u) == Labels(u) \subseteq Labels(t)
           pair(t, u, i) == <<FieldType(t, u[2][i][1]), u[2][i][2]>>
           r == [i \in DOMAIN t2[2] |-> pair(t1, t2, i)]
           s == [i \in DOMAIN u2[2] |-> pair(u1, u2, i)]
<1>1. all(t1, t2) = all(u1, u2)
  BY SameLabels
<1>2. DOMAIN t2[2] = DOMAIN u2[2]
  BY DEF SameFields
<1>3. ASSUME all(t1, t2), NEW i \in DOMAIN t2[2] PROVE Same(pair(t1, t2, i), pair(u1, u2, i))
  <2>1. t2[2][i][1] = u2[2][i][1] /\ name(t2[2][i][2]) = name(u2[2][i][2])
    BY DEF SameFields
  <2>2. t2[2][i][1] \in Labels(t1)
    BY <1>3 DEF Labels
  <2> QED
    BY <2>1, <2>2, SameFieldType DEF Same
<1>4. all(t1, t2) => DOMAIN r = DOMAIN s /\ \A i \in DOMAIN r : Same(r[i], s[i])
  BY <1>2, <1>3
<1>5. ServicePremises(t1, t2) = IfAll(all(t1, t2), r) /\ ServicePremises(u1, u2) = IfAll(all(u1, u2), s)
  BY DEF ServicePremises
<1> HIDE DEF r, s, all
<1>6. all(t1, t2) \in BOOLEAN
  BY DEF all
<1> QED
  BY <1>1, <1>4, <1>5, <1>6, IfAllMatches

\* Of functions: the arguments, the results and the annotations.
SameList(s, t) == DOMAIN s = DOMAIN t /\ \A i \in DOMAIN s : name(s[i]) = name(t[i])

LEMMA FuncInTypes ==
  ASSUME NEW t \in Types, Kind(t) = "func"
  PROVE  t[2] \in Seq(Types) /\ t[3] \in Seq(Types)
BY TypesAssumption DEF Closed, IsRecord

LEMMA NamesSameFunc ==
  ASSUME NEW t \in Types, NEW u \in Types, name(t) = name(u), Kind(t) = "func"
  PROVE  Kind(u) = "func" /\ SameList(t[2], u[2]) /\ SameList(t[3], u[3]) /\ t[4] = u[4]
<1> DEFINE n(s) == [i \in DOMAIN s |-> Name(s[i])]
<1>1. Kind(u) = "func"
  BY SameKind DEF IsRecord
<1>2. \A x : Kind(x) = "func" => name(x) = <<"func", n(x[2]), n(x[3]), x[4]>>
  BY DEF name, IsRecord
<1>3. n(t[2]) = n(u[2]) /\ n(t[3]) = n(u[3]) /\ t[4] = u[4]
  <2> HIDE DEF n
  <2> QED
    BY <1>1, <1>2
<1>4. ASSUME NEW s \in Seq(Types), NEW r \in Seq(Types), n(s) = n(r) PROVE SameList(s, r)
  <2>1. DOMAIN s = DOMAIN n(s) /\ DOMAIN r = DOMAIN n(r)
    OBVIOUS
  <2>2. ASSUME NEW i \in DOMAIN s PROVE name(s[i]) = name(r[i])
    <3>1. n(s)[i] = n(r)[i]
      BY <1>4
    <3>2. s[i] \in Types /\ r[i] \in Types
      BY <1>4, <2>1
    <3> QED
      BY <1>4, <2>1, <3>1, <3>2, TypesAssumption
  <2> QED
    BY <1>4, <2>1, <2>2 DEF SameList
<1> QED
  BY <1>1, <1>3, <1>4, FuncInTypes

LEMMA CommonPlaces ==
  ASSUME NEW s \in Seq(Types), NEW t \in Seq(Types)
  PROVE  \E n \in Nat : DOMAIN s \cap DOMAIN t = 1..n
<1>1. CASE Len(s) <= Len(t)
  BY <1>1
<1>2. CASE Len(t) <= Len(s)
  BY <1>2
<1> QED
  BY <1>1, <1>2

LEMMA FuncListsTyped ==
  ASSUME NEW t \in Types, NEW u \in Types, Kind(t) = "func", Kind(u) = "func"
  PROVE  /\ [i \in DOMAIN t[2] \cap DOMAIN u[2] |-> <<u[2][i], t[2][i]>>] \in Seq(Pairs)
         /\ [i \in DOMAIN t[3] \cap DOMAIN u[3] |-> <<t[3][i], u[3][i]>>] \in Seq(Pairs)
<1> DEFINE args == [i \in DOMAIN t[2] \cap DOMAIN u[2] |-> <<u[2][i], t[2][i]>>]
           rets == [i \in DOMAIN t[3] \cap DOMAIN u[3] |-> <<t[3][i], u[3][i]>>]
<1>1. args \in Seq(Pairs)
  <2>1. PICK n \in Nat : DOMAIN t[2] \cap DOMAIN u[2] = 1..n
    BY FuncInTypes, CommonPlaces
  <2>2. args \in [1..n -> Pairs]
    BY <2>1, FuncInTypes DEF Pairs
  <2> QED
    BY <2>2, PairsListed
<1>2. rets \in Seq(Pairs)
  <2>1. PICK n \in Nat : DOMAIN t[3] \cap DOMAIN u[3] = 1..n
    BY FuncInTypes, CommonPlaces
  <2>2. rets \in [1..n -> Pairs]
    BY <2>1, FuncInTypes DEF Pairs
  <2> QED
    BY <2>2, PairsListed
<1> QED
  BY <1>1, <1>2

LEMMA FuncPremisesRule ==
  ASSUME NEW t \in Types, NEW u \in Types, Kind(t) = "func", Kind(u) = "func"
  PROVE  FuncPremises(t, u) \in Rule
<1> DEFINE args == [i \in DOMAIN t[2] \cap DOMAIN u[2] |-> <<u[2][i], t[2][i]>>]
           rets == [i \in DOMAIN t[3] \cap DOMAIN u[3] |-> <<t[3][i], u[3][i]>>]
<1>1. args \o rets \in Seq(Pairs)
  <2>1. args \in Seq(Pairs) /\ rets \in Seq(Pairs)
    BY FuncListsTyped
  <2> HIDE DEF args, rets
  <2> QED
    BY <2>1
<1> QED
  BY <1>1, IfAllRule DEF FuncPremises

LEMMA SameConcat ==
  ASSUME NEW a \in Seq(Pairs), NEW b \in Seq(Pairs), NEW c \in Seq(Pairs), NEW d \in Seq(Pairs),
         DOMAIN a = DOMAIN c, DOMAIN b = DOMAIN d,
         \A i \in DOMAIN a : Same(a[i], c[i]), \A i \in DOMAIN b : Same(b[i], d[i])
  PROVE  /\ DOMAIN (a \o b) = DOMAIN (c \o d)
         /\ \A i \in DOMAIN (a \o b) : Same((a \o b)[i], (c \o d)[i])
<1>1. Len(a) = Len(c) /\ Len(b) = Len(d)
  OBVIOUS
<1>2. DOMAIN (a \o b) = 1..(Len(a) + Len(b)) /\ DOMAIN (c \o d) = 1..(Len(a) + Len(b))
  BY <1>1
<1>3. ASSUME NEW i \in 1..(Len(a) + Len(b)) PROVE Same((a \o b)[i], (c \o d)[i])
  <2>1. CASE i <= Len(a)
    BY <1>1, <2>1
  <2>2. CASE i > Len(a)
    <3>1. (a \o b)[i] = b[i - Len(a)] /\ (c \o d)[i] = d[i - Len(a)]
      BY <1>1, <2>2
    <3>2. i - Len(a) \in DOMAIN b
      BY <2>2
    <3> QED
      BY <3>1, <3>2
  <2> QED
    BY <2>1, <2>2
<1> QED
  BY <1>2, <1>3

LEMMA FuncPremisesMatch ==
  ASSUME NEW t1 \in Types, NEW u1 \in Types, NEW t2 \in Types, NEW u2 \in Types,
         Kind(t1) = "func", Kind(t2) = "func", name(t1) = name(u1), name(t2) = name(u2)
  PROVE  Matches(FuncPremises(t1, t2), FuncPremises(u1, u2))
<1> DEFINE args(t, u) == [i \in DOMAIN t[2] \cap DOMAIN u[2] |-> <<u[2][i], t[2][i]>>]
           rets(t, u) == [i \in DOMAIN t[3] \cap DOMAIN u[3] |-> <<t[3][i], u[3][i]>>]
           all(t, u) == /\ ToSet(t[4]) = ToSet(u[4])
                        /\ \A i \in DOMAIN t[2] \ DOMAIN u[2] : canBeOmitted(t[2][i])
                        /\ \A i \in DOMAIN u[3] \ DOMAIN t[3] : canBeOmitted(u[3][i])
<1>1. /\ SameList(t1[2], u1[2]) /\ SameList(t1[3], u1[3]) /\ t1[4] = u1[4]
      /\ SameList(t2[2], u2[2]) /\ SameList(t2[3], u2[3]) /\ t2[4] = u2[4]
      /\ Kind(u1) = "func" /\ Kind(u2) = "func"
  BY NamesSameFunc
<1>2. all(t1, t2) = all(u1, u2)
  BY <1>1, SameOmitted DEF SameList
<1>3. \A t, u \in Types : Kind(t) = "func" /\ Kind(u) = "func" =>
        args(t, u) \in Seq(Pairs) /\ rets(t, u) \in Seq(Pairs)
  BY FuncListsTyped
<1>4. /\ DOMAIN args(t1, t2) = DOMAIN args(u1, u2)
      /\ \A i \in DOMAIN args(t1, t2) : Same(args(t1, t2)[i], args(u1, u2)[i])
  BY <1>1 DEF SameList, Same
<1>5. /\ DOMAIN rets(t1, t2) = DOMAIN rets(u1, u2)
      /\ \A i \in DOMAIN rets(t1, t2) : Same(rets(t1, t2)[i], rets(u1, u2)[i])
  BY <1>1 DEF SameList, Same
<1>6. /\ FuncPremises(t1, t2) = IfAll(all(t1, t2), args(t1, t2) \o rets(t1, t2))
      /\ FuncPremises(u1, u2) = IfAll(all(u1, u2), args(u1, u2) \o rets(u1, u2))
  BY DEF FuncPremises
<1> HIDE DEF args, rets, all
<1>7. /\ DOMAIN (args(t1, t2) \o rets(t1, t2)) = DOMAIN (args(u1, u2) \o rets(u1, u2))
      /\ \A i \in DOMAIN (args(t1, t2) \o rets(t1, t2)) :
           Same((args(t1, t2) \o rets(t1, t2))[i], (args(u1, u2) \o rets(u1, u2))[i])
  BY <1>1, <1>3, <1>4, <1>5, SameConcat
<1>8. all(t1, t2) \in BOOLEAN
  BY DEF all
<1> QED
  BY <1>2, <1>6, <1>7, <1>8, IfAllMatches

LEMMA TypeParts ==
  ASSUME NEW t \in Types
  PROVE  /\ Kind(t) = "vec" => t[2] \in Types
         /\ Kind(t) = "rec" => Fill[t[2]] \in Types
BY TypesAssumption DEF Closed, IsRecord

LEMMA OnePair ==
  ASSUME NEW t \in Types, NEW u \in Types
  PROVE  IfAll(TRUE, <<<<t, u>>>>) \in Rule
<1>1. <<<<t, u>>>> \in Seq(Pairs)
  BY DEF Pairs
<1> QED
  BY <1>1, IfAllRule

LEMMA PremisesRule ==
  ASSUME NEW t \in Types, NEW u \in Types
  PROVE  Premises(Fill, t, u) \in Rule
<1> DEFINE both(kind) == Kind(t) = kind /\ Kind(u) = kind
<1>1. CASE Axiom(t, u)
  BY <1>1, VerdictRule DEF Premises
<1>2. CASE ~Axiom(t, u) /\ both("vec")
  BY <1>2, TypeParts, OnePair DEF Premises, IsRecord
<1>3. CASE ~Axiom(t, u) /\ IsRecord(t) /\ IsRecord(u)
  BY <1>3, RecordPremisesRule DEF Premises, IsRecord
<1>4. CASE ~Axiom(t, u) /\ both("func")
  BY <1>4, FuncPremisesRule DEF Premises, IsRecord
<1>5. CASE ~Axiom(t, u) /\ both("variant")
  BY <1>5, VariantPremisesRule DEF Premises, IsRecord
<1>6. CASE ~Axiom(t, u) /\ both("service")
  BY <1>6, ServicePremisesRule DEF Premises, IsRecord
<1>7. CASE ~Axiom(t, u) /\ Kind(t) = "rec"
  BY <1>7, TypeParts, OnePair DEF Premises, IsRecord
<1>8. CASE ~Axiom(t, u) /\ Kind(t) # "rec" /\ Kind(u) = "rec"
  BY <1>8, TypeParts, OnePair DEF Premises, IsRecord
<1>9. CASE /\ ~Axiom(t, u) /\ ~both("vec") /\ ~(IsRecord(t) /\ IsRecord(u)) /\ ~both("func")
           /\ ~both("variant") /\ ~both("service") /\ Kind(t) # "rec" /\ Kind(u) # "rec"
  BY <1>9, VerdictRule DEF Premises
<1> QED
  BY <1>1, <1>2, <1>3, <1>4, <1>5, <1>6, <1>7, <1>8, <1>9

LEMMA OneMatch ==
  ASSUME NEW p, NEW q, Same(p, q)
  PROVE  Matches(IfAll(TRUE, <<p>>), IfAll(TRUE, <<q>>))
<1>1. DOMAIN <<p>> = DOMAIN <<q>> /\ \A i \in DOMAIN <<p>> : Same(<<p>>[i], <<q>>[i])
  OBVIOUS
<1> QED
  BY <1>1 DEF IfAll, Matches

LEMMA VecNames ==
  ASSUME NEW t \in Types, NEW u \in Types, name(t) = name(u), Kind(t) = "vec"
  PROVE  Kind(u) = "vec" /\ name(t[2]) = name(u[2])
<1>1. Kind(u) = "vec"
  BY SameKind DEF IsRecord
<1>2. name(t)[2] = Name(t[2]) /\ name(u)[2] = Name(u[2])
  BY <1>1 DEF name, IsRecord
<1>3. Name(t[2]) = Name(u[2])
  BY <1>2
<1>4. t[2] \in Types /\ u[2] \in Types
  BY <1>1, TypeParts
<1> QED
  BY <1>1, <1>3, <1>4, TypesAssumption

LEMMA RecNames ==
  ASSUME NEW t, NEW u, name(t) = name(u), Kind(t) = "rec"
  PROVE  u = t
<1>1. Kind(u) = "rec"
  BY SameKind DEF IsRecord
<1> QED
  BY <1>1 DEF name, IsRecord

LEMMA SameAxiom ==
  ASSUME NEW t1, NEW u1, NEW t2, NEW u2, name(t1) = name(u1), name(t2) = name(u2)
  PROVE  Axiom(t1, t2) = Axiom(u1, u2)
BY SameKind DEF Axiom, IsRecord

\* Types with the same names have matching premises.
LEMMA PremisesMatch ==
  ASSUME NEW t1 \in Types, NEW u1 \in Types, NEW t2 \in Types, NEW u2 \in Types,
         name(t1) = name(u1), name(t2) = name(u2)
  PROVE  Matches(Premises(Fill, t1, t2), Premises(Fill, u1, u2))
<1> DEFINE both(kind) == Kind(t1) = kind /\ Kind(t2) = kind
<1>0. /\ Axiom(t1, t2) = Axiom(u1, u2)
      /\ IsRecord(t1) = IsRecord(u1) /\ (~IsRecord(t1) => Kind(t1) = Kind(u1))
      /\ IsRecord(t2) = IsRecord(u2) /\ (~IsRecord(t2) => Kind(t2) = Kind(u2))
  BY SameAxiom, SameKind
<1>1. CASE Axiom(t1, t2)
  BY <1>0, <1>1 DEF Premises, Verdict, Matches
<1>2. CASE ~Axiom(t1, t2) /\ both("vec")
  <2>1. Same(<<t1[2], t2[2]>>, <<u1[2], u2[2]>>)
    BY <1>2, VecNames DEF Same
  <2>2. /\ Premises(Fill, t1, t2) = IfAll(TRUE, <<<<t1[2], t2[2]>>>>)
        /\ Premises(Fill, u1, u2) = IfAll(TRUE, <<<<u1[2], u2[2]>>>>)
    BY <1>0, <1>2 DEF Premises, IsRecord
  <2> QED
    BY <2>1, <2>2, OneMatch
<1>3. CASE ~Axiom(t1, t2) /\ IsRecord(t1) /\ IsRecord(t2)
  <2>1. SameFields(t1, u1) /\ SameFields(t2, u2)
    BY <1>3, NamesSameFields DEF Fielded
  <2>2. /\ Premises(Fill, t1, t2) = RecordPremises(t1, t2)
        /\ Premises(Fill, u1, u2) = RecordPremises(u1, u2)
    BY <1>0, <1>3 DEF Premises, IsRecord
  <2> QED
    BY <2>1, <2>2, RecordPremisesMatch
<1>4. CASE ~Axiom(t1, t2) /\ both("func")
  <2>1. /\ Premises(Fill, t1, t2) = FuncPremises(t1, t2)
        /\ Premises(Fill, u1, u2) = FuncPremises(u1, u2)
    BY <1>0, <1>4 DEF Premises, IsRecord
  <2> QED
    BY <1>4, <2>1, FuncPremisesMatch
<1>5. CASE ~Axiom(t1, t2) /\ both("variant")
  <2>1. SameFields(t1, u1) /\ SameFields(t2, u2)
    BY <1>5, NamesSameFields DEF Fielded
  <2>2. /\ Premises(Fill, t1, t2) = VariantPremises(t1, t2)
        /\ Premises(Fill, u1, u2) = VariantPremises(u1, u2)
    BY <1>0, <1>5 DEF Premises, IsRecord
  <2> QED
    BY <2>1, <2>2, VariantPremisesMatch
<1>6. CASE ~Axiom(t1, t2) /\ both("service")
  <2>1. SameFields(t1, u1) /\ SameFields(t2, u2)
    BY <1>6, NamesSameFields DEF Fielded
  <2>2. /\ Premises(Fill, t1, t2) = ServicePremises(t1, t2)
        /\ Premises(Fill, u1, u2) = ServicePremises(u1, u2)
    BY <1>0, <1>6 DEF Premises, IsRecord
  <2> QED
    BY <2>1, <2>2, ServicePremisesMatch
<1>7. CASE ~Axiom(t1, t2) /\ Kind(t1) = "rec"
  <2>1. u1 = t1
    BY <1>7, RecNames
  <2>2. Same(<<Fill[t1[2]], t2>>, <<Fill[t1[2]], u2>>)
    BY DEF Same
  <2>3. /\ Premises(Fill, t1, t2) = IfAll(TRUE, <<<<Fill[t1[2]], t2>>>>)
        /\ Premises(Fill, u1, u2) = IfAll(TRUE, <<<<Fill[t1[2]], u2>>>>)
    BY <1>0, <1>7, <2>1 DEF Premises, IsRecord
  <2> QED
    BY <2>2, <2>3, OneMatch
<1>8. CASE ~Axiom(t1, t2) /\ Kind(t1) # "rec" /\ Kind(t2) = "rec"
  <2>1. u2 = t2
    BY <1>8, RecNames
  <2>2. Same(<<t1, Fill[t2[2]]>>, <<u1, Fill[t2[2]]>>)
    BY DEF Same
  <2>3. /\ Premises(Fill, t1, t2) = IfAll(TRUE, <<<<t1, Fill[t2[2]]>>>>)
        /\ Premises(Fill, u1, u2) = IfAll(TRUE, <<<<u1, Fill[t2[2]]>>>>)
    BY <1>0, <1>8, <2>1 DEF Premises, IsRecord
  <2> QED
    BY <2>2, <2>3, OneMatch
<1>9. CASE /\ ~Axiom(t1, t2) /\ ~both("vec") /\ ~(IsRecord(t1) /\ IsRecord(t2)) /\ ~both("func")
           /\ ~both("variant") /\ ~both("service") /\ Kind(t1) # "rec" /\ Kind(t2) # "rec"
  <2>1. Premises(Fill, t1, t2) = Verdict(FALSE) /\ Premises(Fill, u1, u2) = Verdict(FALSE)
    BY <1>0, <1>9 DEF Premises, IsRecord
  <2> QED
    BY <2>1 DEF Verdict, Matches
<1> QED
  BY <1>1, <1>2, <1>3, <1>4, <1>5, <1>6, <1>7, <1>8, <1>9

-----------------------------------------------------------------------------
(* Subtypes is the greatest subtyping, and a matter of names *)

LEMMA Minimum ==
  ASSUME NEW S, S \subseteq Nat, S # {}
  PROVE  \E n \in S : \A m \in S : n <= m
<1> DEFINE R == OpToRel(<, Nat)
<1>1. IsWellFoundedOn(R, Nat)
  BY NatLessThanWellFounded
<1>2. \A m, n \in Nat : m < n => <<m, n>> \in R
  BY DEF OpToRel
<1> HIDE DEF R
<1>3. PICK n \in S : \A m \in S : ~(<<m, n>> \in R)
  BY <1>1, WFMin
<1>4. \A m \in S : ~(m < n)
  BY <1>2, <1>3
<1> QED
  BY <1>4

\* A relation that justifies itself holds of subtypes only: of the pairs in it
\* that are none, one of the lowest rank would rest on one of a lower rank.
THEOREM SubtypesAreGreatest ==
  ASSUME NEW R \in SUBSET Pairs, Subtyping(R)
  PROVE  R \subseteq Subtypes
<1> SUFFICES ASSUME R \ Subtypes # {} PROVE FALSE
  OBVIOUS
<1> DEFINE bad == R \ Subtypes
<1>1. \A p \in bad : p \in (Types \X Types) \ Subtypes /\ Rank[p] \in Nat
  BY SubtypesAssumption DEF Pairs, Refuted
<1>2. PICK p \in bad : \A q \in bad : Rank[p] <= Rank[q]
  <2> DEFINE S == {Rank[q] : q \in bad}
  <2>1. S \subseteq Nat /\ S # {}
    BY <1>1
  <2>2. PICK n \in S : \A m \in S : n <= m
    BY <2>1, Minimum
  <2> QED
    BY <2>2
<1> DEFINE rule == Premises(Fill, p[1], p[2])
<1>3. Refuted(p) /\ Justified(p, R)
  BY <1>1, SubtypesAssumption DEF Subtyping
<1>4. PICK q \in ToSet(rule.pairs) : q \notin Subtypes /\ Rank[q] < Rank[p] /\ q \in R
  BY <1>3 DEF Refuted, Justified
<1> QED
  BY <1>1, <1>2, <1>4

\* Two types with one name are subtypes of each other.
LEMMA SameNameHolds ==
  ASSUME NEW p \in Pairs, name(p[1]) = name(p[2])
  PROVE  p \in Subtypes
<1>1. Subtyping({p})
  BY DEF Subtyping, Justified
<1> QED
  BY <1>1, SubtypesAreGreatest

LEMMA PremisesOf ==
  ASSUME NEW p \in Pairs
  PROVE  /\ Premises(Fill, p[1], p[2]) \in Rule
         /\ Premises(Fill, p[1], p[2]).pairs \in Seq(Pairs)
         /\ ToSet(Premises(Fill, p[1], p[2]).pairs) \subseteq Pairs
<1>1. p[1] \in Types /\ p[2] \in Types
  BY DEF Pairs
<1>2. Premises(Fill, p[1], p[2]) \in Rule
  BY <1>1, PremisesRule
<1>3. Premises(Fill, p[1], p[2]).pairs \in Seq(Pairs)
  BY <1>2 DEF Rule
<1> QED
  BY <1>2, <1>3 DEF ToSet

\* The premises of a pair with the same names: each has one of the same names
\* among the other's.
LEMMA PremisesOfSame ==
  ASSUME NEW p \in Pairs, NEW q \in Pairs, Same(p, q)
  PROVE  LET r == Premises(Fill, p[1], p[2])
             s == Premises(Fill, q[1], q[2])
         IN  /\ r.holds = s.holds
             /\ \A b \in ToSet(s.pairs) : \E a \in ToSet(r.pairs) : Same(a, b)
<1> DEFINE r == Premises(Fill, p[1], p[2])
           s == Premises(Fill, q[1], q[2])
<1>1. Matches(r, s)
  BY PremisesMatch DEF Pairs, Same
<1> HIDE DEF r, s
<1>2. r.holds = s.holds /\ \A b \in ToSet(s.pairs) : \E a \in ToSet(r.pairs) : Same(a, b)
  BY <1>1 DEF Matches, ToSet
<1> QED
  BY <1>2 DEF r, s

\* Whether a pair is a subtype depends on the names of its types only.
LEMMA SubtypesByName ==
  ASSUME NEW p \in Pairs, NEW q \in Pairs, Same(p, q)
  PROVE  p \in Subtypes <=> q \in Subtypes
<1> DEFINE R == {b \in Pairs : \E a \in Subtypes : Same(a, b)}
<1>1. Subtypes \subseteq Pairs
  BY SubtypesAssumption DEF Pairs
<1>2. ASSUME NEW b \in R PROVE Justified(b, R)
  <2> DEFINE rule(c) == Premises(Fill, c[1], c[2])
  <2>1. PICK a \in Subtypes : Same(a, b)
    OBVIOUS
  <2>2. a \in Pairs /\ b \in Pairs
    BY <1>1
  <2>3. CASE name(a[1]) = name(a[2])
    BY <2>1, <2>3 DEF Justified, Same
  <2>4. CASE name(a[1]) # name(a[2])
    <3>1. rule(a).holds /\ ToSet(rule(a).pairs) \subseteq Subtypes
      BY <2>1, <2>4, SubtypesAssumption DEF Subtyping, Justified
    <3>2. rule(b).holds /\ \A d \in ToSet(rule(b).pairs) : \E c \in ToSet(rule(a).pairs) : Same(c, d)
      BY <2>1, <2>2, <3>1, PremisesOfSame
    <3>3. ToSet(rule(b).pairs) \subseteq Pairs
      BY <2>2, PremisesOf
    <3> QED
      BY <3>1, <3>2, <3>3 DEF Justified
  <2> QED
    BY <2>3, <2>4
<1>3. R \subseteq Subtypes
  BY <1>2, SubtypesAreGreatest DEF Subtyping
<1>4. Same(q, p)
  BY DEF Same
<1> QED
  BY <1>3, <1>4

-----------------------------------------------------------------------------
(* What a check knows, and what it still has to find out *)

\* The pairs of which a table says that they hold.
Held(relations) == {p \in Pairs : Key(p[1], p[2]) \in DOMAIN relations /\ relations[Key(p[1], p[2])]}

\* What is a subtype, what the check has assumed and what it will compare.
Counted(p) ==
  \/ p \in Subtypes \cup Held(check.relations)
  \/ \E i \in DOMAIN check.pending : Same(check.pending[i], p)

CacheTypeOK ==
  /\ asked \in Pairs \cup {Nothing}
  /\ check.pending \in Seq(Pairs)
  /\ check.holds \in BOOLEAN
  /\ check = [relations |-> check.relations, pending |-> check.pending, holds |-> check.holds]

\* What the table says not to hold does not; what it says to hold holds if what
\* is still to be compared does; that is no more than the question needs.
CheckInv ==
  LET rule(p) == Premises(Fill, p[1], p[2])
  IN  /\ \A p \in Pairs : Key(p[1], p[2]) \in DOMAIN check.relations /\ ~check.relations[Key(p[1], p[2])]
                            => p \notin Subtypes
      /\ asked \in Subtypes => check.holds /\ ToSet(check.pending) \subseteq Subtypes
      /\ check.holds =>
           /\ Counted(asked)
           /\ \A p \in Held(check.relations) \ Subtypes :
                rule(p).holds /\ \A q \in ToSet(rule(p).pairs) : Counted(q)

CacheInv ==
  /\ CacheTypeOK
  /\ \A k \in DOMAIN subtypeCache : subtypeCache[k] \in BOOLEAN
  /\ CacheSound
  /\ ~Idle => CheckInv

LEMMA SubtypesArePairs == Subtypes \subseteq Pairs
BY SubtypesAssumption DEF Pairs

\* A pair and one of the same names are kept under the same key.
LEMMA SameKey ==
  ASSUME NEW p, NEW q
  PROVE  Key(p[1], p[2]) = Key(q[1], q[2]) <=> Same(p, q)
BY DEF Key, Same

LEMMA CachedPairs ==
  ASSUME CacheSound, NEW p \in Pairs, Key(p[1], p[2]) \in DOMAIN subtypeCache
  PROVE  subtypeCache[Key(p[1], p[2])] = (p \in Subtypes)
<1> DEFINE k == Key(p[1], p[2])
<1>1. p = <<p[1], p[2]>> /\ p[1] \in Types /\ p[2] \in Types
  BY DEF Pairs
<1>2. p[1] \in Named(k[1]) /\ p[2] \in Named(k[2])
  BY <1>1 DEF Key, Named
<1>3. subtypeCache[k] = (<<p[1], p[2]>> \in Subtypes)
  BY <1>2 DEF CacheSound
<1> QED
  BY <1>1, <1>3

LEMMA CacheInitInv == CacheInit => CacheInv
<1> SUFFICES ASSUME CacheInit PROVE CacheInv
  OBVIOUS
<1>1. DOMAIN subtypeCache = {}
  BY DEF CacheInit, NoRelations
<1>2. CacheTypeOK
  BY DEF CacheInit, CacheTypeOK, NoCheck
<1> QED
  BY <1>1, <1>2 DEF CacheInv, CacheSound, CacheInit, Idle

LEMMA AskInv ==
  ASSUME CacheInv, NEW q \in Queries, Ask(q)
  PROVE  CacheInv'
<1>1. q \in Pairs
  BY QueriesAssumption DEF Pairs
<1>2. /\ asked' = q /\ subtypeCache' = subtypeCache
      /\ check' = [relations |-> subtypeCache, pending |-> <<<<q[1], q[2]>>>>, holds |-> TRUE]
  BY DEF Ask, Check
<1>3. <<q[1], q[2]>> = q
  BY <1>1 DEF Pairs
<1>4. check'.relations = subtypeCache /\ check'.pending = <<q>> /\ check'.holds = TRUE
  BY <1>2, <1>3
<1>5. CacheTypeOK'
  BY <1>1, <1>2, <1>4 DEF CacheTypeOK
<1>6. CacheSound' /\ \A k \in DOMAIN subtypeCache' : subtypeCache'[k] \in BOOLEAN
  BY <1>2 DEF CacheInv, CacheSound
<1>7. Held(check'.relations) \subseteq Subtypes
  BY <1>4, CachedPairs DEF Held, CacheInv
<1>8. \A p \in Pairs : Key(p[1], p[2]) \in DOMAIN check'.relations /\ ~check'.relations[Key(p[1], p[2])]
         => p \notin Subtypes
  BY <1>4, CachedPairs DEF CacheInv
<1>9. asked' \in Subtypes => ToSet(check'.pending) \subseteq Subtypes
  BY <1>2, <1>4 DEF ToSet
<1>10. Counted(asked)'
  <2>1. 1 \in DOMAIN check'.pending /\ Same(check'.pending[1], q)
    BY <1>4 DEF Same
  <2> QED
    BY <1>2, <2>1 DEF Counted
<1>11. CheckInv'
  BY <1>4, <1>7, <1>8, <1>9, <1>10 DEF CheckInv
<1> QED
  BY <1>5, <1>6, <1>11 DEF CacheInv

LEMMA ResetInv ==
  ASSUME CacheInv, resetSubtypeCache
  PROVE  CacheInv'
<1>1. subtypeCache' = <<>> /\ Idle /\ UNCHANGED <<check, asked>>
  BY DEF resetSubtypeCache, NoRelations
<1>2. CacheTypeOK'
  BY <1>1 DEF CacheInv, CacheTypeOK
<1>3. DOMAIN subtypeCache' = {}
  BY <1>1
<1>4. Idle'
  BY <1>1 DEF Idle
<1> QED
  BY <1>2, <1>3, <1>4 DEF CacheInv, CacheSound

-----------------------------------------------------------------------------
(* The answer *)

\* When nothing is left to compare, everything assumed holds.
LEMMA AssumptionsHold ==
  ASSUME CacheInv, ~Idle, check.pending = <<>>, check.holds
  PROVE  Held(check.relations) \subseteq Subtypes
<1> DEFINE R == Subtypes \cup Held(check.relations)
<1>1. \A p : Counted(p) => p \in R
  <2>1. DOMAIN check.pending = {}
    OBVIOUS
  <2> QED
    BY <2>1 DEF Counted
<1>2. R \in SUBSET Pairs
  BY SubtypesArePairs DEF Held
<1>3. ASSUME NEW p \in R PROVE Justified(p, R)
  <2>1. CASE p \in Subtypes
    BY <2>1, SubtypesAssumption DEF Subtyping, Justified
  <2>2. CASE p \notin Subtypes
    <3>1. /\ Premises(Fill, p[1], p[2]).holds
          /\ \A q \in ToSet(Premises(Fill, p[1], p[2]).pairs) : Counted(q)
      BY <2>2 DEF CacheInv, CheckInv
    <3> QED
      BY <1>1, <3>1 DEF Justified
  <2> QED
    BY <2>1, <2>2
<1>4. R \subseteq Subtypes
  BY <1>2, <1>3, SubtypesAreGreatest DEF Subtyping
<1> QED
  BY <1>4

\* The answer of a check that has ended.
LEMMA AnswerRight ==
  ASSUME CacheInv, ~Idle, check.pending = <<>>
  PROVE  check.holds <=> asked \in Subtypes
<1>1. ASSUME check.holds PROVE asked \in Subtypes
  <2>1. DOMAIN check.pending = {}
    OBVIOUS
  <2>2. Counted(asked)
    BY <1>1 DEF CacheInv, CheckInv
  <2> QED
    BY <1>1, <2>1, <2>2, AssumptionsHold DEF Counted
<1>2. asked \in Subtypes => check.holds
  BY DEF CacheInv, CheckInv
<1> QED
  BY <1>1, <1>2

LEMMA AnswerInv ==
  ASSUME CacheInv, Answer
  PROVE  CacheInv'
<1> DEFINE key == Key(asked[1], asked[2])
<1>1. /\ ~Idle /\ check.pending = <<>> /\ check' = NoCheck /\ asked' = Nothing
      /\ subtypeCache' = addNames(subtypeCache, asked[1], asked[2], check.holds)
  BY DEF Answer, Learn
<1>2. asked \in Pairs /\ check.holds \in BOOLEAN
  BY <1>1 DEF CacheInv, CacheTypeOK, Idle
<1>3. CacheTypeOK'
  BY <1>1 DEF CacheTypeOK, NoCheck
<1>4. /\ DOMAIN subtypeCache' = DOMAIN subtypeCache \cup {key}
      /\ \A k \in DOMAIN subtypeCache' : subtypeCache'[k] = IF k = key THEN check.holds ELSE subtypeCache[k]
  BY <1>1 DEF addNames
<1>5. check.holds <=> asked \in Subtypes
  BY <1>1, AnswerRight
<1>6. CacheSound'
  <2> SUFFICES ASSUME NEW k \in DOMAIN subtypeCache', NEW t1 \in Named(k[1]), NEW t2 \in Named(k[2])
               PROVE  subtypeCache'[k] = (<<t1, t2>> \in Subtypes)
    BY DEF CacheSound, Named
  <2>1. CASE k = key
    <3>1. Same(asked, <<t1, t2>>) /\ <<t1, t2>> \in Pairs
      BY <2>1 DEF Key, Same, Named, Pairs
    <3>2. asked \in Subtypes <=> <<t1, t2>> \in Subtypes
      BY <1>2, <3>1, SubtypesByName
    <3> QED
      BY <1>2, <1>4, <1>5, <2>1, <3>2
  <2>2. CASE k # key
    BY <1>4, <2>2 DEF CacheInv, CacheSound
  <2> QED
    BY <2>1, <2>2
<1>7. \A k \in DOMAIN subtypeCache' : subtypeCache'[k] \in BOOLEAN
  BY <1>2, <1>4 DEF CacheInv
<1>8. Idle'
  BY <1>1 DEF Idle
<1> QED
  BY <1>3, <1>6, <1>7, <1>8 DEF CacheInv

-----------------------------------------------------------------------------
(* A comparison *)

LEMMA FirstPending ==
  ASSUME NEW s \in Seq(Pairs), s # <<>>
  PROVE  /\ Head(s) \in Pairs /\ Tail(s) \in Seq(Pairs)
         /\ ToSet(s) = {Head(s)} \cup ToSet(Tail(s))
         /\ \A i \in DOMAIN s : s[i] = Head(s) \/ \E j \in DOMAIN Tail(s) : s[i] = Tail(s)[j]
<1>1. Head(s) \in Pairs /\ Tail(s) \in Seq(Pairs) /\ Head(s) = s[1] /\ 1 \in DOMAIN s
  OBVIOUS
<1>2. \A j \in DOMAIN Tail(s) : j + 1 \in DOMAIN s /\ Tail(s)[j] = s[j + 1]
  OBVIOUS
<1>3. \A i \in DOMAIN s : i = 1 \/ (i - 1 \in DOMAIN Tail(s) /\ s[i] = Tail(s)[i - 1])
  OBVIOUS
<1>4. \A i \in DOMAIN s : s[i] = Head(s) \/ \E j \in DOMAIN Tail(s) : s[i] = Tail(s)[j]
  BY <1>1, <1>3
<1>5. ToSet(s) = {Head(s)} \cup ToSet(Tail(s))
  BY <1>1, <1>2, <1>4 DEF ToSet
<1> QED
  BY <1>1, <1>4, <1>5

LEMMA ConcatPending ==
  ASSUME NEW s \in Seq(Pairs), NEW t \in Seq(Pairs)
  PROVE  /\ s \o t \in Seq(Pairs)
         /\ ToSet(s \o t) = ToSet(s) \cup ToSet(t)
         /\ \A x \in ToSet(s) \cup ToSet(t) : \E i \in DOMAIN (s \o t) : (s \o t)[i] = x
<1>1. s \o t \in Seq(Pairs) /\ DOMAIN (s \o t) = 1..(Len(s) + Len(t))
  OBVIOUS
<1>2. \A i \in DOMAIN s : i \in DOMAIN (s \o t) /\ (s \o t)[i] = s[i]
  OBVIOUS
<1>3. \A i \in DOMAIN t : i + Len(s) \in DOMAIN (s \o t) /\ (s \o t)[i + Len(s)] = t[i]
  OBVIOUS
<1>4. ASSUME NEW i \in DOMAIN (s \o t) PROVE (s \o t)[i] \in ToSet(s) \cup ToSet(t)
  <2>1. CASE i <= Len(s)
    BY <1>1, <1>2, <2>1 DEF ToSet
  <2>2. CASE i > Len(s)
    <3>1. i - Len(s) \in DOMAIN t /\ (s \o t)[i] = t[i - Len(s)]
      BY <1>1, <2>2
    <3> QED
      BY <3>1 DEF ToSet
  <2> QED
    BY <1>1, <2>1, <2>2
<1>5. \A x \in ToSet(s) \cup ToSet(t) : \E i \in DOMAIN (s \o t) : (s \o t)[i] = x
  BY <1>2, <1>3 DEF ToSet
<1> QED
  BY <1>1, <1>4, <1>5 DEF ToSet

\* A comparison that leaves the question open keeps what counts.
LEMMA StillCounted ==
  ASSUME CacheInv, ~Idle, CacheTypeOK',
         UNCHANGED <<subtypeCache, asked>>, check'.holds = check.holds,
         \A p \in Pairs : Key(p[1], p[2]) \in DOMAIN check'.relations /\ ~check'.relations[Key(p[1], p[2])]
                            => p \notin Subtypes,
         asked \in Subtypes => ToSet(check'.pending) \subseteq Subtypes,
         \A p \in Pairs : Counted(p) => Counted(p)',
         \A p \in Held(check'.relations) \ Held(check.relations) :
           p \in Subtypes \/ (/\ Premises(Fill, p[1], p[2]).holds
                              /\ \A q \in ToSet(Premises(Fill, p[1], p[2]).pairs) : Counted(q)')
  PROVE  CacheInv'
<1> DEFINE rule(p) == Premises(Fill, p[1], p[2])
<1>1. CheckInv
  BY DEF CacheInv
<1>2. asked \in Pairs
  BY DEF CacheInv, CacheTypeOK, Idle
<1>3. asked' \in Subtypes => check'.holds /\ ToSet(check'.pending) \subseteq Subtypes
  BY <1>1 DEF CheckInv
<1>4. check'.holds => Counted(asked)'
  <2>1. check.holds => Counted(asked)
    BY <1>1 DEF CheckInv
  <2>2. Counted(asked) => Counted(asked)'
    <3>1. asked' = asked
      OBVIOUS
    <3>2. ASSUME Counted(asked) PROVE \E p \in Pairs : p = asked /\ Counted(p)'
      BY <1>2, <3>2
    <3> QED
      BY <3>1, <3>2 DEF Counted
  <2> QED
    BY <2>1, <2>2
<1>5. ASSUME check'.holds, NEW p \in Held(check'.relations) \ Subtypes
      PROVE  rule(p).holds /\ \A q \in ToSet(rule(p).pairs) : Counted(q)'
  <2>1. CASE p \in Held(check.relations)
    <3>1. rule(p).holds /\ \A q \in ToSet(rule(p).pairs) : Counted(q)
      BY <1>1, <1>5, <2>1 DEF CheckInv
    <3>2. ToSet(rule(p).pairs) \subseteq Pairs
      BY PremisesOf DEF Held
    <3> QED
      BY <3>1, <3>2
  <2>2. CASE p \notin Held(check.relations)
    BY <2>2
  <2> QED
    BY <2>1, <2>2
<1>6. CheckInv'
  BY <1>3, <1>4, <1>5 DEF CheckInv
<1>7. CacheSound' /\ \A k \in DOMAIN subtypeCache' : subtypeCache'[k] \in BOOLEAN
  BY DEF CacheInv, CacheSound
<1> QED
  BY <1>6, <1>7 DEF CacheInv

\* The first pair holds already, or is assumed to.
LEMMA DropInv ==
  ASSUME CacheInv, ~Idle, check.pending # <<>>, UNCHANGED <<subtypeCache, asked>>,
         check' = [check EXCEPT !.pending = Tail(check.pending)],
         \A q \in Pairs : Same(Head(check.pending), q) => q \in Subtypes \cup Held(check.relations)
  PROVE  CacheInv'
<1>1. CacheTypeOK
  BY DEF CacheInv
<1>2. /\ check'.relations = check.relations /\ check'.pending = Tail(check.pending)
      /\ check'.holds = check.holds
      /\ check' = [relations |-> check'.relations, pending |-> check'.pending, holds |-> check'.holds]
  BY <1>1 DEF CacheTypeOK
<1>3. /\ Tail(check.pending) \in Seq(Pairs)
      /\ ToSet(Tail(check.pending)) \subseteq ToSet(check.pending)
      /\ \A i \in DOMAIN check.pending :
           \/ check.pending[i] = Head(check.pending)
           \/ \E j \in DOMAIN Tail(check.pending) : check.pending[i] = Tail(check.pending)[j]
  BY <1>1, FirstPending DEF CacheTypeOK
<1>4. CacheTypeOK'
  BY <1>1, <1>2, <1>3 DEF CacheTypeOK
<1>5. ASSUME NEW p \in Pairs, Counted(p) PROVE Counted(p)'
  <2>1. CASE p \in Subtypes \cup Held(check.relations)
    BY <1>2, <2>1 DEF Counted
  <2>2. ASSUME NEW i \in DOMAIN check.pending, Same(check.pending[i], p) PROVE Counted(p)'
    <3>1. CASE check.pending[i] = Head(check.pending)
      BY <1>2, <2>2, <3>1 DEF Counted
    <3>2. ASSUME NEW j \in DOMAIN Tail(check.pending), check.pending[i] = Tail(check.pending)[j]
          PROVE  Counted(p)'
      BY <1>2, <2>2, <3>2 DEF Counted
    <3> QED
      BY <1>3, <3>1, <3>2
  <2> QED
    BY <1>5, <2>1, <2>2 DEF Counted
<1>6. CheckInv
  BY DEF CacheInv
<1>7. asked \in Subtypes => ToSet(check'.pending) \subseteq Subtypes
  BY <1>2, <1>3, <1>6 DEF CheckInv
<1>8. \A p \in Pairs : Key(p[1], p[2]) \in DOMAIN check'.relations /\ ~check'.relations[Key(p[1], p[2])]
         => p \notin Subtypes
  BY <1>2, <1>6 DEF CheckInv
<1>9. Held(check'.relations) \ Held(check.relations) = {}
  BY <1>2
<1> QED
  BY <1>2, <1>4, <1>5, <1>7, <1>8, <1>9, StillCounted

\* The first pair is no subtype, and the answer is known.
LEMMA FailInv ==
  ASSUME CacheInv, ~Idle, check.pending # <<>>, UNCHANGED <<subtypeCache, asked>>,
         check' = [relations |-> check'.relations, pending |-> <<>>, holds |-> FALSE],
         Head(check.pending) \notin Subtypes,
         \A p \in Pairs : Key(p[1], p[2]) \in DOMAIN check'.relations /\ ~check'.relations[Key(p[1], p[2])]
                            => p \notin Subtypes
  PROVE  CacheInv'
<1>1. CacheTypeOK /\ CheckInv
  BY DEF CacheInv
<1>2. check'.pending = <<>> /\ check'.holds = FALSE
  OBVIOUS
<1>3. CacheTypeOK'
  <2>1. <<>> \in Seq(Pairs)
    OBVIOUS
  <2>2. check' = [relations |-> check'.relations, pending |-> check'.pending, holds |-> check'.holds]
    BY <1>2
  <2> QED
    BY <1>1, <1>2, <2>1, <2>2 DEF CacheTypeOK
<1>4. Head(check.pending) \in ToSet(check.pending)
  BY <1>1, FirstPending DEF CacheTypeOK
<1>5. asked \notin Subtypes
  BY <1>1, <1>4 DEF CheckInv
<1>6. CheckInv'
  BY <1>2, <1>5 DEF CheckInv
<1>7. CacheSound' /\ \A k \in DOMAIN subtypeCache' : subtypeCache'[k] \in BOOLEAN
  BY DEF CacheInv, CacheSound
<1> QED
  BY <1>3, <1>6, <1>7 DEF CacheInv

LEMMA AssumedPairs ==
  ASSUME NEW relations, NEW p \in Pairs,
         NEW assumed, assumed = addNames(relations, p[1], p[2], TRUE)
  PROVE  /\ \A q : q \in Held(assumed) <=> q \in Held(relations) \/ (q \in Pairs /\ Same(p, q))
         /\ \A q \in Pairs : Key(q[1], q[2]) \in DOMAIN assumed /\ ~assumed[Key(q[1], q[2])]
               => Key(q[1], q[2]) \in DOMAIN relations /\ ~relations[Key(q[1], q[2])]
<1> DEFINE key(q) == Key(q[1], q[2])
<1>1. /\ DOMAIN assumed = DOMAIN relations \cup {key(p)}
      /\ \A k \in DOMAIN assumed : assumed[k] = IF k = key(p) THEN TRUE ELSE relations[k]
  BY DEF addNames
<1>2. \A q : key(p) = key(q) <=> Same(p, q)
  BY SameKey
<1> HIDE DEF key
<1>3. \A q \in Pairs : key(q) \in DOMAIN assumed /\ ~assumed[key(q)]
                          => key(q) \in DOMAIN relations /\ ~relations[key(q)]
  BY <1>1
<1>4. \A r, q : q \in Held(r) <=> q \in Pairs /\ key(q) \in DOMAIN r /\ r[key(q)]
  BY DEF Held, key
<1>5. ASSUME NEW q \in Pairs PROVE q \in Held(assumed) <=> q \in Held(relations) \/ Same(p, q)
  <2>1. CASE key(q) = key(p)
    BY <1>1, <1>2, <1>4, <2>1
  <2>2. CASE key(q) # key(p)
    BY <1>1, <1>2, <1>4, <2>2
  <2> QED
    BY <2>1, <2>2
<1>6. \A q : q \in Held(assumed) <=> q \in Held(relations) \/ (q \in Pairs /\ Same(p, q))
  BY <1>4, <1>5
<1> QED
  BY <1>3, <1>6 DEF key

\* The first pair is assumed, and its premises are compared next.
LEMMA UnfoldInv ==
  ASSUME CacheInv, ~Idle, check.pending # <<>>, UNCHANGED <<subtypeCache, asked>>,
         NEW p, p = Head(check.pending), NEW rule, rule = Premises(Fill, p[1], p[2]),
         name(p[1]) # name(p[2]), rule.holds,
         check' = [check EXCEPT !.relations = addNames(check.relations, p[1], p[2], TRUE),
                                !.pending = rule.pairs \o Tail(check.pending)]
  PROVE  CacheInv'
<1> DEFINE rest == Tail(check.pending)
<1>1. CacheTypeOK /\ CheckInv
  BY DEF CacheInv
<1>2. /\ check'.relations = addNames(check.relations, p[1], p[2], TRUE)
      /\ check'.pending = rule.pairs \o rest /\ check'.holds = check.holds
      /\ check' = [relations |-> check'.relations, pending |-> check'.pending, holds |-> check'.holds]
  BY <1>1 DEF CacheTypeOK
<1>3. /\ p \in Pairs /\ rest \in Seq(Pairs)
      /\ ToSet(check.pending) = {p} \cup ToSet(rest)
      /\ \A i \in DOMAIN check.pending : check.pending[i] = p \/ \E j \in DOMAIN rest : check.pending[i] = rest[j]
  BY <1>1, FirstPending DEF CacheTypeOK
<1>4. rule.pairs \in Seq(Pairs) /\ ToSet(rule.pairs) \subseteq Pairs
  BY <1>3, PremisesOf
<1>5. /\ check'.pending \in Seq(Pairs)
      /\ ToSet(check'.pending) = ToSet(rule.pairs) \cup ToSet(rest)
      /\ \A x \in ToSet(rule.pairs) \cup ToSet(rest) : \E i \in DOMAIN check'.pending : check'.pending[i] = x
  <2> DEFINE both == rule.pairs \o rest
  <2>1. /\ both \in Seq(Pairs)
        /\ ToSet(both) = ToSet(rule.pairs) \cup ToSet(rest)
        /\ \A x \in ToSet(rule.pairs) \cup ToSet(rest) : \E i \in DOMAIN both : both[i] = x
    <3>1. rest \in Seq(Pairs) /\ rule.pairs \in Seq(Pairs)
      BY <1>3, <1>4
    <3> HIDE DEF rest
    <3> QED
      BY <3>1, ConcatPending
  <2>2. check'.pending = both
    BY <1>2
  <2> HIDE DEF both, rest
  <2> QED
    BY <2>1, <2>2
<1>6. CacheTypeOK'
  BY <1>1, <1>2, <1>5 DEF CacheTypeOK
<1>7. /\ \A q : q \in Held(check'.relations) <=> q \in Held(check.relations) \/ (q \in Pairs /\ Same(p, q))
      /\ \A q \in Pairs : Key(q[1], q[2]) \in DOMAIN check'.relations /\ ~check'.relations[Key(q[1], q[2])]
           => q \notin Subtypes
  <2>1. /\ \A q : q \in Held(check'.relations) <=> q \in Held(check.relations) \/ (q \in Pairs /\ Same(p, q))
        /\ \A q \in Pairs : Key(q[1], q[2]) \in DOMAIN check'.relations /\ ~check'.relations[Key(q[1], q[2])]
             => Key(q[1], q[2]) \in DOMAIN check.relations /\ ~check.relations[Key(q[1], q[2])]
    <3>1. p \in Pairs /\ check'.relations = addNames(check.relations, p[1], p[2], TRUE)
      BY <1>2, <1>3
    <3> QED
      BY <3>1, AssumedPairs
  <2> QED
    BY <1>1, <2>1 DEF CheckInv
<1>8. ASSUME NEW q \in Pairs, Counted(q) PROVE Counted(q)'
  <2>1. CASE q \in Subtypes \cup Held(check.relations) \/ Same(p, q)
    BY <1>7, <2>1 DEF Counted
  <2>2. ASSUME NEW i \in DOMAIN check.pending, Same(check.pending[i], q) PROVE Counted(q)'
    <3>1. CASE check.pending[i] = p
      BY <2>1, <2>2, <3>1
    <3>2. ASSUME NEW j \in DOMAIN rest, check.pending[i] = rest[j] PROVE Counted(q)'
      <4>1. \E k \in DOMAIN check'.pending : check'.pending[k] = rest[j]
        BY <1>5 DEF ToSet
      <4> QED
        BY <2>2, <3>2, <4>1 DEF Counted
    <3> QED
      BY <1>3, <3>1, <3>2
  <2> QED
    BY <1>8, <2>1, <2>2 DEF Counted
<1>9. asked \in Subtypes => ToSet(check'.pending) \subseteq Subtypes
  <2> SUFFICES ASSUME asked \in Subtypes PROVE ToSet(check'.pending) \subseteq Subtypes
    OBVIOUS
  <2>1. p \in Subtypes /\ ToSet(rest) \subseteq Subtypes
    BY <1>1, <1>3 DEF CheckInv
  <2>2. Justified(p, Subtypes)
    BY <2>1, SubtypesAssumption DEF Subtyping
  <2> QED
    BY <1>5, <2>1, <2>2 DEF Justified
<1>10. ASSUME NEW q \in Held(check'.relations) \ Held(check.relations)
       PROVE  /\ Premises(Fill, q[1], q[2]).holds
              /\ \A b \in ToSet(Premises(Fill, q[1], q[2]).pairs) : Counted(b)'
  <2>1. q \in Pairs /\ Same(p, q)
    BY <1>7
  <2>2. /\ Premises(Fill, q[1], q[2]).holds = rule.holds
        /\ \A b \in ToSet(Premises(Fill, q[1], q[2]).pairs) : \E a \in ToSet(rule.pairs) : Same(a, b)
    BY <1>3, <2>1, PremisesOfSame
  <2>3. ASSUME NEW b \in ToSet(Premises(Fill, q[1], q[2]).pairs) PROVE Counted(b)'
    <3>1. PICK a \in ToSet(rule.pairs) : Same(a, b)
      BY <2>2
    <3>2. \E k \in DOMAIN check'.pending : check'.pending[k] = a
      BY <1>5
    <3> QED
      BY <3>1, <3>2 DEF Counted
  <2> QED
    BY <2>2, <2>3
<1> QED
  BY <1>2, <1>6, <1>7, <1>8, <1>9, <1>10, StillCounted

LEMMA CompareInv ==
  ASSUME CacheInv, Compare
  PROVE  CacheInv'
<1> DEFINE p    == Head(check.pending)
           rule == Premises(Fill, p[1], p[2])
           key  == Key(p[1], p[2])
<1>1. ~Idle /\ check.pending # <<>> /\ check' = subtype_(Fill, check) /\ UNCHANGED <<subtypeCache, asked>>
  BY DEF Compare
<1>2. CacheTypeOK /\ CheckInv
  BY <1>1 DEF CacheInv
<1>3. p \in Pairs
  BY <1>1, <1>2, FirstPending DEF CacheTypeOK
<1>4. CASE name(p[1]) = name(p[2])
  <2>1. check' = [check EXCEPT !.pending = Tail(check.pending)]
    BY <1>1, <1>4 DEF subtype_
  <2>2. \A q \in Pairs : Same(p, q) => q \in Subtypes
    BY <1>4, SameNameHolds DEF Same
  <2> QED
    BY <1>1, <2>1, <2>2, DropInv
<1>5. CASE name(p[1]) # name(p[2]) /\ key \in DOMAIN check.relations /\ check.relations[key]
  <2>1. check' = [check EXCEPT !.pending = Tail(check.pending)]
    BY <1>1, <1>5 DEF subtype_, known
  <2>2. \A q \in Pairs : Same(p, q) => q \in Held(check.relations)
    BY <1>5, SameKey DEF Held
  <2> QED
    BY <1>1, <2>1, <2>2, DropInv
<1>6. CASE name(p[1]) # name(p[2]) /\ key \in DOMAIN check.relations /\ ~check.relations[key]
  <2>1. check' = [check EXCEPT !.pending = <<>>, !.holds = FALSE]
    BY <1>1, <1>6 DEF subtype_, known
  <2>2. check' = [relations |-> check.relations, pending |-> <<>>, holds |-> FALSE]
    BY <1>2, <2>1 DEF CacheTypeOK
  <2>3. check'.relations = check.relations
    BY <2>2
  <2> QED
    BY <1>1, <1>2, <1>3, <1>6, <2>2, <2>3, FailInv DEF CheckInv
<1>7. CASE name(p[1]) # name(p[2]) /\ key \notin DOMAIN check.relations /\ ~rule.holds
  <2>1. check' = [relations |-> addNames(check.relations, p[1], p[2], TRUE), pending |-> <<>>, holds |-> FALSE]
    BY <1>1, <1>7 DEF subtype_, known
  <2>2. check'.relations = addNames(check.relations, p[1], p[2], TRUE)
    BY <2>1
  <2>3. p \notin Subtypes
    BY <1>7, SubtypesAssumption DEF Subtyping, Justified
  <2>4. \A q \in Pairs : Key(q[1], q[2]) \in DOMAIN check'.relations /\ ~check'.relations[Key(q[1], q[2])]
          => q \notin Subtypes
    BY <1>2, <1>3, <2>2, AssumedPairs DEF CheckInv
  <2> QED
    BY <1>1, <2>1, <2>2, <2>3, <2>4, FailInv
<1>8. CASE name(p[1]) # name(p[2]) /\ key \notin DOMAIN check.relations /\ rule.holds
  <2>1. check' = [check EXCEPT !.relations = addNames(check.relations, p[1], p[2], TRUE),
                               !.pending = rule.pairs \o Tail(check.pending)]
    BY <1>1, <1>8 DEF subtype_, known
  <2> QED
    BY <1>1, <1>8, <2>1, UnfoldInv
<1> QED
  BY <1>4, <1>5, <1>6, <1>7, <1>8

-----------------------------------------------------------------------------

LEMMA CacheNextInv == CacheInv /\ [CacheNext]_cacheVars => CacheInv'
<1> SUFFICES ASSUME CacheInv, [CacheNext]_cacheVars PROVE CacheInv'
  OBVIOUS
<1>1. CASE UNCHANGED cacheVars
  BY <1>1 DEF CacheInv, CacheTypeOK, CacheSound, CheckInv, Counted, Idle, cacheVars
<1> QED
  BY <1>1, AskInv, CompareInv, AnswerInv, ResetInv DEF CacheNext

\* Whatever is asked in whatever order, the cache holds right answers only, of
\* recursive types as well: an assumption of a check that failed is forgotten,
\* and one of a check that succeeded has been confirmed.
THEOREM CacheIsSound == CacheSpec => []CacheSound
<1>1. CacheInv => CacheSound
  BY DEF CacheInv
<1> QED
  BY <1>1, CacheInitInv, CacheNextInv, PTL DEF CacheSpec

\* A comparison settles the question, or takes its pair off the list for good,
\* or finds a pair of names that the table had nothing about.
Advances ==
  \/ check'.pending = <<>>
  \/ check'.relations = check.relations /\ check'.pending = Tail(check.pending)
  \/ \E p \in Pairs :
       /\ Key(p[1], p[2]) \notin DOMAIN check.relations
       /\ DOMAIN check'.relations = DOMAIN check.relations \cup {Key(p[1], p[2])}

\* Every comparison of the check brings it nearer its end, recursive types or
\* not: with finitely many names it cannot go on for ever.
THEOREM CheckAdvances == CacheSpec => [][Compare => Advances]_cacheVars
<1>1. ASSUME CacheInv, Compare PROVE Advances
  <2> DEFINE p == Head(check.pending)
             assumed == addNames(check.relations, p[1], p[2], TRUE)
  <2>1. CacheTypeOK /\ check.pending # <<>> /\ check' = subtype_(Fill, check)
    BY <1>1 DEF CacheInv, Compare
  <2>2. p \in Pairs
    BY <2>1, FirstPending DEF CacheTypeOK
  <2>3. CASE \/ name(p[1]) = name(p[2])
             \/ known(check.relations, p[1], p[2]) /\ check.relations[Key(p[1], p[2])]
    <3>1. check' = [check EXCEPT !.pending = Tail(check.pending)]
      BY <2>1, <2>3 DEF subtype_
    <3> QED
      BY <2>1, <3>1 DEF Advances, CacheTypeOK
  <2>4. CASE /\ name(p[1]) # name(p[2])
             /\ known(check.relations, p[1], p[2]) /\ ~check.relations[Key(p[1], p[2])]
    <3>1. check' = [check EXCEPT !.pending = <<>>, !.holds = FALSE]
      BY <2>1, <2>4 DEF subtype_
    <3> QED
      BY <2>1, <3>1 DEF Advances, CacheTypeOK
  <2>5. CASE name(p[1]) # name(p[2]) /\ ~known(check.relations, p[1], p[2])
    <3>1. check'.relations = assumed
      BY <2>1, <2>5 DEF subtype_, CacheTypeOK
    <3>2. DOMAIN assumed = DOMAIN check.relations \cup {Key(p[1], p[2])}
      BY DEF addNames
    <3> HIDE DEF p, assumed
    <3> QED
      BY <2>2, <2>5, <3>1, <3>2 DEF Advances, known
  <2> QED
    BY <2>3, <2>4, <2>5
<1> QED
  BY <1>1, CacheInitInv, CacheNextInv, PTL DEF CacheSpec

-----------------------------------------------------------------------------
(* Recursive functions of numbers *)

\* Induction on the numbers of a set, stated for the set of those it holds of.
LEMMA Induction ==
  ASSUME NEW D \in SUBSET Nat, NEW P,
         \A n \in D : (\A m \in D : m < n => m \in P) => n \in P
  PROVE  D \subseteq P
<1> DEFINE R == OpToRel(<, Nat)
<1>1. IsWellFoundedOn(R, Nat)
  BY NatLessThanWellFounded
<1>2. \A m, n \in Nat : m < n => <<m, n>> \in R
  BY DEF OpToRel
<1> HIDE DEF R
<1> SUFFICES ASSUME D \ P # {} PROVE FALSE
  OBVIOUS
<1>3. PICK n \in D \ P : \A m \in D \ P : ~(<<m, n>> \in R)
  <2>1. D \ P \subseteq Nat
    OBVIOUS
  <2> QED
    BY <1>1, <2>1, WFMin
<1>4. \A m \in D : m < n => m \in P
  BY <1>2, <1>3
<1> QED
  BY <1>3, <1>4

\* A recursion over the numbers of D: first says the values at those of B, and
\* rule the others, from the value at a lower number.
Descends(S, D, B, first, down, rule) ==
  /\ D \subseteq Nat /\ B \subseteq D /\ first \in [D -> S]
  /\ down \in [D -> D] /\ rule \in [D -> [S -> S]]
  /\ \A n \in D \ B : down[n] < n

Solves(f, D, B, first, down, rule) ==
  \A n \in D : f[n] = IF n \in B THEN first[n] ELSE rule[n][f[down[n]]]

\* Every recursion has a function that solves it.
LEMMA Recursion ==
  ASSUME NEW S, NEW D, NEW B, NEW first, NEW down, NEW rule,
         Descends(S, D, B, first, down, rule)
  PROVE  \E f \in [D -> S] : Solves(f, D, B, first, down, rule)
<1> SUFFICES ASSUME D \in SUBSET Nat, B \in SUBSET D, first \in [D -> S],
                    down \in [D -> D], rule \in [D -> [S -> S]],
                    \A n \in D \ B : down[n] < n
             PROVE  \E f \in [D -> S] : Solves(f, D, B, first, down, rule)
  BY DEF Descends
<1> DEFINE Below(n) == {m \in D : m < n}
           Value(f, n) == IF n \in B THEN first[n] ELSE rule[n][f[down[n]]]
           Partial(f, n) == f \in [Below(n) -> S] /\ \A m \in Below(n) : f[m] = Value(f, m)
<1>0. \A n \in D : n \in Nat /\ (n \notin B => down[n] \in D /\ down[n] \in Nat /\ down[n] < n)
  OBVIOUS
<1>1. ASSUME NEW f, NEW m \in D, \A k \in D : k < m => f[k] \in S
      PROVE  Value(f, m) \in S
  BY <1>1
<1>2. ASSUME NEW n \in Nat, NEW k \in Nat, NEW f, Partial(f, n), NEW g, Partial(g, k)
      PROVE  \A m \in D : m < n /\ m < k => f[m] = g[m]
  <2> DEFINE P == {m \in D : m < n /\ m < k => f[m] = g[m]}
  <2>1. ASSUME NEW m \in D, \A l \in D : l < m => l \in P
        PROVE  m \in P
    <3>1. CASE ~(m < n /\ m < k)
      BY <3>1
    <3>2. CASE m < n /\ m < k
      <4>1. f[m] = Value(f, m) /\ g[m] = Value(g, m)
        BY <1>2, <3>2
      <4>2. m \notin B => f[down[m]] = g[down[m]]
        <5> SUFFICES ASSUME m \notin B PROVE f[down[m]] = g[down[m]]
          OBVIOUS
        <5>1. down[m] \in P
          BY <1>0, <2>1
        <5>2. down[m] < n /\ down[m] < k
          <6>1. m \in Nat /\ down[m] \in Nat /\ down[m] < m
            BY <1>0
          <6> HIDE DEF P
          <6> QED
            BY <6>1, <3>2, <1>2
        <5> QED
          BY <5>1, <5>2
      <4> QED
        BY <4>1, <4>2
    <3> QED
      BY <3>1, <3>2
  <2>2. D \subseteq P
    <3> HIDE DEF P
    <3> QED
      BY <2>1, Induction
  <2> QED
    BY <2>2
<1>3. \A n \in Nat : \E f : Partial(f, n)
  <2> DEFINE P == {n \in Nat : \E f : Partial(f, n)}
  <2>1. ASSUME NEW n \in Nat, \A m \in Nat : m < n => m \in P
        PROVE  n \in P
    <3>1. CASE n = 0
      <4>1. Partial([m \in {} |-> 0], n)
        BY <3>1
      <4> QED
        BY <4>1
    <3>2. CASE n # 0
      <4>0. n - 1 \in Nat /\ n - 1 < n
        BY <3>2
      <4>1. PICK f : Partial(f, n - 1)
        BY <2>1, <4>0
      <4> DEFINE g == [m \in Below(n) |-> IF m < n - 1 THEN f[m] ELSE Value(f, m)]
      <4>2. \A m \in Below(n) : m < n - 1 \/ m = n - 1
        OBVIOUS
      <4>3. \A m \in Below(n - 1) : m \in Below(n) /\ g[m] = f[m]
        OBVIOUS
      <4>9. \A m \in Below(n) : m \notin B => g[down[m]] = f[down[m]]
        <5> SUFFICES ASSUME NEW m \in Below(n), m \notin B PROVE g[down[m]] = f[down[m]]
          OBVIOUS
        <5>1. down[m] \in Below(n - 1)
          <6>1. m \in Nat /\ down[m] \in D /\ down[m] \in Nat /\ down[m] < m
            BY <1>0
          <6>2. m < n - 1 \/ m = n - 1
            BY <4>2
          <6>3. down[m] < n - 1
            BY <6>1, <6>2, <4>0
          <6> QED
            BY <6>1, <6>3
        <5> QED
          BY <4>3, <5>1
      <4>4. \A m \in Below(n) : Value(g, m) = Value(f, m)
        <5> HIDE DEF g
        <5> QED
          BY <4>9
      <4>5. \A m \in Below(n) : g[m] = Value(f, m)
        BY <4>1, <4>2
      <4>6. \A m \in Below(n) : Value(f, m) \in S
        <5> SUFFICES ASSUME NEW m \in Below(n) PROVE Value(f, m) \in S
          OBVIOUS
        <5>1. \A k \in D : k < m => f[k] \in S
          BY <4>1
        <5> QED
          BY <5>1, <1>1
      <4>7. Partial(g, n)
        <5> HIDE DEF Value
        <5>1. g \in [Below(n) -> S]
          BY <4>5, <4>6
        <5> QED
          BY <5>1, <4>4, <4>5
      <4> QED
        BY <4>7
    <3> QED
      BY <3>1, <3>2
  <2>2. Nat \subseteq P
    <3> HIDE DEF P
    <3> QED
      BY <2>1, Induction
  <2> QED
    BY <2>2
<1> DEFINE F == [n \in D |-> (CHOOSE f : Partial(f, n + 1))[n]]
<1>4. ASSUME NEW n \in D PROVE F[n] \in S /\ F[n] = Value(F, n)
  <2> DEFINE f == CHOOSE g : Partial(g, n + 1)
  <2>1. Partial(f, n + 1)
    <3> HIDE DEF Partial
    <3> QED
      BY <1>3
  <2>2. \A m \in D : m <= n => F[m] = f[m]
    <3> SUFFICES ASSUME NEW m \in D, m <= n PROVE F[m] = f[m]
      OBVIOUS
    <3> DEFINE g == CHOOSE h : Partial(h, m + 1)
    <3>1. Partial(g, m + 1)
      <4> HIDE DEF Partial
      <4> QED
        BY <1>3
    <3>2. F[m] = g[m]
      OBVIOUS
    <3> HIDE DEF f, g, F, Partial
    <3>3. m + 1 \in Nat /\ n + 1 \in Nat /\ m < m + 1 /\ m < n + 1
      OBVIOUS
    <3>4. \A k \in D : k < n + 1 /\ k < m + 1 => f[k] = g[k]
      BY <1>2, <2>1, <3>1, <3>3
    <3> QED
      BY <3>2, <3>3, <3>4
  <2> HIDE DEF f, F
  <2>3. n \in Below(n + 1)
    OBVIOUS
  <2>4. n \notin B => F[down[n]] = f[down[n]]
    <3> SUFFICES ASSUME n \notin B PROVE F[down[n]] = f[down[n]]
      OBVIOUS
    <3>1. down[n] \in D /\ down[n] <= n
      BY <1>0
    <3> QED
      BY <2>2, <3>1
  <2> QED
    BY <2>1, <2>2, <2>3, <2>4
<1>5. F \in [D -> S]
  <2>1. F = [n \in D |-> F[n]]
    OBVIOUS
  <2> HIDE DEF F
  <2> QED
    BY <1>4, <2>1
<1> HIDE DEF F
<1> QED
  BY <1>4, <1>5 DEF Solves

-----------------------------------------------------------------------------
(* Digits *)

LEMMA SumInNat ==
  ASSUME NEW a \in Nat, NEW b \in Nat
  PROVE  a + b \in Nat
OBVIOUS

\* Horner's scheme, from the highest digit down.
Horner(digits, base, n, high) ==
  /\ high \in [0..n -> Nat] /\ high[0] = 0
  /\ \A k \in 1..n : high[k] = digits[n - k + 1] + (base * high[k - 1])

\* LittleEndian is what the scheme ends with.
LEMMA HornerSums ==
  ASSUME NEW n \in Nat, NEW base \in Nat, NEW digits \in [1..n -> Nat]
  PROVE  \E high : Horner(digits, base, n, high) /\ LittleEndian(digits, base) = high[n]
<1> DEFINE Body(h) == [k \in 0..n |-> IF k = 0 THEN 0 ELSE digits[n - k + 1] + base * h[k - 1]]
           high == CHOOSE h : h = Body(h)
<1>1. LittleEndian(digits, base) = high[n]
  <2>1. Len(digits) = n
    OBVIOUS
  <2> QED
    BY <2>1 DEF LittleEndian
<1>2. high = Body(high)
  <2>1. \E h : h \in [0..n -> Nat] /\ h = Body(h)
    <3> DEFINE first == [k \in 0..n |-> 0]
               down == [k \in 0..n |-> IF k = 0 THEN 0 ELSE k - 1]
               rule == [k \in 0..n |-> [v \in Nat |-> IF k = 0 THEN 0 ELSE digits[n - k + 1] + base * v]]
    <3>1. first \in [0..n -> Nat] /\ down \in [0..n -> 0..n]
      OBVIOUS
    <3>2. rule \in [0..n -> [Nat -> Nat]]
      <4>1. ASSUME NEW k \in 0..n, NEW v \in Nat, k # 0
            PROVE  digits[n - k + 1] + base * v \in Nat
        <5>1. n - k + 1 \in 1..n
          BY <4>1
        <5>2. digits[n - k + 1] \in Nat
          BY <5>1
        <5>3. base * v \in Nat
          OBVIOUS
        <5> QED
          BY <5>2, <5>3, SumInNat
      <4> QED
        BY <4>1
    <3>3. \A k \in (0..n) \ {0} : down[k] < k
      OBVIOUS
    <3> HIDE DEF first, down, rule
    <3>4. PICK h \in [0..n -> Nat] : \A k \in 0..n : h[k] = IF k \in {0} THEN first[k] ELSE rule[k][h[down[k]]]
      <4>1. Descends(Nat, 0..n, {0}, first, down, rule)
        <5>1. 0..n \subseteq Nat /\ {0} \subseteq 0..n
          OBVIOUS
        <5> QED
          BY <5>1, <3>1, <3>2, <3>3 DEF Descends
      <4>2. PICK h \in [0..n -> Nat] : Solves(h, 0..n, {0}, first, down, rule)
        BY <4>1, Recursion
      <4> QED
        BY <4>2 DEF Solves
    <3>5. \A k \in 0..n : h[k] = IF k = 0 THEN 0 ELSE digits[n - k + 1] + base * h[k - 1]
      <4> SUFFICES ASSUME NEW k \in 0..n
                   PROVE  h[k] = IF k = 0 THEN 0 ELSE digits[n - k + 1] + base * h[k - 1]
        OBVIOUS
      <4>1. CASE k = 0
        BY <3>4, <4>1 DEF first
      <4>2. CASE k # 0
        <5>0. k - 1 \in 0..n
          BY <4>2
        <5>1. down[k] = k - 1 /\ h[k - 1] \in Nat
          BY <4>2, <5>0 DEF down
        <5>2. rule[k][h[k - 1]] = digits[n - k + 1] + base * h[k - 1]
          BY <4>2, <5>1 DEF rule
        <5> QED
          BY <3>4, <4>2, <5>1, <5>2
      <4> QED
        BY <4>1, <4>2
    <3> QED
      BY <3>5
  <2> HIDE DEF Body
  <2> QED
    BY <2>1
<1>5. high \in [0..n -> Nat]
  <2> HIDE DEF high
  <2> DEFINE P == {k \in 0..n : high[k] \in Nat}
  <2>1. ASSUME NEW k \in 0..n, \A m \in 0..n : m < k => m \in P
        PROVE  k \in P
    <3>1. CASE k = 0
      BY <1>2, <3>1
    <3>2. CASE k # 0
      <4>1. k - 1 \in P /\ n - k + 1 \in 1..n
        BY <2>1, <3>2
      <4>2. high[k] = digits[n - k + 1] + (base * high[k - 1])
        BY <1>2, <3>2
      <4>3. digits[n - k + 1] \in Nat /\ high[k - 1] \in Nat
        BY <4>1
      <4>4. base * high[k - 1] \in Nat
        BY <4>3
      <4> QED
        BY <4>2, <4>3, <4>4, SumInNat
    <3> QED
      BY <3>1, <3>2
  <2>2. 0..n \in SUBSET Nat
    OBVIOUS
  <2>3. 0..n \subseteq P
    <3> HIDE DEF P
    <3> QED
      BY <2>1, <2>2, Induction
  <2>4. \A k \in 0..n : high[k] \in Nat
    BY <2>3
  <2>5. high = [k \in 0..n |-> high[k]]
    BY <1>2
  <2> HIDE DEF Body, P
  <2> QED
    BY <2>4, <2>5
<1>3. high[0] = 0 /\ \A k \in 1..n : high[k] = digits[n - k + 1] + (base * high[k - 1])
  <2>1. 0 \in 0..n /\ \A k \in 1..n : k \in 0..n /\ k # 0
    OBVIOUS
  <2> HIDE DEF high
  <2> QED
    BY <1>2, <2>1
<1> HIDE DEF high
<1>4. Horner(digits, base, n, high)
  BY <1>3, <1>5 DEF Horner
<1> QED
  BY <1>1, <1>4

\* A number is that of its digits if each digit and the rest make it up: rest[i]
\* is what is left of it behind the lowest i digits.
Digits(digits, base, n, rest) ==
  /\ digits \in [1..n -> Nat] /\ rest \in [0..n -> Nat] /\ rest[n] = 0
  /\ \A i \in 1..n : rest[i - 1] = digits[i] + (base * rest[i])

\* Then the number is what is left of it behind none.
LEMMA LittleEndianOf ==
  ASSUME NEW n \in Nat, NEW base \in Nat, NEW digits, NEW rest, Digits(digits, base, n, rest)
  PROVE  LittleEndian(digits, base) = rest[0]
<1> SUFFICES ASSUME digits \in [1..n -> Nat], rest \in [0..n -> Nat], rest[n] = 0,
                    \A i \in 1..n : rest[i - 1] = digits[i] + (base * rest[i])
             PROVE  LittleEndian(digits, base) = rest[0]
  BY DEF Digits
<1>1. PICK high : Horner(digits, base, n, high) /\ LittleEndian(digits, base) = high[n]
  BY HornerSums
<1>2. /\ high \in [0..n -> Nat] /\ high[0] = 0
      /\ \A k \in 1..n : high[k] = digits[n - k + 1] + (base * high[k - 1])
  BY <1>1 DEF Horner
<1> DEFINE P == {k \in 0..n : high[k] = rest[n - k]}
<1>3. ASSUME NEW k \in 0..n, \A m \in 0..n : m < k => m \in P
      PROVE  k \in P
  <2>1. CASE k = 0
    BY <1>2, <2>1
  <2>2. CASE k # 0
    <3>1. k - 1 \in P
      BY <1>3, <2>2
    <3>4. high[k] = digits[n - k + 1] + base * high[k - 1]
      BY <1>2, <2>2
    <3>5. high[k - 1] = rest[n - k + 1]
      <4>1. n - (k - 1) = n - k + 1
        OBVIOUS
      <4> QED
        BY <3>1, <4>1
    <3>2. high[k] = digits[n - k + 1] + base * rest[n - k + 1]
      BY <3>4, <3>5
    <3>3. rest[n - k] = digits[n - k + 1] + (base * rest[n - k + 1])
      <4>1. n - k + 1 \in 1..n
        BY <2>2
      <4> QED
        BY <4>1
    <3> QED
      BY <3>2, <3>3
  <2> QED
    BY <2>1, <2>2
<1>4. 0..n \subseteq P
  <2>1. 0..n \in SUBSET Nat
    OBVIOUS
  <2> HIDE DEF P
  <2> QED
    BY <1>3, <2>1, Induction
<1>5. high[n] = rest[0]
  <2>1. n \in P
    BY <1>4
  <2> QED
    BY <2>1
<1> QED
  BY <1>1, <1>5

-----------------------------------------------------------------------------
(* What the encoders write *)

Byte == 0..255

\* The bytes of a magnitude, as LEB128 wants them: the last alone is below 128.
\* rest[i] is what is left of it behind the first i.
WrittenBy(e, value, isNeg, n, rest) ==
  /\ n \in Nat \ {0} /\ rest \in [0..n -> Nat]
  /\ e \in [1..n -> Byte]
  /\ rest[0] = value /\ rest[n] = 0
  /\ \A i \in 1..n : /\ rest[i - 1] = getLowerBytes(e[i], isNeg) + (128 * rest[i])
                     /\ e[i] < 128 <=> i = n

Written(e, value, isNeg) == \E n, rest : WrittenBy(e, value, isNeg, n, rest)

\* The low seven bits, with the high bit set or not.
LEMMA SevenBits ==
  ASSUME NEW value \in Nat, NEW isNeg \in BOOLEAN
  PROVE  LET i == getLowerBytes(value, isNeg)
         IN  /\ i \in 0..127 /\ i + 128 \in Byte
             /\ getLowerBytes(i, isNeg) = value % 128
             /\ getLowerBytes(i + 128, isNeg) = value % 128
             /\ value = (value % 128) + (128 * (value \div 128))
             /\ value % 128 \in 0..127 /\ value \div 128 \in Nat
<1>1. /\ value = (value % 128) + (128 * (value \div 128))
      /\ value % 128 \in 0..127 /\ value \div 128 \in Nat
  OBVIOUS
<1>2. /\ (value % 128) % 128 = value % 128 /\ (127 - (value % 128)) % 128 = 127 - (value % 128)
      /\ ((value % 128) + 128) % 128 = value % 128
      /\ ((127 - (value % 128)) + 128) % 128 = 127 - (value % 128)
  BY <1>1
<1> QED
  BY <1>1, <1>2 DEF getLowerBytes, Byte

\* One byte ends a magnitude below 128 ...
LEMMA WrittenLast ==
  ASSUME NEW value \in 0..127, NEW isNeg \in BOOLEAN
  PROVE  Written(<<getLowerBytes(value, isNeg)>>, value, isNeg)
<1> DEFINE i == getLowerBytes(value, isNeg)
           rest == [k \in 0..1 |-> IF k = 0 THEN value ELSE 0]
<1>1. i \in 0..127 /\ getLowerBytes(i, isNeg) = value
  <2>1. value \in Nat /\ value % 128 = value
    OBVIOUS
  <2> QED
    BY <2>1, SevenBits
<1> HIDE DEF i
<1>2. <<i>> \in [1..1 -> Byte] /\ <<i>>[1] = i
  BY <1>1 DEF Byte
<1>3. rest \in [0..1 -> Nat] /\ rest[0] = value /\ rest[1] = 0
  OBVIOUS
<1>4. \A k \in 1..1 : k = 1
  OBVIOUS
<1>5. \A k \in 1..1 : /\ rest[k - 1] = getLowerBytes(<<i>>[k], isNeg) + (128 * rest[k])
                      /\ <<i>>[k] < 128 <=> k = 1
  BY <1>1, <1>2, <1>3, <1>4
<1> HIDE DEF rest
<1>6. WrittenBy(<<i>>, value, isNeg, 1, rest)
  BY <1>2, <1>3, <1>5 DEF WrittenBy
<1> QED
  BY <1>6 DEF i, Written

\* ... and a byte with the high bit goes before the bytes of the rest.
LEMMA WrittenFirst ==
  ASSUME NEW value \in Nat, NEW isNeg \in BOOLEAN, NEW e, Written(e, value \div 128, isNeg)
  PROVE  Written(<<getLowerBytes(value, isNeg) + 128>> \o e, value, isNeg)
<1>1. PICK n, rest : WrittenBy(e, value \div 128, isNeg, n, rest)
  BY DEF Written
<1> DEFINE b == getLowerBytes(value, isNeg) + 128
           f == <<b>> \o e
           all == [k \in 0..(n + 1) |-> IF k = 0 THEN value ELSE rest[k - 1]]
<1>2. /\ b \in Byte /\ ~(b < 128) /\ getLowerBytes(b, isNeg) = value % 128
      /\ value = (value % 128) + (128 * (value \div 128))
  <2> DEFINE i == getLowerBytes(value, isNeg)
  <2>1. /\ i \in 0..127 /\ i + 128 \in Byte /\ getLowerBytes(i + 128, isNeg) = value % 128
        /\ value = (value % 128) + (128 * (value \div 128))
    BY SevenBits
  <2> HIDE DEF i
  <2>2. ~(i + 128 < 128)
    BY <2>1
  <2> QED
    BY <2>1, <2>2 DEF i
<1> HIDE DEF b
<1>3. e \in Seq(Byte) /\ Len(e) = n
  BY <1>1 DEF WrittenBy
<1>9. n \in Nat \ {0} /\ n + 1 \in Nat \ {0}
  BY <1>1 DEF WrittenBy
<1>4. /\ f \in [1..(n + 1) -> Byte] /\ f[1] = b
      /\ \A k \in 2..(n + 1) : f[k] = e[k - 1]
  <2>1. <<b>> \in Seq(Byte) /\ Len(<<b>>) = 1 /\ <<b>>[1] = b
    BY <1>2
  <2>2. /\ f \in Seq(Byte) /\ Len(f) = 1 + n
        /\ \A k \in 1..(1 + n) : f[k] = IF k <= 1 THEN <<b>>[k] ELSE e[k - 1]
    BY <2>1, <1>3, ConcatProperties
  <2> HIDE DEF f
  <2> QED
    BY <1>9, <2>1, <2>2
<1> HIDE DEF f
<1>5. /\ all \in [0..(n + 1) -> Nat] /\ all[0] = value
      /\ \A k \in 1..(n + 1) : all[k] = rest[k - 1]
  BY <1>1, <1>9 DEF WrittenBy
<1> HIDE DEF all
<1>6. ASSUME NEW k \in 1..(n + 1)
      PROVE  /\ all[k - 1] = getLowerBytes(f[k], isNeg) + (128 * all[k])
             /\ f[k] < 128 <=> k = n + 1
  <2>1. CASE k = 1
    <3>1. all[k - 1] = value /\ all[k] = value \div 128 /\ f[k] = b
      <4>1. rest[0] = value \div 128
        BY <1>1 DEF WrittenBy
      <4>2. 1 \in 1..(n + 1) /\ 1 - 1 = 0
        BY <1>9
      <4> QED
        BY <1>4, <1>5, <2>1, <4>1, <4>2
    <3>2. k # n + 1
      BY <1>9, <2>1
    <3>3. all[k - 1] = getLowerBytes(f[k], isNeg) + (128 * all[k])
      <4>1. value = getLowerBytes(b, isNeg) + (128 * (value \div 128))
        BY <1>2
      <4> QED
        BY <3>1, <4>1
    <3>4. ~(f[k] < 128)
      BY <1>2, <3>1
    <3> QED
      BY <3>2, <3>3, <3>4
  <2>2. CASE k # 1
    <3>1. k - 1 \in 1..n /\ k \in 2..(n + 1)
      BY <1>9, <2>2
    <3>2. k - 1 \in 1..(n + 1)
      BY <1>9, <3>1
    <3>3. f[k] = e[k - 1]
      BY <1>4, <3>1
    <3>4. all[k] = rest[k - 1] /\ all[k - 1] = rest[(k - 1) - 1]
      BY <1>5, <3>2
    <3>5. /\ rest[(k - 1) - 1] = getLowerBytes(e[k - 1], isNeg) + (128 * rest[k - 1])
          /\ e[k - 1] < 128 <=> k - 1 = n
      BY <1>1, <3>1 DEF WrittenBy
    <3>6. k - 1 = n <=> k = n + 1
      BY <1>9
    <3> QED
      BY <3>3, <3>4, <3>5, <3>6
  <2> QED
    BY <2>1, <2>2
<1>7. all[n + 1] = 0
  BY <1>1, <1>5, <1>9 DEF WrittenBy
<1>8. WrittenBy(f, value, isNeg, n + 1, all)
  BY <1>4, <1>5, <1>6, <1>7, <1>9 DEF WrittenBy
<1> QED
  BY <1>8 DEF f, b, Written

\* Both encoders are functions that satisfy their recursive equation: the last
\* byte is that of a value in B, the others go before the bytes of the rest.
Encodes(f, B, last, other) ==
  \A value \in Nat : f[value] = IF value \in B THEN <<last[value]>>
                                ELSE <<other[value]>> \o f[value \div 128]

\* There are such functions.
LEMMA BytesExist ==
  ASSUME NEW B \in SUBSET Nat, 0 \in B, NEW first \in [Nat -> Byte], NEW other \in [Nat -> Byte]
  PROVE  \E f \in [Nat -> Seq(Byte)] : Encodes(f, B, first, other)
<1> DEFINE last == [value \in Nat |-> <<first[value]>>]
           down == [value \in Nat |-> value \div 128]
           rule == [value \in Nat |-> [s \in Seq(Byte) |-> <<other[value]>> \o s]]
<1>1. last \in [Nat -> Seq(Byte)]
  OBVIOUS
<1>2. down \in [Nat -> Nat] /\ \A value \in Nat \ B : down[value] < value
  <2>1. \A value \in Nat : value \div 128 \in Nat /\ (value # 0 => value \div 128 < value)
    OBVIOUS
  <2> QED
    BY <2>1
<1>3. rule \in [Nat -> [Seq(Byte) -> Seq(Byte)]]
  <2>1. ASSUME NEW value \in Nat, NEW s \in Seq(Byte) PROVE <<other[value]>> \o s \in Seq(Byte)
    <3>1. <<other[value]>> \in Seq(Byte)
      OBVIOUS
    <3> QED
      BY <3>1, ConcatProperties
  <2> QED
    BY <2>1
<1> HIDE DEF last, down, rule
<1>4. Descends(Seq(Byte), Nat, B, last, down, rule)
  BY <1>1, <1>2, <1>3 DEF Descends
<1>5. PICK f \in [Nat -> Seq(Byte)] : Solves(f, Nat, B, last, down, rule)
  BY <1>4, Recursion
<1>6. \A value \in Nat : f[value] = IF value \in B THEN <<first[value]>>
                                   ELSE <<other[value]>> \o f[value \div 128]
  <2> SUFFICES ASSUME NEW value \in Nat
               PROVE  f[value] = IF value \in B THEN <<first[value]>>
                                 ELSE <<other[value]>> \o f[value \div 128]
    OBVIOUS
  <2>1. down[value] = value \div 128 /\ last[value] = <<first[value]>>
    BY DEF down, last
  <2>2. down[value] \in Nat
    BY <1>2
  <2>3. rule[value][f[down[value]]] = <<other[value]>> \o f[down[value]]
    BY <2>2 DEF rule
  <2>4. f[value] = IF value \in B THEN last[value] ELSE rule[value][f[down[value]]]
    BY <1>5 DEF Solves
  <2> QED
    BY <2>1, <2>3, <2>4
<1> QED
  BY <1>6 DEF Encodes

\* The recursive equation of lebEncode ...
LEMMA LebEquation ==
  lebEncode = [value \in Nat |-> IF value < 128 THEN <<value>>
                                  ELSE <<(value % 128) + 128>> \o lebEncode[value \div 128]]
<1> DEFINE Body(f) == [value \in Nat |-> IF value < 128 THEN <<value>>
                                           ELSE <<(value % 128) + 128>> \o f[value \div 128]]
<1>1. \E f : f = Body(f)
  <2> DEFINE B == {value \in Nat : value < 128}
             first == [value \in Nat |-> IF value < 128 THEN value ELSE 0]
             other == [value \in Nat |-> (value % 128) + 128]
  <2>1. B \in SUBSET Nat /\ 0 \in B /\ first \in [Nat -> Byte] /\ other \in [Nat -> Byte]
    BY DEF Byte
  <2>2. /\ \A value \in Nat : value \in B <=> value < 128
        /\ \A value \in Nat : value < 128 => first[value] = value
        /\ \A value \in Nat : other[value] = (value % 128) + 128
    OBVIOUS
  <2> HIDE DEF B, first, other
  <2>3. PICK f \in [Nat -> Seq(Byte)] : Encodes(f, B, first, other)
    BY <2>1, BytesExist
  <2>4. \A value \in Nat : f[value] = IF value < 128 THEN <<value>>
                                      ELSE <<(value % 128) + 128>> \o f[value \div 128]
    BY <2>2, <2>3 DEF Encodes
  <2> QED
    BY <2>4
<1>2. lebEncode = CHOOSE f : f = Body(f)
  BY DEF lebEncode
<1> HIDE DEF Body
<1>3. lebEncode = Body(lebEncode)
  BY <1>1, <1>2
<1> QED
  BY <1>3 DEF Body

\* ... and that of SlebBytes, in which the sign shows below 64.
LEMMA SlebEquation ==
  ASSUME NEW isNeg \in BOOLEAN
  PROVE  SlebBytes(isNeg) =
           [value \in Nat |->
              IF value < 64 THEN <<getLowerBytes(value, isNeg)>>
              ELSE <<getLowerBytes(value, isNeg) + 128>> \o SlebBytes(isNeg)[value \div 128]]
<1> DEFINE Low(value) == getLowerBytes(value, isNeg)
           Body(f) == [value \in Nat |->
                         IF value \div 128 = 0 /\ (Low(value) >= 64) = isNeg THEN <<Low(value)>>
                         ELSE <<Low(value) + 128>> \o f[value \div 128]]
           Mine(f) == [value \in Nat |-> IF value < 64 THEN <<Low(value)>>
                                           ELSE <<Low(value) + 128>> \o f[value \div 128]]
<1>1. \A value \in Nat : (value \div 128 = 0 /\ (Low(value) >= 64) = isNeg) <=> value < 64
  <2> SUFFICES ASSUME NEW value \in Nat
               PROVE  (value \div 128 = 0 /\ (Low(value) >= 64) = isNeg) <=> value < 64
    OBVIOUS
  <2>1. value \div 128 = 0 <=> value < 128
    OBVIOUS
  <2>2. value < 128 => value % 128 = value
    OBVIOUS
  <2>3. CASE isNeg = TRUE
    <3>1. value < 128 => (Low(value) >= 64 <=> value < 64)
      BY <2>2, <2>3 DEF getLowerBytes
    <3>2. ((Low(value) >= 64) = isNeg) <=> Low(value) >= 64
      BY <2>3
    <3> HIDE DEF Low
    <3> QED
      BY <2>1, <3>1, <3>2
  <2>4. CASE isNeg = FALSE
    <3>1. value < 128 => (Low(value) >= 64 <=> value >= 64)
      BY <2>2, <2>4 DEF getLowerBytes
    <3>2. ((Low(value) >= 64) = isNeg) <=> ~(Low(value) >= 64)
      BY <2>4
    <3> HIDE DEF Low
    <3> QED
      BY <2>1, <3>1, <3>2
  <2> QED
    BY <2>3, <2>4
<1>2. \A f : Body(f) = Mine(f)
  <2> HIDE DEF Low
  <2> QED
    BY <1>1
<1>3. \E f : f = Mine(f)
  <2> DEFINE B == {value \in Nat : value < 64}
             first == [value \in Nat |-> Low(value)]
             other == [value \in Nat |-> Low(value) + 128]
  <2>1. B \in SUBSET Nat /\ 0 \in B
    OBVIOUS
  <2>2. first \in [Nat -> Byte] /\ other \in [Nat -> Byte]
    <3>1. \A value \in Nat : Low(value) \in Byte /\ Low(value) + 128 \in Byte
      BY SevenBits DEF Byte
    <3> HIDE DEF Low
    <3> QED
      BY <3>1
  <2>3. PICK f \in [Nat -> Seq(Byte)] : Encodes(f, B, first, other)
    <3> HIDE DEF B, first, other
    <3> QED
      BY <2>1, <2>2, BytesExist
  <2>4. /\ \A value \in Nat : value \in B <=> value < 64
        /\ \A value \in Nat : first[value] = Low(value) /\ other[value] = Low(value) + 128
    OBVIOUS
  <2> HIDE DEF B, first, other, Low
  <2>5. \A value \in Nat : f[value] = IF value < 64 THEN <<Low(value)>>
                                      ELSE <<Low(value) + 128>> \o f[value \div 128]
    BY <2>3, <2>4 DEF Encodes
  <2> QED
    BY <2>5
<1>4. SlebBytes(isNeg) = CHOOSE f : f = Body(f)
  BY DEF SlebBytes
<1> HIDE DEF Body, Mine
<1>5. SlebBytes(isNeg) = Mine(SlebBytes(isNeg))
  <2>1. \E f : f = Body(f)
    BY <1>2, <1>3
  <2> QED
    BY <1>2, <1>4, <2>1
<1> QED
  BY <1>5 DEF Mine

\* lebEncode writes the digits of the number.
LEMMA LebWritten ==
  ASSUME NEW value \in Nat
  PROVE  Written(lebEncode[value], value, FALSE)
<1> DEFINE P == {v \in Nat : Written(lebEncode[v], v, FALSE)}
<1>1. ASSUME NEW v \in Nat, \A m \in Nat : m < v => m \in P
      PROVE  v \in P
  <2>1. CASE v < 128
    <3>1. v \in 0..127 /\ v % 128 = v
      BY <2>1
    <3>2. lebEncode[v] = <<getLowerBytes(v, FALSE)>>
      BY <2>1, <3>1, LebEquation DEF getLowerBytes
    <3> QED
      BY <3>1, <3>2, WrittenLast
  <2>2. CASE ~(v < 128)
    <3>1. v \div 128 \in Nat /\ v \div 128 < v
      BY <2>2
    <3>2. Written(lebEncode[v \div 128], v \div 128, FALSE)
      BY <1>1, <3>1
    <3>3. lebEncode[v] = <<getLowerBytes(v, FALSE) + 128>> \o lebEncode[v \div 128]
      BY <2>2, LebEquation DEF getLowerBytes
    <3> QED
      BY <3>2, <3>3, WrittenFirst
  <2> QED
    BY <2>1, <2>2
<1>2. Nat \subseteq P
  <2> HIDE DEF P
  <2> QED
    BY <1>1, Induction
<1> QED
  BY <1>2

\* The last byte of a signed number shows its sign.
ShowsSign(e, isNeg) == e[Len(e)] < 64 <=> ~isNeg

LEMMA SlebWritten ==
  ASSUME NEW isNeg \in BOOLEAN, NEW value \in Nat
  PROVE  /\ Written(SlebBytes(isNeg)[value], value, isNeg)
         /\ ShowsSign(SlebBytes(isNeg)[value], isNeg)
<1> DEFINE f == SlebBytes(isNeg)
           P == {v \in Nat : Written(f[v], v, isNeg) /\ ShowsSign(f[v], isNeg)}
<1>0. \A v \in Nat : f[v] = IF v < 64 THEN <<getLowerBytes(v, isNeg)>>
                           ELSE <<getLowerBytes(v, isNeg) + 128>> \o f[v \div 128]
  BY SlebEquation
<1> HIDE DEF f
<1>1. ASSUME NEW v \in Nat, \A m \in Nat : m < v => m \in P
      PROVE  v \in P
  <2>1. CASE v < 64
    <3>1. v \in 0..127 /\ v % 128 = v
      BY <2>1
    <3>2. f[v] = <<getLowerBytes(v, isNeg)>>
      BY <1>0, <2>1
    <3>3. getLowerBytes(v, isNeg) < 64 <=> ~isNeg
      BY <2>1, <3>1 DEF getLowerBytes
    <3>4. ShowsSign(f[v], isNeg)
      BY <3>2, <3>3 DEF ShowsSign
    <3> QED
      BY <3>1, <3>2, <3>4, WrittenLast
  <2>2. CASE ~(v < 64)
    <3>1. v \div 128 \in Nat /\ v \div 128 < v
      BY <2>2
    <3>2. Written(f[v \div 128], v \div 128, isNeg) /\ ShowsSign(f[v \div 128], isNeg)
      BY <1>1, <3>1
    <3>3. f[v] = <<getLowerBytes(v, isNeg) + 128>> \o f[v \div 128]
      BY <1>0, <2>2
    <3>4. Written(f[v], v, isNeg)
      BY <3>2, <3>3, WrittenFirst
    <3>5. ShowsSign(f[v], isNeg)
      <4> DEFINE e == f[v \div 128]
                 b == getLowerBytes(v, isNeg) + 128
      <4>1. PICK n, rest : WrittenBy(e, v \div 128, isNeg, n, rest)
        BY <3>2 DEF Written
      <4>2. b \in Byte
        BY SevenBits
      <4>3. e \in Seq(Byte) /\ Len(e) = n /\ n \in Nat \ {0} /\ <<b>> \in Seq(Byte)
        BY <4>1, <4>2 DEF WrittenBy
      <4> HIDE DEF b, e
      <4>4. Len(<<b>> \o e) = n + 1 /\ (<<b>> \o e)[n + 1] = e[n]
        BY <4>3
      <4> QED
        BY <3>2, <3>3, <4>3, <4>4 DEF ShowsSign, b, e
    <3> QED
      BY <3>4, <3>5
  <2> QED
    BY <2>1, <2>2
<1>2. Nat \subseteq P
  <2> HIDE DEF P
  <2> QED
    BY <1>1, Induction
<1> QED
  BY <1>2 DEF f

-----------------------------------------------------------------------------
(* What the decoders read *)

\* A number ends with the first byte below 128.
LEMMA EndFound ==
  ASSUME NEW bytes \in Seq(Byte), NEW n \in 1..Len(bytes), bytes[n] < 128,
         \A i \in 1..Len(bytes) : i < n => ~(bytes[i] < 128)
  PROVE  LebLength(bytes) = n
<1> DEFINE Ends == {i \in 1..Len(bytes) : bytes[i] < 128}
<1>1. n \in Ends /\ \A i \in Ends : i \in Int /\ n <= i
  OBVIOUS
<1>2. n \in Int
  OBVIOUS
<1>3. LebLength(bytes) = CHOOSE i \in Ends : \A j \in Ends : i <= j
  BY <1>1 DEF LebLength, SelectInSeq, Min
<1> HIDE DEF Ends
<1> DEFINE m == CHOOSE i \in Ends : \A j \in Ends : i <= j
<1>4. m \in Ends /\ \A j \in Ends : m <= j
  BY <1>1
<1> HIDE DEF m
<1>5. m = n
  BY <1>1, <1>2, <1>4
<1> QED
  BY <1>3, <1>5 DEF m

\* A number without such a byte never ends.
LEMMA NoEnd ==
  ASSUME NEW bytes \in Seq(Byte), \A i \in 1..Len(bytes) : ~(bytes[i] < 128)
  PROVE  LebLength(bytes) = 0
BY DEF LebLength, SelectInSeq

\* What the readers find of a magnitude written as e at the front of the pipe:
\* its length, its digits, and what comes behind it.
Reads(bytes, e, value, isNeg, tail) ==
  /\ e \in Seq(Byte) /\ Len(e) \in Nat \ {0}
  /\ LebLength(bytes) = Len(e) /\ bytes[Len(e)] = e[Len(e)]
  /\ LittleEndian([i \in 1..Len(e) |-> getLowerBytes(bytes[i], isNeg)], 128) = value
  /\ SubSeq(bytes, Len(e) + 1, Len(bytes)) = tail

\* A sequence split in two.
LEMMA Behind ==
  ASSUME NEW S, NEW e \in Seq(S), NEW tail \in Seq(S)
  PROVE  SubSeq(e \o tail, Len(e) + 1, Len(e \o tail)) = tail
<1> DEFINE bytes == e \o tail
           n == Len(e)
           s == SubSeq(bytes, n + 1, Len(bytes))
<1>1. /\ n \in Nat /\ Len(tail) \in Nat /\ bytes \in Seq(S) /\ Len(bytes) = n + Len(tail)
      /\ \A i \in 1..(n + Len(tail)) : bytes[i] = IF i <= n THEN e[i] ELSE tail[i - n]
  BY ConcatProperties
<1> HIDE DEF bytes, n
<1>2. \A i \in (n + 1)..Len(bytes) : bytes[i] \in S
  BY <1>1
<1>3. /\ s \in Seq(S)
      /\ Len(s) = IF n + 1 <= Len(bytes) THEN Len(bytes) - (n + 1) + 1 ELSE 0
      /\ \A i \in 1..(Len(bytes) - (n + 1) + 1) : s[i] = bytes[(n + 1) + i - 1]
  <2>1. n + 1 \in Int /\ Len(bytes) \in Int
    BY <1>1
  <2> QED
    BY <1>2, <2>1, SubSeqProperties
<1> HIDE DEF s
<1>4. Len(s) = Len(tail)
  BY <1>1, <1>3
<1>5. ASSUME NEW i \in 1..Len(tail) PROVE s[i] = tail[i]
  <2>1. /\ (n + 1) + i - 1 = n + i /\ n + i \in 1..(n + Len(tail)) /\ ~(n + i <= n)
        /\ (n + i) - n = i /\ Len(bytes) - (n + 1) + 1 = Len(tail)
    BY <1>1
  <2>2. s[i] = bytes[(n + 1) + i - 1]
    BY <1>3, <2>1
  <2>3. bytes[n + i] = tail[(n + i) - n]
    BY <1>1, <2>1
  <2> QED
    BY <2>1, <2>2, <2>3
<1> QED
  BY <1>3, <1>4, <1>5, SeqEqual DEF s, bytes, n

\* A written magnitude is read as it was written, whatever comes behind it.
LEMMA WrittenRead ==
  ASSUME NEW value \in Nat, NEW isNeg \in BOOLEAN, NEW e, Written(e, value, isNeg),
         NEW tail \in Seq(Byte)
  PROVE  Reads(e \o tail, e, value, isNeg, tail)
<1> DEFINE bytes == e \o tail
<1>1. PICK n, rest : WrittenBy(e, value, isNeg, n, rest)
  BY DEF Written
<1>2. e \in Seq(Byte) /\ Len(e) = n /\ n \in Nat \ {0} /\ e \in [1..n -> Byte]
  BY <1>1 DEF WrittenBy
<1>3. /\ bytes \in Seq(Byte) /\ Len(bytes) = n + Len(tail) /\ Len(tail) \in Nat
      /\ \A i \in 1..n : bytes[i] = e[i]
  BY <1>2
<1>6. SubSeq(bytes, n + 1, Len(bytes)) = tail
  BY <1>2, Behind
<1> HIDE DEF bytes
<1>4. LebLength(bytes) = n
  <2>1. n \in 1..Len(bytes) /\ bytes[n] < 128
    BY <1>1, <1>2, <1>3 DEF WrittenBy
  <2>2. \A i \in 1..Len(bytes) : i < n => ~(bytes[i] < 128)
    BY <1>1, <1>2, <1>3 DEF WrittenBy
  <2> QED
    BY <1>3, <2>1, <2>2, EndFound
<1>5. LittleEndian([i \in 1..n |-> getLowerBytes(bytes[i], isNeg)], 128) = value
  <2> DEFINE digits == [i \in 1..n |-> getLowerBytes(bytes[i], isNeg)]
  <2>1. digits \in [1..n -> Nat]
    <3>1. \A v \in Byte : getLowerBytes(v, isNeg) \in Nat
      <4>1. \A v \in Nat : getLowerBytes(v, isNeg) \in 0..127
        BY SevenBits
      <4>2. \A v \in Byte : v \in Nat
        BY DEF Byte
      <4>3. \A v \in 0..127 : v \in Nat
        OBVIOUS
      <4> QED
        BY <4>1, <4>2, <4>3
    <3>2. \A i \in 1..n : bytes[i] \in Byte
      BY <1>2, <1>3
    <3> QED
      BY <3>1, <3>2
  <2>2. /\ rest \in [0..n -> Nat] /\ rest[0] = value /\ rest[n] = 0
        /\ \A i \in 1..n : rest[i - 1] = digits[i] + (128 * rest[i])
    BY <1>1, <1>2, <1>3 DEF WrittenBy
  <2> HIDE DEF digits
  <2>3. LittleEndian(digits, 128) = rest[0]
    <3>1. n \in Nat /\ 128 \in Nat
      BY <1>2
    <3>2. Digits(digits, 128, n, rest)
      BY <2>1, <2>2 DEF Digits
    <3> QED
      BY <3>1, <3>2, LittleEndianOf
  <2> QED
    BY <2>2, <2>3 DEF digits
<1>7. bytes[n] = e[n]
  BY <1>2, <1>3
<1> QED
  BY <1>2, <1>4, <1>5, <1>6, <1>7 DEF bytes, Reads

\* lebDecode of a magnitude that was written with FALSE for its sign.
LEMMA LebDecodes ==
  ASSUME NEW p, NEW e, NEW value, NEW tail, Reads(p.bytes, e, value, FALSE, tail)
  PROVE  lebDecode(p) = Ok(value, [p EXCEPT !.bytes = tail])
<1> DEFINE n == LebLength(p.bytes)
<1>1. /\ n # 0
      /\ LittleEndian([i \in 1..n |-> getLowerBytes(p.bytes[i], FALSE)], 128) = value
      /\ SubSeq(p.bytes, n + 1, Len(p.bytes)) = tail
  BY DEF Reads
<1>2. LittleEndian([i \in 1..n |-> p.bytes[i] % 128], 128) = value
  <2>1. [i \in 1..n |-> p.bytes[i] % 128] = [i \in 1..n |-> getLowerBytes(p.bytes[i], FALSE)]
    BY DEF getLowerBytes
  <2> QED
    BY <1>1, <2>1
<1>4. [p EXCEPT !.bytes = SubSeq(p.bytes, n + 1, Len(p.bytes))] = [p EXCEPT !.bytes = tail]
  BY <1>1
<1> QED
  BY <1>1, <1>2, <1>4 DEF lebDecode

\* lebDecode gives back what lebEncode wrote and leaves what comes behind.
THEOREM LebRoundTrip ==
  ASSUME NEW value \in Nat, NEW tail \in Seq(Byte), NEW p, p.bytes = lebEncode[value] \o tail
  PROVE  lebDecode(p) = Ok(value, [p EXCEPT !.bytes = tail])
<1> DEFINE e == lebEncode[value]
<1>1. Reads(p.bytes, e, value, FALSE, tail)
  <2>1. Written(e, value, FALSE)
    BY LebWritten
  <2> HIDE DEF e
  <2>2. p.bytes = e \o tail
    BY DEF e
  <2>3. FALSE \in BOOLEAN
    OBVIOUS
  <2>4. Reads(e \o tail, e, value, FALSE, tail)
    BY <2>1, <2>3, WrittenRead
  <2> QED
    BY <2>2, <2>4
<1> HIDE DEF e
<1> QED
  BY <1>1, LebDecodes

\* slebDecode gives back what slebEncode wrote, sign and all.
THEOREM SlebRoundTrip ==
  ASSUME NEW value \in Int, NEW tail \in Seq(Byte), NEW p, p.bytes = slebEncode(value) \o tail
  PROVE  slebDecode(p) = Ok(value, [p EXCEPT !.bytes = tail])
<1> DEFINE isNeg == value < 0
           m == IF value < 0 THEN -value - 1 ELSE value
           e == SlebBytes(isNeg)[m]
<1>1. isNeg \in BOOLEAN /\ m \in Nat
  OBVIOUS
<1>2. p.bytes = e \o tail
  <2>1. CASE value < 0
    <3>1. SlebBytes(TRUE)[-value - 1] = SlebBytes(isNeg)[m]
      <4>1. isNeg = TRUE
        BY <2>1
      <4> QED
        BY <2>1, <4>1
    <3> QED
      BY <2>1, <3>1 DEF slebEncode
  <2>2. CASE ~(value < 0)
    <3>1. SlebBytes(FALSE)[value] = SlebBytes(isNeg)[m]
      <4>1. isNeg = FALSE
        BY <2>2
      <4> QED
        BY <2>2, <4>1
    <3> QED
      BY <2>2, <3>1 DEF slebEncode
  <2> QED
    BY <2>1, <2>2
<1>3. Written(e, m, isNeg) /\ ShowsSign(e, isNeg)
  <2> HIDE DEF m, isNeg
  <2> QED
    BY <1>1, SlebWritten
<1>4. isNeg <=> value < 0
  OBVIOUS
<1>5. value < 0 => -m - 1 = value
  OBVIOUS
<1>6. ~(value < 0) => m = value
  OBVIOUS
<1> HIDE DEF e, m, isNeg
<1>7. Reads(p.bytes, e, m, isNeg, tail)
  BY <1>1, <1>2, <1>3, WrittenRead
<1> DEFINE n == LebLength(p.bytes)
<1>8. n # 0 /\ (p.bytes[n] < 64 <=> ~(value < 0))
  BY <1>3, <1>4, <1>7 DEF Reads, ShowsSign
<1>9. CASE value < 0
  <2>1. isNeg = TRUE
    BY <1>1, <1>4, <1>9
  <2>2. [i \in 1..n |-> 127 - (p.bytes[i] % 128)] = [i \in 1..n |-> getLowerBytes(p.bytes[i], TRUE)]
    BY DEF getLowerBytes
  <2>3. LittleEndian([i \in 1..n |-> 127 - (p.bytes[i] % 128)], 128) = m
    BY <1>7, <2>1, <2>2 DEF Reads
  <2>4. [p EXCEPT !.bytes = SubSeq(p.bytes, n + 1, Len(p.bytes))] = [p EXCEPT !.bytes = tail]
    BY <1>7 DEF Reads
  <2> QED
    BY <1>5, <1>8, <1>9, <2>3, <2>4 DEF slebDecode
<1>10. CASE ~(value < 0)
  <2>1. isNeg = FALSE
    BY <1>1, <1>4, <1>10
  <2>2. lebDecode(p) = Ok(value, [p EXCEPT !.bytes = tail])
    BY <1>6, <1>7, <1>10, <2>1, LebDecodes
  <2> QED
    BY <1>8, <1>10, <2>2 DEF slebDecode
<1> QED
  BY <1>9, <1>10

-----------------------------------------------------------------------------
(* Fixed widths *)

\* A quotient and a remainder are the only ones.
LEMMA DivMod ==
  ASSUME NEW a \in Int, NEW b \in 0..255, NEW k \in Int, a = b + (256 * k)
  PROVE  a % 256 = b /\ a \div 256 = k
OBVIOUS

\* What division towards zero leaves.
LEMMA TowardsZero ==
  ASSUME NEW a \in Int
  PROVE  /\ Quotient(a, 256) \in Int /\ Remainder(a, 256) \in Int
         /\ a = Remainder(a, 256) + (256 * Quotient(a, 256))
         /\ Remainder(a, 256) % 256 = a % 256
         /\ a <= 0 => Remainder(a, 256) \in (-255)..0 /\ Quotient(a, 256) <= 0
         /\ a >= 0 => Remainder(a, 256) \in 0..255 /\ Quotient(a, 256) >= 0
<1> DEFINE k == Quotient(a, 256)
           r == Remainder(a, 256)
<1>1. k \in Int /\ (a >= 0 => k = a \div 256) /\ (a < 0 => k = -((-a) \div 256))
  BY DEF Quotient
<1>2. r = a - (256 * k)
  BY DEF Remainder
<1> HIDE DEF k, r
<1>3. CASE a >= 0
  <2>1. r \in 0..255 /\ k >= 0 /\ (a <= 0 => k <= 0 /\ r = 0)
    BY <1>1, <1>2, <1>3
  <2>2. r % 256 = a % 256
    BY <1>1, <1>2
  <2> QED
    BY <1>1, <1>2, <1>3, <2>1, <2>2 DEF k, r
<1>4. CASE a < 0
  <2>1. r \in (-255)..0 /\ k <= 0
    BY <1>1, <1>2, <1>4
  <2>2. r % 256 = a % 256
    BY <1>1, <1>2
  <2> QED
    BY <1>1, <1>2, <1>4, <2>1, <2>2 DEF k, r
<1> QED
  BY <1>3, <1>4

\* One turn of the loop: what is left of the number, less what was borrowed, is
\* divided by 256 and rounded down.
LEMMA Borrow ==
  ASSUME NEW a \in Int, a <= 0, NEW sub \in {0, 1}, NEW next \in {0, 1},
         next = IF sub = 0 /\ Remainder(a - sub, 256) # 0 THEN 1 ELSE sub
  PROVE  a - sub = ((a - sub) % 256) + (256 * (Quotient(a, 256) - next))
<1> DEFINE k == Quotient(a, 256)
           r == Remainder(a, 256)
<1>1. k \in Int /\ r \in (-255)..0 /\ a = r + (256 * k)
  BY TowardsZero
<1>2. sub = 0 => a - sub = a
  OBVIOUS
<1>3. sub = 0 => next = IF r # 0 THEN 1 ELSE 0
  BY <1>2
<1>4. sub = 1 => next = 1
  OBVIOUS
<1> HIDE DEF k, r
<1> DEFINE b == IF sub = 1 THEN r + 255 ELSE IF r # 0 THEN r + 256 ELSE 0
<1>5. b \in 0..255 /\ a - sub = b + (256 * (k - next))
  <2>1. CASE sub = 1
    BY <1>1, <1>4, <2>1
  <2>2. CASE sub = 0 /\ r # 0
    BY <1>1, <1>3, <2>2
  <2>3. CASE sub = 0 /\ r = 0
    BY <1>1, <1>3, <2>3
  <2> QED
    BY <2>1, <2>2, <2>3
<1> HIDE DEF b
<1>6. (a - sub) % 256 = b
  <2>1. a - sub \in Int /\ k - next \in Int
    BY <1>1
  <2>2. \A x, y \in Int : x = b + (256 * y) => x % 256 = b
    BY <1>5, DivMod
  <2> QED
    BY <1>5, <2>1, <2>2
<1> QED
  BY <1>5, <1>6 DEF k

\* The same of a number that is not negative, from which nothing is borrowed.
LEMMA NoBorrow ==
  ASSUME NEW a \in Int, a >= 0
  PROVE  a = (a % 256) + (256 * Quotient(a, 256))
BY DEF Quotient

\* The bytes are the digits of the number in base 256, and rest[i] is what is
\* left of it behind the first i.
Bytes256(e, value, n, rest) ==
  /\ e \in [1..n -> Byte] /\ rest \in [0..n -> Int] /\ rest[0] = value
  /\ \A i \in 1..n : rest[i - 1] = e[i] + (256 * rest[i])

\* writeIntLE writes the digits of the number, a negative one included.
LEMMA IntWritten ==
  ASSUME NEW value \in Int, NEW n \in Nat \ {0}
  PROVE  \E rest : Bytes256(writeIntLE(value, n), value, n, rest)
<1> DEFINE D == 0..(n - 1)
           State == [quot : Int, sub : {0, 1}, byte : Int]
           Start == [quot |-> value, sub |-> 0, byte |-> Remainder(value, 256)]
           Sub(last) == IF value < 0 /\ last.sub = 0 /\ last.byte # 0 THEN 1 ELSE last.sub
           Quot(last) == Quotient(last.quot, 256)
           Turn(last) == [quot |-> Quot(last), sub |-> Sub(last),
                          byte |-> Remainder(Quot(last) - Sub(last), 256)]
           Body(h) == [i \in D |-> IF i = 0 THEN Start ELSE Turn(h[i - 1])]
           step == CHOOSE h : h = Body(h)
<1>1. writeIntLE(value, n) = [i \in 1..n |-> step[i - 1].byte % 256]
  BY DEF writeIntLE
<1>2. Start \in State /\ \A last \in State : Turn(last) \in State
  <2>1. Start \in State
    BY TowardsZero
  <2>2. ASSUME NEW last \in State PROVE Turn(last) \in State
    <3>1. last.quot \in Int /\ last.sub \in {0, 1}
      OBVIOUS
    <3>2. Quot(last) \in Int /\ Sub(last) \in {0, 1}
      BY <3>1, TowardsZero
    <3>3. Remainder(Quot(last) - Sub(last), 256) \in Int
      <4> HIDE DEF Quot, Sub
      <4>1. Quot(last) - Sub(last) \in Int
        BY <3>2
      <4> QED
        BY <4>1, TowardsZero
    <3> HIDE DEF Quot, Sub
    <3> QED
      BY <3>2, <3>3
  <2> QED
    BY <2>1, <2>2
<1>3. \E h : h \in [D -> State] /\ h = Body(h)
  <2> DEFINE first == [i \in D |-> Start]
             down == [i \in D |-> IF i = 0 THEN 0 ELSE i - 1]
             rule == [i \in D |-> [last \in State |-> Turn(last)]]
  <2>1. first \in [D -> State] /\ down \in [D -> D] /\ \A i \in D \ {0} : down[i] < i
    <3>1. Start \in State
      BY <1>2
    <3> HIDE DEF Start, State
    <3> QED
      BY <3>1
  <2>2. rule \in [D -> [State -> State]]
    <3> HIDE DEF State, Turn
    <3> QED
      BY <1>2
  <2>3. D \subseteq Nat /\ {0} \subseteq D
    OBVIOUS
  <2>6. \A i \in D : i # 0 => down[i] = i - 1 /\ i - 1 \in D
    OBVIOUS
  <2> HIDE DEF first, down, rule, D, State
  <2>4. Descends(State, D, {0}, first, down, rule)
    BY <2>1, <2>2, <2>3 DEF Descends
  <2>5. PICK h \in [D -> State] : Solves(h, D, {0}, first, down, rule)
    BY <2>4, Recursion
  <2>7. \A i \in D : h[i] = IF i = 0 THEN Start ELSE Turn(h[i - 1])
    <3> SUFFICES ASSUME NEW i \in D PROVE h[i] = IF i = 0 THEN Start ELSE Turn(h[i - 1])
      OBVIOUS
    <3> HIDE DEF Start, Turn
    <3>1. CASE i = 0
      BY <2>5, <3>1 DEF Solves, first
    <3>2. CASE i # 0
      <4>1. down[i] = i - 1 /\ h[i - 1] \in State
        BY <2>6, <3>2
      <4>2. rule[i][h[i - 1]] = Turn(h[i - 1])
        BY <4>1 DEF rule
      <4> QED
        BY <2>5, <3>2, <4>1, <4>2 DEF Solves
    <3> QED
      BY <3>1, <3>2
  <2> HIDE DEF Start, Turn
  <2> QED
    BY <2>7
<1>4. step = Body(step)
  <2> HIDE DEF Body
  <2> QED
    BY <1>3
<1> HIDE DEF step
<1>5. /\ 0 \in D /\ step[0] = Start
      /\ \A i \in D : i # 0 => i - 1 \in D /\ step[i] = Turn(step[i - 1])
  <2> HIDE DEF Start, Turn
  <2> QED
    BY <1>4
\* The quotient keeps its sign, and only a negative number borrows.
<1> DEFINE Fine(s) == /\ s \in State /\ s.byte = Remainder(s.quot - s.sub, 256)
                      /\ value < 0 => s.quot <= 0
                      /\ value >= 0 => s.quot >= 0 /\ s.sub = 0
           P == {i \in D : Fine(step[i])}
<1>6. Fine(Start)
  <2>1. Start.quot - Start.sub = value
    OBVIOUS
  <2> QED
    BY <1>2, <2>1
<1>7. ASSUME NEW s, Fine(s) PROVE Fine(Turn(s))
  <2>1. Turn(s) \in State
    BY <1>2, <1>7
  <2>2. /\ Turn(s).quot = Quotient(s.quot, 256) /\ Turn(s).sub = Sub(s)
        /\ Turn(s).byte = Remainder(Turn(s).quot - Turn(s).sub, 256)
    OBVIOUS
  <2>3. s.quot \in Int
    BY <1>7
  <2>4. value < 0 => Turn(s).quot <= 0
    BY <1>7, <2>2, <2>3, TowardsZero
  <2>5. value >= 0 => Turn(s).quot >= 0
    BY <1>7, <2>2, <2>3, TowardsZero
  <2>6. value >= 0 => Turn(s).sub = 0
    BY <1>7, <2>2
  <2> HIDE DEF State, Turn
  <2> QED
    BY <2>1, <2>2, <2>4, <2>5, <2>6
<1>8. \A i \in D : Fine(step[i])
  <2>1. ASSUME NEW i \in D, \A m \in D : m < i => m \in P
        PROVE  i \in P
    <3> HIDE DEF Fine, Start, Turn
    <3>1. CASE i = 0
      BY <1>5, <1>6, <3>1
    <3>2. CASE i # 0
      <4>1. i - 1 \in P
        BY <2>1, <3>2, <1>5
      <4> QED
        BY <4>1, <1>5, <1>7, <3>2
    <3> QED
      BY <3>1, <3>2
  <2>2. D \in SUBSET Nat
    OBVIOUS
  <2>3. D \subseteq P
    <3> HIDE DEF P, D
    <3> QED
      BY <2>1, <2>2, Induction
  <2> QED
    BY <2>3
<1> DEFINE Left(s) == s.quot - s.sub
           e == writeIntLE(value, n)
           rest == [i \in 0..n |-> IF i < n THEN Left(step[i]) ELSE Left(step[n - 1]) \div 256]
<1>9. ASSUME NEW s, Fine(s)
      PROVE  /\ Left(s) \in Int /\ s.byte % 256 = Left(s) % 256
             /\ Left(s) = (Left(s) % 256) + (256 * Left(Turn(s)))
  <2>1. s.quot \in Int /\ s.sub \in {0, 1} /\ s.byte = Remainder(s.quot - s.sub, 256)
    BY <1>9
  <2>2. Left(s) \in Int /\ s.byte % 256 = Left(s) % 256
    <3>1. \A x \in Int : Remainder(x, 256) % 256 = x % 256
      BY TowardsZero
    <3>2. s.quot - s.sub \in Int
      BY <2>1
    <3> QED
      BY <2>1, <3>1, <3>2
  <2>3. Left(Turn(s)) = Quotient(s.quot, 256) - Sub(s)
    OBVIOUS
  <2>4. CASE value < 0
    <3>1. s.quot <= 0 /\ Sub(s) = IF s.sub = 0 /\ Remainder(s.quot - s.sub, 256) # 0 THEN 1 ELSE s.sub
      BY <1>9, <2>1, <2>4
    <3>2. Sub(s) \in {0, 1}
      BY <2>1
    <3> HIDE DEF Sub, Turn
    <3>3. s.quot - s.sub = ((s.quot - s.sub) % 256) + (256 * (Quotient(s.quot, 256) - Sub(s)))
      BY <2>1, <3>1, <3>2, Borrow
    <3> QED
      BY <2>2, <2>3, <3>3
  <2>5. CASE ~(value < 0)
    <3>1. s.quot >= 0 /\ s.sub = 0 /\ Sub(s) = 0
      BY <1>9, <2>1, <2>5
    <3> HIDE DEF Sub, Turn
    <3>4. Quotient(s.quot, 256) \in Int
      BY <2>1, TowardsZero
    <3>2. Left(s) = s.quot /\ Left(Turn(s)) = Quotient(s.quot, 256)
      BY <2>1, <2>3, <3>1, <3>4
    <3>3. s.quot = (s.quot % 256) + (256 * Quotient(s.quot, 256))
      BY <2>1, <3>1, NoBorrow
    <3> QED
      BY <2>2, <3>2, <3>3
  <2> QED
    BY <2>2, <2>4, <2>5
<1>10. \A i \in D : /\ Left(step[i]) \in Int /\ step[i].byte % 256 = Left(step[i]) % 256
                    /\ Left(step[i]) = (Left(step[i]) % 256) + (256 * Left(Turn(step[i])))
  <2> HIDE DEF Left, Fine, Turn
  <2> QED
    BY <1>8, <1>9
<1>11. Left(Start) = value
  OBVIOUS
<1> HIDE DEF Fine, Turn, Start, State, Left
<1>12. e \in [1..n -> Byte] /\ \A i \in 1..n : e[i] = Left(step[i - 1]) % 256
  <2>1. \A i \in 1..n : i - 1 \in D
    OBVIOUS
  <2>2. \A i \in 1..n : step[i - 1].byte % 256 \in Byte
    <3>1. \A x \in Int : x % 256 \in Byte
      BY DEF Byte
    <3> QED
      BY <1>10, <2>1, <3>1
  <2> QED
    BY <1>1, <1>10, <2>1, <2>2
<1>13. rest \in [0..n -> Int] /\ rest[0] = value
  <2>1. \A i \in 0..n : i < n => i \in D
    OBVIOUS
  <2>2. n - 1 \in D
    OBVIOUS
  <2>3. Left(step[n - 1]) \div 256 \in Int
    BY <1>10, <2>2
  <2>4. \A i \in 0..n : rest[i] \in Int
    BY <1>10, <2>1, <2>3
  <2>5. rest[0] = Left(step[0])
    OBVIOUS
  <2> QED
    BY <1>5, <1>11, <2>4, <2>5
<1>14. ASSUME NEW i \in 1..n PROVE rest[i - 1] = e[i] + (256 * rest[i])
  <2>1. i - 1 \in D /\ rest[i - 1] = Left(step[i - 1]) /\ e[i] = Left(step[i - 1]) % 256
    BY <1>12
  <2>2. CASE i < n
    <3>1. i \in D /\ i # 0 /\ rest[i] = Left(step[i])
      BY <2>2
    <3>2. step[i] = Turn(step[i - 1])
      BY <1>5, <3>1
    <3> QED
      BY <1>10, <2>1, <3>1, <3>2
  <2>3. CASE i = n
    <3>1. rest[i] = Left(step[i - 1]) \div 256
      BY <2>3
    <3>2. Left(step[i - 1]) \in Int
      BY <1>10, <2>1
    <3> QED
      BY <2>1, <3>1, <3>2
  <2> QED
    BY <2>2, <2>3
<1> HIDE DEF e, rest
<1>15. Bytes256(e, value, n, rest)
  BY <1>12, <1>13, <1>14 DEF Bytes256
<1> QED
  BY <1>15 DEF e

\* The recursive equation of Power256.
LEMMA PowerEquation ==
  /\ Power256 \in [Nat -> Nat \ {0}] /\ Power256[0] = 1
  /\ \A n \in Nat : Power256[n + 1] = 256 * Power256[n]
<1> DEFINE Positive == Nat \ {0}
           Body(f) == [n \in Nat |-> IF n = 0 THEN 1 ELSE 256 * f[n - 1]]
<1>1. \E f : f \in [Nat -> Positive] /\ f = Body(f)
  <2> DEFINE first == [n \in Nat |-> 1]
             down == [n \in Nat |-> IF n = 0 THEN 0 ELSE n - 1]
             rule == [n \in Nat |-> [v \in Positive |-> 256 * v]]
  <2>1. /\ first \in [Nat -> Positive] /\ down \in [Nat -> Nat]
        /\ \A n \in Nat \ {0} : down[n] < n
        /\ Nat \subseteq Nat /\ {0} \subseteq Nat
    OBVIOUS
  <2>2. rule \in [Nat -> [Positive -> Positive]]
    <3>1. \A v \in Positive : 256 * v \in Positive
      OBVIOUS
    <3> HIDE DEF Positive
    <3> QED
      BY <3>1
  <2>3. \A n \in Nat : n # 0 => down[n] = n - 1 /\ n - 1 \in Nat
    OBVIOUS
  <2>4. \A n \in Nat : first[n] = 1 /\ \A v \in Positive : rule[n][v] = 256 * v
    OBVIOUS
  <2> HIDE DEF first, down, rule, Positive
  <2>5. Descends(Positive, Nat, {0}, first, down, rule)
    BY <2>1, <2>2 DEF Descends
  <2>6. PICK f \in [Nat -> Positive] : Solves(f, Nat, {0}, first, down, rule)
    BY <2>5, Recursion
  <2>7. \A n \in Nat : f[n] = IF n = 0 THEN 1 ELSE 256 * f[n - 1]
    BY <2>3, <2>4, <2>6 DEF Solves
  <2> QED
    BY <2>7
<1>2. Power256 = CHOOSE f : f = Body(f)
  BY DEF Power256
<1>3. Power256 = Body(Power256)
  <2> HIDE DEF Body
  <2> QED
    BY <1>1, <1>2
<1>4. Power256 \in [Nat -> Positive]
  <2> DEFINE P == {n \in Nat : Power256[n] \in Positive}
  <2>1. ASSUME NEW n \in Nat, \A m \in Nat : m < n => m \in P PROVE n \in P
    <3>1. CASE n = 0
      BY <1>3, <3>1
    <3>2. CASE n # 0
      <4>1. n - 1 \in P
        BY <2>1, <3>2
      <4>2. Power256[n] = 256 * Power256[n - 1]
        BY <1>3, <3>2
      <4> QED
        BY <4>1, <4>2
    <3> QED
      BY <3>1, <3>2
  <2>2. Nat \subseteq P
    <3> HIDE DEF P
    <3> QED
      BY <2>1, Induction
  <2>3. Power256 = [n \in Nat |-> Power256[n]]
    BY <1>3
  <2>4. \A n \in Nat : Power256[n] \in Positive
    BY <2>2
  <2> HIDE DEF Positive, P
  <2> QED
    BY <2>3, <2>4
<1>5. \A n \in Nat : Power256[n] = IF n = 0 THEN 1 ELSE 256 * Power256[n - 1]
  BY <1>3
<1>6. \A n \in Nat : n + 1 \in Nat /\ n + 1 # 0 /\ (n + 1) - 1 = n
  OBVIOUS
<1> QED
  BY <1>4, <1>5, <1>6

\* Dividing by 256 keeps a number between 0 and a power, or below 0 and at most
\* a power away.
LEMMA Shrinks ==
  ASSUME NEW a \in Int, NEW b \in Byte, NEW k \in Int, NEW power \in Nat, a = b + (256 * k)
  PROVE  /\ 0 <= a /\ a < 256 * power => 0 <= k /\ k < power
         /\ -(256 * power) <= a /\ a < 0 => -power <= k /\ k < 0
BY DEF Byte

\* The number that the n bytes written for value make up: value itself, or its
\* complement to 256 ^ n.
LEMMA IntUnsigned ==
  ASSUME NEW n \in Nat \ {0}, NEW value \in Int,
         -Power256[n] <= value, value < Power256[n]
  PROVE  /\ writeIntLE(value, n) \in [1..n -> Byte]
         /\ LittleEndian(writeIntLE(value, n), 256)
              = IF value < 0 THEN value + Power256[n] ELSE value
<1> DEFINE e == writeIntLE(value, n)
<1>1. PICK rest : Bytes256(e, value, n, rest)
  BY IntWritten
<1> HIDE DEF e
<1>2. /\ e \in [1..n -> Byte] /\ rest \in [0..n -> Int] /\ rest[0] = value
      /\ \A i \in 1..n : rest[i - 1] = e[i] + (256 * rest[i])
  BY <1>1 DEF Bytes256
<1> DEFINE power == [i \in 0..n |-> Power256[n - i]]
<1>3. /\ power \in [0..n -> Nat] /\ power[0] = Power256[n] /\ power[n] = 1
      /\ \A i \in 1..n : power[i - 1] = 256 * power[i]
  <2>1. \A i \in 0..n : n - i \in Nat /\ Power256[n - i] \in Nat
    BY PowerEquation
  <2>2. \A i \in 1..n : n - i \in Nat /\ n - (i - 1) = (n - i) + 1 /\ i - 1 \in 0..n /\ i \in 0..n
    OBVIOUS
  <2>3. n - 0 = n /\ n - n = 0 /\ 0 \in 0..n /\ n \in 0..n
    OBVIOUS
  <2>4. \A i \in 1..n : Power256[(n - i) + 1] = 256 * Power256[n - i]
    BY <2>2, PowerEquation
  <2>5. power \in [0..n -> Nat]
    BY <2>1
  <2>6. \A i \in 0..n : power[i] = Power256[n - i]
    OBVIOUS
  <2> HIDE DEF power
  <2>7. power[0] = Power256[n] /\ power[n] = 1
    BY <2>3, <2>6, PowerEquation
  <2>8. ASSUME NEW i \in 1..n PROVE power[i - 1] = 256 * power[i]
    <3>1. power[i - 1] = Power256[n - (i - 1)] /\ power[i] = Power256[n - i]
      BY <2>2, <2>6
    <3>2. Power256[n - (i - 1)] = 256 * Power256[n - i]
      BY <2>2, <2>4
    <3> QED
      BY <3>1, <3>2
  <2> QED
    BY <2>5, <2>7, <2>8
<1> HIDE DEF power
<1> DEFINE P == {i \in 0..n : IF value < 0 THEN -power[i] <= rest[i] /\ rest[i] < 0
                               ELSE 0 <= rest[i] /\ rest[i] < power[i]}
<1>4. 0..n \subseteq P
  <2>1. ASSUME NEW i \in 0..n, \A m \in 0..n : m < i => m \in P
        PROVE  i \in P
    <3>1. CASE i = 0
      <4>1. rest[i] = value /\ power[i] = Power256[n] /\ Power256[n] \in Nat
        BY <1>2, <1>3, <3>1, PowerEquation
      <4>2. value < 0 => -power[i] <= rest[i] /\ rest[i] < 0
        BY <4>1
      <4>3. ~(value < 0) => 0 <= rest[i] /\ rest[i] < power[i]
        BY <4>1
      <4> QED
        BY <4>2, <4>3
    <3>2. CASE i # 0
      <4>1. i - 1 \in P /\ i \in 1..n /\ i - 1 \in 0..n
        BY <2>1, <3>2
      <4>2. /\ rest[i - 1] = e[i] + (256 * rest[i]) /\ power[i - 1] = 256 * power[i]
            /\ e[i] \in Byte /\ rest[i] \in Int /\ rest[i - 1] \in Int /\ power[i] \in Nat
        BY <1>2, <1>3, <4>1
      <4>3. /\ 0 <= rest[i - 1] /\ rest[i - 1] < 256 * power[i] => 0 <= rest[i] /\ rest[i] < power[i]
            /\ -(256 * power[i]) <= rest[i - 1] /\ rest[i - 1] < 0 => -power[i] <= rest[i] /\ rest[i] < 0
        BY <4>2, Shrinks
      <4> QED
        BY <4>1, <4>2, <4>3
    <3> QED
      BY <3>1, <3>2
  <2>2. 0..n \in SUBSET Nat
    OBVIOUS
  <2> HIDE DEF P
  <2> QED
    BY <2>1, <2>2, Induction
<1>5. /\ value < 0 => \A i \in 0..n : rest[i] + power[i] \in Nat
      /\ ~(value < 0) => \A i \in 0..n : rest[i] \in Nat
  <2> SUFFICES ASSUME NEW i \in 0..n
               PROVE  /\ value < 0 => rest[i] + power[i] \in Nat
                      /\ ~(value < 0) => rest[i] \in Nat
    OBVIOUS
  <2>1. i \in P /\ rest[i] \in Int /\ power[i] \in Nat
    BY <1>2, <1>3, <1>4
  <2> QED
    BY <2>1
<1>6. /\ value < 0 => rest[n] + power[n] = 0
      /\ ~(value < 0) => rest[n] = 0
  <2>1. n \in P /\ rest[n] \in Int /\ power[n] = 1
    BY <1>2, <1>3, <1>4
  <2> QED
    BY <2>1
<1> DEFINE left == [i \in 0..n |-> IF value < 0 THEN rest[i] + power[i] ELSE rest[i]]
<1>7. Digits(e, 256, n, left)
  <2>1. e \in [1..n -> Nat]
    <3>1. \A b \in Byte : b \in Nat
      BY DEF Byte
    <3> QED
      BY <1>2, <3>1
  <2>2. left \in [0..n -> Nat] /\ left[n] = 0
    BY <1>5, <1>6
  <2>3. ASSUME NEW i \in 1..n PROVE left[i - 1] = e[i] + (256 * left[i])
    <3>1. i - 1 \in 0..n /\ i \in 0..n
      OBVIOUS
    <3>2. rest[i - 1] = e[i] + (256 * rest[i]) /\ power[i - 1] = 256 * power[i]
      BY <1>2, <1>3
    <3>3. e[i] \in Nat /\ rest[i] \in Int /\ power[i] \in Nat
      BY <1>2, <1>3, <2>1, <3>1
    <3>4. CASE value < 0
      <4>1. left[i - 1] = rest[i - 1] + power[i - 1] /\ left[i] = rest[i] + power[i]
        BY <3>1, <3>4
      <4> QED
        BY <3>2, <3>3, <4>1
    <3>5. CASE ~(value < 0)
      <4>1. left[i - 1] = rest[i - 1] /\ left[i] = rest[i]
        BY <3>1, <3>5
      <4> QED
        BY <3>2, <4>1
    <3> QED
      BY <3>4, <3>5
  <2> HIDE DEF left
  <2> QED
    BY <2>1, <2>2, <2>3 DEF Digits
<1>8. LittleEndian(e, 256) = left[0]
  <2> HIDE DEF left
  <2>1. n \in Nat /\ 256 \in Nat
    OBVIOUS
  <2> QED
    BY <1>7, <2>1, LittleEndianOf
<1>9. left[0] = IF value < 0 THEN value + Power256[n] ELSE value
  <2>1. left[0] = IF value < 0 THEN rest[0] + power[0] ELSE rest[0]
    OBVIOUS
  <2> HIDE DEF left
  <2> QED
    BY <1>2, <1>3, <2>1
<1> QED
  BY <1>2, <1>8, <1>9 DEF e

\* The reader takes the n bytes at the front of the pipe.
InFront(p, n, e, tail) == e \in [1..n -> Byte] /\ tail \in Seq(Byte) /\ p.bytes = e \o tail

LEMMA FrontRead ==
  ASSUME NEW n \in Nat \ {0}, NEW e, NEW tail, NEW p, InFront(p, n, e, tail)
  PROVE  readUIntLE(p, n) = Ok(LittleEndian(e, 256), [p EXCEPT !.bytes = tail])
<1> SUFFICES ASSUME e \in [1..n -> Byte], tail \in Seq(Byte), p.bytes = e \o tail
             PROVE  readUIntLE(p, n) = Ok(LittleEndian(e, 256), [p EXCEPT !.bytes = tail])
  BY DEF InFront
<1>1. e \in Seq(Byte) /\ Len(e) = n
  OBVIOUS
<1>2. Len(p.bytes) = n + Len(tail) /\ Len(tail) \in Nat
  <2>1. \A f, g \in Seq(Byte) : Len(f \o g) = Len(f) + Len(g) /\ Len(g) \in Nat
    BY ConcatProperties
  <2> QED
    BY <1>1, <2>1
<1>3. ~(Len(p.bytes) < n) /\ ~(n > Len(p.bytes))
  BY <1>2
<1>4. SubSeq(p.bytes, 1, n) = e
  <2> DEFINE s == SubSeq(p.bytes, 1, n)
  <2>0. \A i \in 1..n : p.bytes[i] = e[i] /\ p.bytes[i] \in Byte
    BY <1>1
  <2>1. s \in Seq(Byte) /\ Len(s) = n /\ \A i \in 1..n : s[i] = e[i]
    <3>1. /\ s \in Seq(Byte)
          /\ Len(s) = IF 1 <= n THEN n - 1 + 1 ELSE 0
          /\ \A i \in 1..(n - 1 + 1) : s[i] = p.bytes[1 + i - 1]
      <4>1. 1 \in Int /\ n \in Int /\ p.bytes \in Seq(Byte)
        BY <1>1
      <4> HIDE DEF s
      <4> QED
        BY <2>0, <4>1, SubSeqProperties DEF s
    <3> HIDE DEF s
    <3> QED
      BY <2>0, <3>1
  <2> HIDE DEF s
  <2>2. s = e
    BY <1>1, <2>1, SeqEqual
  <2> QED
    BY <2>2 DEF s
<1>5. SubSeq(p.bytes, n + 1, Len(p.bytes)) = tail
  BY <1>1, Behind
<1>6. read(p, n) = Ok(e, [p EXCEPT !.bytes = tail])
  <2>1. [p EXCEPT !.bytes = SubSeq(p.bytes, n + 1, Len(p.bytes))] = [p EXCEPT !.bytes = tail]
    BY <1>5
  <2> QED
    BY <1>3, <1>4, <2>1 DEF read
<1> DEFINE q == [p EXCEPT !.bytes = tail]
<1>7. Ok(e, q).ok /\ Ok(e, q).v = e /\ Ok(e, q).p = q
  BY DEF Ok
<1> HIDE DEF q
<1> QED
  BY <1>3, <1>6, <1>7 DEF readUIntLE, Then, q

\* readUIntLE gives back what writeIntLE wrote of a number that fits its width.
THEOREM NatRoundTrip ==
  ASSUME NEW n \in Nat \ {0}, NEW value \in Nat, value < Power256[n],
         NEW tail \in Seq(Byte), NEW p, p.bytes = writeIntLE(value, n) \o tail
  PROVE  readUIntLE(p, n) = Ok(value, [p EXCEPT !.bytes = tail])
<1>1. Power256[n] \in Nat
  BY PowerEquation
<1>2. value \in Int /\ -Power256[n] <= value /\ ~(value < 0)
  BY <1>1
<1>3. InFront(p, n, writeIntLE(value, n), tail) /\ LittleEndian(writeIntLE(value, n), 256) = value
  BY <1>2, IntUnsigned DEF InFront
<1> QED
  BY <1>3, FrontRead

\* readIntLE gives back what writeIntLE wrote of a signed number that fits.
THEOREM IntRoundTrip ==
  ASSUME NEW n \in Nat \ {0},
         NEW value \in (-(128 * Power256[n - 1]))..((128 * Power256[n - 1]) - 1),
         NEW tail \in Seq(Byte), NEW p, p.bytes = writeIntLE(value, n) \o tail
  PROVE  readIntLE(p, n) = Ok(value, [p EXCEPT !.bytes = tail])
<1> DEFINE mul == 128 * Power256[n - 1]
           val == IF value < 0 THEN value + Power256[n] ELSE value
           q == [p EXCEPT !.bytes = tail]
<1>1. /\ mul \in Nat /\ Power256[n] = 2 * mul
  <2>1. n - 1 \in Nat /\ (n - 1) + 1 = n
    OBVIOUS
  <2>2. Power256[n - 1] \in Nat /\ Power256[n] = 256 * Power256[n - 1]
    BY <2>1, PowerEquation
  <2> QED
    BY <2>2
<1>2. value \in Int /\ -mul <= value /\ value < mul
  BY <1>1
<1> HIDE DEF mul
<1>3. -Power256[n] <= value /\ value < Power256[n]
  BY <1>1, <1>2
<1> DEFINE e == writeIntLE(value, n)
<1>4. e \in [1..n -> Byte] /\ LittleEndian(e, 256) = val
  BY <1>2, <1>3, IntUnsigned
<1>9. InFront(p, n, e, tail)
  BY <1>4 DEF InFront
<1> HIDE DEF e
<1>5. value = IF val >= mul THEN val - (2 * mul) ELSE val
  BY <1>1, <1>2
<1> HIDE DEF val, q
<1>6. readUIntLE(p, n) = Ok(val, q)
  BY <1>4, <1>9, FrontRead DEF q
<1>7. Ok(val, q).ok /\ Ok(val, q).v = val /\ Ok(val, q).p = q
  BY DEF Ok
<1>8. readIntLE(p, n) = Ok(IF val >= mul THEN val - (2 * mul) ELSE val, q)
  BY <1>6, <1>7 DEF readIntLE, Then, mul
<1> QED
  BY <1>5, <1>8 DEF q

-----------------------------------------------------------------------------
(* Truncation *)

\* The bytes of a magnitude that lost its end have no end.
LEMMA CutShort ==
  ASSUME NEW value \in Nat, NEW isNeg \in BOOLEAN, NEW e, Written(e, value, isNeg),
         NEW k \in 0..(Len(e) - 1)
  PROVE  LebLength(SubSeq(e, 1, k)) = 0
<1>1. PICK n, rest : WrittenBy(e, value, isNeg, n, rest)
  BY DEF Written
<1>2. e \in Seq(Byte) /\ Len(e) = n /\ n \in Nat \ {0} /\ k \in 0..(n - 1)
  BY <1>1 DEF WrittenBy
<1>3. \A i \in 1..k : i \in 1..n /\ i # n
  BY <1>2
<1>4. \A i \in 1..k : e[i] \in Byte /\ ~(e[i] < 128)
  BY <1>1, <1>2, <1>3 DEF WrittenBy
<1> DEFINE s == SubSeq(e, 1, k)
<1>5. s \in Seq(Byte) /\ Len(s) = k /\ \A i \in 1..k : s[i] = e[i]
  <2>1. /\ s \in Seq(Byte)
        /\ Len(s) = IF 1 <= k THEN k - 1 + 1 ELSE 0
        /\ \A i \in 1..(k - 1 + 1) : s[i] = e[1 + i - 1]
    <3>1. 1 \in Int /\ k \in Int
      OBVIOUS
    <3> HIDE DEF s
    <3> QED
      BY <1>2, <1>4, <3>1, SubSeqProperties DEF s
  <2> HIDE DEF s
  <2> QED
    BY <2>1
<1> HIDE DEF s
<1>6. \A i \in 1..Len(s) : ~(s[i] < 128)
  BY <1>4, <1>5
<1>7. LebLength(s) = 0
  BY <1>5, <1>6, NoEnd
<1> QED
  BY <1>7 DEF s

\* lebDecode refuses whatever lebEncode wrote once it lost its end: no number is
\* the beginning of another.
THEOREM LebTruncated ==
  ASSUME NEW value \in Nat, NEW k \in 0..(Len(lebEncode[value]) - 1),
         NEW p, p.bytes = SubSeq(lebEncode[value], 1, k)
  PROVE  ~lebDecode(p).ok
<1> DEFINE e == lebEncode[value]
<1>1. Written(e, value, FALSE) /\ FALSE \in BOOLEAN
  BY LebWritten
<1> HIDE DEF e
<1>2. LebLength(SubSeq(e, 1, k)) = 0
  BY <1>1, CutShort DEF e
<1> QED
  BY <1>2 DEF lebDecode, Throw, e

\* The same of slebDecode and slebEncode.
THEOREM SlebTruncated ==
  ASSUME NEW value \in Int, NEW k \in 0..(Len(slebEncode(value)) - 1),
         NEW p, p.bytes = SubSeq(slebEncode(value), 1, k)
  PROVE  ~slebDecode(p).ok
<1> DEFINE e == slebEncode(value)
<1>1. \E m \in Nat, isNeg \in BOOLEAN : Written(e, m, isNeg)
  <2>1. CASE value < 0
    <3>1. -value - 1 \in Nat /\ TRUE \in BOOLEAN /\ e = SlebBytes(TRUE)[-value - 1]
      BY <2>1 DEF slebEncode
    <3> HIDE DEF e
    <3> QED
      BY <3>1, SlebWritten
  <2>2. CASE ~(value < 0)
    <3>1. value \in Nat /\ FALSE \in BOOLEAN /\ e = SlebBytes(FALSE)[value]
      BY <2>2 DEF slebEncode
    <3> HIDE DEF e
    <3> QED
      BY <3>1, SlebWritten
  <2> QED
    BY <2>1, <2>2
<1> HIDE DEF e
<1>2. LebLength(SubSeq(e, 1, k)) = 0
  BY <1>1, CutShort DEF e
<1> QED
  BY <1>2 DEF slebDecode, Throw, e

\* The readers of fixed widths refuse bytes that are fewer than the width.
THEOREM IntTruncated ==
  ASSUME NEW n \in Nat \ {0}, NEW p, p.bytes \in Seq(Byte), Len(p.bytes) < n
  PROVE  ~readUIntLE(p, n).ok /\ ~readIntLE(p, n).ok
<1>1. readUIntLE(p, n) = Throw([p EXCEPT !.bytes = <<>>])
  BY DEF readUIntLE
<1> DEFINE q == [p EXCEPT !.bytes = <<>>]
<1>2. ~Throw(q).ok
  BY DEF Throw
<1> HIDE DEF q
<1> QED
  BY <1>1, <1>2 DEF readIntLE, Then, q

-----------------------------------------------------------------------------
(* Whatever the bytes *)

\* What n bytes make up is below 256 to the power of n.
LEMMA ByteDigits ==
  ASSUME NEW n \in Nat, NEW e \in [1..n -> Byte]
  PROVE  LittleEndian(e, 256) \in 0..(Power256[n] - 1)
<1>1. e \in [1..n -> Nat] /\ \A i \in 1..n : e[i] \in 0..255
  <2>1. \A b \in Byte : b \in Nat /\ b \in 0..255
    BY DEF Byte
  <2> QED
    BY <2>1
<1>2. PICK high : Horner(e, 256, n, high) /\ LittleEndian(e, 256) = high[n]
  BY <1>1, HornerSums
<1>3. /\ high \in [0..n -> Nat] /\ high[0] = 0
      /\ \A k \in 1..n : high[k] = e[n - k + 1] + (256 * high[k - 1])
  BY <1>2 DEF Horner
<1> DEFINE P == {k \in 0..n : high[k] < Power256[k]}
<1>4. ASSUME NEW k \in 0..n, \A m \in 0..n : m < k => m \in P
      PROVE  k \in P
  <2>1. CASE k = 0
    BY <1>3, <2>1, PowerEquation
  <2>2. CASE k # 0
    <3>1. k - 1 \in P /\ k \in 1..n /\ k - 1 \in Nat /\ (k - 1) + 1 = k /\ n - k + 1 \in 1..n
      BY <1>4, <2>2
    <3>2. Power256[k] = 256 * Power256[k - 1] /\ Power256[k - 1] \in Nat
      <4>1. \A m \in Nat : Power256[m + 1] = 256 * Power256[m] /\ Power256[m] \in Nat
        BY PowerEquation
      <4> QED
        BY <3>1, <4>1
    <3>3. high[k] = e[n - k + 1] + (256 * high[k - 1]) /\ high[k - 1] \in Nat
      BY <1>3, <3>1
    <3>4. e[n - k + 1] \in 0..255
      BY <1>1, <3>1
    <3>5. high[k - 1] < Power256[k - 1]
      BY <3>1
    <3>6. high[k] < Power256[k]
      <4> DEFINE d == e[n - k + 1]
                 h == high[k - 1]
                 power == Power256[k - 1]
      <4>1. d \in 0..255 /\ h \in Nat /\ power \in Nat /\ h < power
        BY <3>2, <3>3, <3>4, <3>5
      <4>2. high[k] = d + (256 * h) /\ Power256[k] = 256 * power
        BY <3>2, <3>3
      <4> HIDE DEF d, h, power
      <4> QED
        BY <4>1, <4>2
    <3> QED
      BY <3>6
  <2> QED
    BY <2>1, <2>2
<1>5. 0..n \subseteq P
  <2>1. 0..n \in SUBSET Nat
    OBVIOUS
  <2> HIDE DEF P
  <2> QED
    BY <1>4, <2>1, Induction
<1>6. high[n] \in Nat /\ high[n] < Power256[n] /\ Power256[n] \in Nat
  BY <1>3, <1>5, PowerEquation
<1> QED
  BY <1>2, <1>6

\* A number read from any bytes fits its width.
THEOREM FixedFits ==
  ASSUME NEW n \in Nat \ {0}, NEW p, p.bytes \in Seq(Byte)
  PROVE  /\ readUIntLE(p, n).ok => readUIntLE(p, n).v \in 0..(Power256[n] - 1)
         /\ readIntLE(p, n).ok =>
              readIntLE(p, n).v \in (-(128 * Power256[n - 1]))..((128 * Power256[n - 1]) - 1)
<1> DEFINE q == [p EXCEPT !.bytes = <<>>]
           e == SubSeq(p.bytes, 1, n)
           r == [p EXCEPT !.bytes = SubSeq(p.bytes, n + 1, Len(p.bytes))]
           val == LittleEndian(e, 256)
           mul == 128 * Power256[n - 1]
           int == IF val >= mul THEN val - (2 * mul) ELSE val
<1>1. CASE Len(p.bytes) < n
  <2>1. readUIntLE(p, n) = Throw(q)
    BY <1>1 DEF readUIntLE
  <2>2. ~Throw(q).ok
    BY DEF Throw
  <2> HIDE DEF q
  <2> QED
    BY <2>1, <2>2 DEF readIntLE, Then
<1>2. CASE ~(Len(p.bytes) < n)
  <2>0. Len(p.bytes) \in Nat
    OBVIOUS
  <2>1. ~(n > Len(p.bytes))
    BY <1>2, <2>0
  <2>2. e \in [1..n -> Byte]
    <3>1. \A i \in 1..n : p.bytes[i] \in Byte
      BY <2>0, <2>1
    <3>2. 1 \in Int /\ n \in Int
      OBVIOUS
    <3>3. e \in Seq(Byte) /\ Len(e) = IF 1 <= n THEN n - 1 + 1 ELSE 0
      <4> HIDE DEF e
      <4> QED
        BY <3>1, <3>2, SubSeqProperties DEF e
    <3> HIDE DEF e
    <3> QED
      BY <3>3
  <2>3. read(p, n) = Ok(e, r)
    BY <2>1 DEF read
  <2> HIDE DEF e, r
  <2>4. Ok(e, r).ok /\ Ok(e, r).v = e /\ Ok(e, r).p = r
    BY DEF Ok
  <2>5. readUIntLE(p, n) = Ok(val, r)
    BY <1>2, <2>3, <2>4 DEF readUIntLE, Then
  <2>6. val \in 0..(Power256[n] - 1)
    BY <2>2, ByteDigits
  <2> HIDE DEF val
  <2>7. Ok(val, r).ok /\ Ok(val, r).v = val /\ Ok(val, r).p = r
    BY DEF Ok
  <2>8. readIntLE(p, n) = Ok(int, r)
    BY <2>5, <2>7 DEF readIntLE, Then
  <2>9. mul \in Nat /\ Power256[n] = 2 * mul
    <3>1. n - 1 \in Nat /\ (n - 1) + 1 = n
      OBVIOUS
    <3>2. Power256[n - 1] \in Nat /\ Power256[n] = 256 * Power256[n - 1]
      BY <3>1, PowerEquation
    <3> QED
      BY <3>2
  <2> HIDE DEF mul
  <2>10. int \in (-mul)..(mul - 1)
    BY <2>6, <2>9
  <2> HIDE DEF int
  <2>11. Ok(int, r).v = int
    BY DEF Ok
  <2> QED
    BY <2>5, <2>6, <2>7, <2>8, <2>10, <2>11 DEF mul
<1> QED
  BY <1>1, <1>2

\* What a LEB128 reader takes for a number is one, whatever the bytes: a Nat is
\* never read as a negative number.
THEOREM LebFits ==
  ASSUME NEW p, p.bytes \in Seq(Byte)
  PROVE  /\ lebDecode(p).ok => lebDecode(p).v \in Nat
         /\ slebDecode(p).ok => slebDecode(p).v \in Int
<1> DEFINE n == LebLength(p.bytes)
           low == [i \in 1..n |-> p.bytes[i] % 128]
           complement == [i \in 1..n |-> 127 - (p.bytes[i] % 128)]
<1>1. n \in 0..Len(p.bytes)
  <2> DEFINE Ends == {i \in 1..Len(p.bytes) : p.bytes[i] < 128}
  <2>1. CASE Ends = {}
    <3>1. LebLength(p.bytes) = 0
      BY <2>1 DEF LebLength, SelectInSeq
    <3> QED
      BY <3>1
  <2>2. CASE Ends # {}
    <3>1. PICK i \in Ends : \A j \in Ends : i <= j
      <4>1. Ends \subseteq Nat
        OBVIOUS
      <4> HIDE DEF Ends
      <4> QED
        BY <2>2, <4>1, Minimum
    <3>2. LebLength(p.bytes) = i
      <4>1. /\ i \in 1..Len(p.bytes) /\ p.bytes[i] < 128
            /\ \A j \in 1..Len(p.bytes) : j < i => ~(p.bytes[j] < 128)
        BY <3>1
      <4> QED
        BY <4>1, EndFound
    <3> QED
      BY <3>1, <3>2
  <2> QED
    BY <2>1, <2>2
<1> HIDE DEF n
<1>2. low \in [1..n -> Nat] /\ complement \in [1..n -> Nat]
  <2>1. \A i \in 1..n : p.bytes[i] \in Nat
    <3>1. \A b \in Byte : b \in Nat
      BY DEF Byte
    <3>2. \A i \in 1..n : i \in 1..Len(p.bytes)
      BY <1>1
    <3> QED
      BY <3>1, <3>2
  <2>2. \A b \in Nat : b % 128 \in Nat /\ 127 - (b % 128) \in Nat
    OBVIOUS
  <2> QED
    BY <2>1, <2>2
<1> HIDE DEF low, complement
<1>3. LittleEndian(low, 128) \in Nat /\ LittleEndian(complement, 128) \in Nat
  <2>1. n \in Nat /\ 128 \in Nat
    BY <1>1
  <2>2. \A d \in [1..n -> Nat] : LittleEndian(d, 128) \in Nat
    <3> SUFFICES ASSUME NEW d \in [1..n -> Nat] PROVE LittleEndian(d, 128) \in Nat
      OBVIOUS
    <3>1. PICK high : Horner(d, 128, n, high) /\ LittleEndian(d, 128) = high[n]
      BY <2>1, HornerSums
    <3> QED
      BY <2>1, <3>1 DEF Horner
  <2> QED
    BY <1>2, <2>2
<1> DEFINE q == [p EXCEPT !.bytes = SubSeq(p.bytes, n + 1, Len(p.bytes))]
<1>4. lebDecode(p).ok => lebDecode(p).v = LittleEndian(low, 128)
  <2> DEFINE v == LittleEndian(low, 128)
  <2>1. lebDecode(p) = IF n = 0 THEN Throw([p EXCEPT !.bytes = <<>>]) ELSE Ok(v, q)
    BY DEF lebDecode, n, low
  <2> HIDE DEF v, q
  <2> QED
    BY <2>1 DEF Throw, Ok, v
<1>5. slebDecode(p).ok => slebDecode(p).v = -LittleEndian(complement, 128) - 1 \/ slebDecode(p) = lebDecode(p)
  <2> DEFINE v == -LittleEndian(complement, 128) - 1
  <2>1. slebDecode(p) = IF n = 0 THEN Throw(p) ELSE IF p.bytes[n] < 64 THEN lebDecode(p) ELSE Ok(v, q)
    BY DEF slebDecode, n, complement
  <2> HIDE DEF v, q
  <2> QED
    BY <2>1 DEF Throw, Ok, v
<1>6. -LittleEndian(complement, 128) - 1 \in Int
  BY <1>3
<1> QED
  BY <1>3, <1>4, <1>5, <1>6
=============================================================================
