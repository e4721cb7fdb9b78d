---------------------------- MODULE CandidEncode ----------------------------
(***************************************************************************)
(* Encoding of Candid messages (candid/src/idl.ts): which values a type    *)
(* accepts, the bytes of a value, and the type table the encoder builds.   *)
(*                                                                         *)
(* JavaScript values carry their kind: <<"null">> <<"bool", b>>            *)
(* <<"num", n>> <<"text", utf8>> <<"arr", values>> <<"principal", bytes>>  *)
(* and <<"obj", fields>>, a function from keys to values.  Texts, and the  *)
(* labels of methods, are sequences of their UTF-8 bytes.                  *)
(***************************************************************************)
EXTENDS Leb128, CandidTypes

Num(n) == <<"num", n>>
NullValue == <<"null">>
Arr(s) == <<"arr", s>>
Obj(f) == <<"obj", f>>

IDLTypeIds == [null |-> -1, bool |-> -2, nat |-> -3, int |-> -4, text |-> -15,
               reserved |-> -16, empty |-> -17, opt |-> -18, vec |-> -19,
               record |-> -20, variant |-> -21, func |-> -22, service |-> -23,
               principal |-> -24]

(* The width is 8 or 16 bits: -5 and -6 for nat, -9 and -10 for int.       *)
FixedOpcode(t) ==
  (IF Kind(t) = "fixednat" THEN -5 ELSE -9) - (IF t[2] = 8 THEN 0 ELSE 1)

AnnotationByte == [query |-> 1, oneway |-> 2, composite_query |-> 3]

-----------------------------------------------------------------------------
(* covariant: whether encode accepts a value at a type, class by class.    *)
RECURSIVE covariant(_, _)

CoversSimple(t, x) == Kind(t) = "reserved" \/ Kind(t) = Kind(x)

CoversNumber(t, x) == Kind(x) = "num" /\ (Kind(t) = "int" \/ x[2] >= 0)

CoversFixed(t, x) ==
  LET bound == 2^(IF Kind(t) = "fixednat" THEN t[2] ELSE t[2] - 1)
  IN  /\ Kind(x) = "num"
      /\ x[2] < bound /\ x[2] >= IF Kind(t) = "fixednat" THEN 0 ELSE -bound

(* An array of one of JavaScript's typed classes is covered without a look *)
(* at its numbers if its elements have the width of the type's: as arrays  *)
(* these are modelled where they hold numbers of the type, not where the   *)
(* sign is another.                                                        *)
CoversVec(t, x) == Kind(x) = "arr" /\ \A i \in DOMAIN x[2] : covariant(t[2], x[2][i])

CoversOpt(t, x) ==
  /\ Kind(x) = "arr"
  /\ x[2] = <<>> \/ (Len(x[2]) = 1 /\ covariant(t[2], x[2][1]))

(* A record is read from any object that has its keys, one without fields  *)
(* from everything whose typeof is object, null among it.                  *)
CoversRecord(t, x) ==
  \/ t[2] = <<>> /\ Kind(x) \in {"obj", "arr", "principal", "null"}
  \/ /\ t[2] # <<>> /\ Kind(x) = "obj"
     /\ \A l \in Labels(t) : l \in DOMAIN x[2] /\ covariant(FieldType(t, l), x[2][l])

CoversTuple(t, x) ==
  /\ Kind(x) = "arr" /\ Len(x[2]) >= Len(t[2])
  /\ \A i \in DOMAIN t[2] : covariant(t[2][i][2], x[2][i])

(* One key, which need not be one of the alternatives.                     *)
CoversVariant(t, x) ==
  /\ Kind(x) = "obj" /\ Cardinality(DOMAIN x[2]) = 1
  /\ \A l \in Labels(t) \cap DOMAIN x[2] : covariant(FieldType(t, l), x[2][l])

CoversRec(t, x) == t[2] \in DOMAIN Fill /\ covariant(Fill[t[2]], x)

CoversFunc(x) ==
  /\ Kind(x) = "arr" /\ Len(x[2]) = 2
  /\ Kind(x[2][1]) = "principal" /\ Kind(x[2][2]) = "text"

covariant(t, x) ==
  CASE Kind(t) \in {"empty", "unknown"} -> FALSE
    [] Kind(t) \in {"null", "bool", "text", "reserved"} -> CoversSimple(t, x)
    [] Kind(t) \in {"nat", "int"} -> CoversNumber(t, x)
    [] Kind(t) \in {"fixednat", "fixedint"} -> CoversFixed(t, x)
    [] Kind(t) = "vec" -> CoversVec(t, x)
    [] Kind(t) = "opt" -> CoversOpt(t, x)
    [] Kind(t) = "record" -> CoversRecord(t, x)
    [] Kind(t) = "tuple" -> CoversTuple(t, x)
    [] Kind(t) = "variant" -> CoversVariant(t, x)
    [] Kind(t) = "rec" -> CoversRec(t, x)
    [] Kind(t) = "func" -> CoversFunc(x)
    [] Kind(t) \in {"principal", "service"} -> Kind(x) = "principal"

-----------------------------------------------------------------------------
(* Outcomes of encoders: bytes, or a throw.                                *)
Bytes(b) == Ok(b, <<>>)
Refuse == Throw(<<>>)
concat(outcomes) ==
  IF \E i \in DOMAIN outcomes : ~outcomes[i].ok THEN Refuse
  ELSE Bytes(FlattenSeq([i \in DOMAIN outcomes |-> outcomes[i].v]))

(* encodeValue, on a value that covariant has accepted, class by class.    *)
RECURSIVE encodeValue(_, _)

TextBytes(x) == lebEncode[Len(x[2])] \o x[2]

EncodeSimple(t, x) ==
  Bytes(CASE Kind(t) \in {"null", "reserved"} -> <<>>
          [] Kind(t) = "bool" -> IF x[2] THEN <<1>> ELSE <<0>>
          [] Kind(t) = "text" -> TextBytes(x))

EncodeNumber(t, x) == Bytes(IF Kind(t) = "nat" THEN lebEncode[x[2]] ELSE slebEncode(x[2]))

EncodeFixed(t, x) == Bytes(writeIntLE(x[2], t[2] \div 8))

EncodeVec(t, x) ==
  concat(<<Bytes(lebEncode[Len(x[2])])>> \o [i \in DOMAIN x[2] |-> encodeValue(t[2], x[2][i])])

EncodeOpt(t, x) ==
  IF x[2] = <<>> THEN Bytes(<<0>>)
  ELSE concat(<<Bytes(<<1>>), encodeValue(t[2], x[2][1])>>)

EncodeRecord(t, x) ==
  concat([i \in DOMAIN t[2] |-> encodeValue(t[2][i][2], x[2][t[2][i][1]])])

EncodeTuple(t, x) == concat([i \in DOMAIN t[2] |-> encodeValue(t[2][i][2], x[2][i])])

EncodeVariant(t, x) ==
  LET i == SelectInSeq(t[2], LAMBDA f : f[1] \in DOMAIN x[2])
  IN  IF i = 0 THEN Refuse
      ELSE concat(<<Bytes(lebEncode[i - 1]), encodeValue(t[2][i][2], x[2][t[2][i][1]])>>)

PrincipalBytes(x) == <<1>> \o lebEncode[Len(x[2])] \o x[2]

EncodeFunc(x) == Bytes(<<1>> \o PrincipalBytes(x[2][1]) \o TextBytes(x[2][2]))

encodeValue(t, x) ==
  CASE Kind(t) \in {"empty", "unknown"} -> Refuse
    [] Kind(t) \in {"null", "bool", "text", "reserved"} -> EncodeSimple(t, x)
    [] Kind(t) \in {"nat", "int"} -> EncodeNumber(t, x)
    [] Kind(t) \in {"fixednat", "fixedint"} -> EncodeFixed(t, x)
    [] Kind(t) = "vec" -> EncodeVec(t, x)
    [] Kind(t) = "opt" -> EncodeOpt(t, x)
    [] Kind(t) = "record" -> EncodeRecord(t, x)
    [] Kind(t) = "tuple" -> EncodeTuple(t, x)
    [] Kind(t) = "variant" -> EncodeVariant(t, x)
    [] Kind(t) \in {"principal", "service"} -> Bytes(PrincipalBytes(x))
    [] Kind(t) = "func" -> EncodeFunc(x)
    [] Kind(t) = "rec" -> encodeValue(Fill[t[2]], x)

-----------------------------------------------------------------------------
(* TypeTable: the encoded entries and the index of every name in them, or  *)
(* that building it threw.                                                 *)
NewTable == [ok |-> TRUE, typs |-> <<>>, idx |-> <<>>]

has(T, t) == name(t) \in DOMAIN T.idx

add(T, t, buf) ==
  [ok   |-> T.ok /\ buf.ok,
   idx  |-> (name(t) :> Len(T.typs)) @@ T.idx,
   typs |-> Append(T.typs, buf.v)]

(* merge: a recursive type takes over the entry of its body, which leaves  *)
(* the table; the entries behind the body move one place forward, and the  *)
(* indices of their names do not.                                          *)
merge(T, t, knot) ==
  IF ~(has(T, t) /\ has(T, knot)) THEN [T EXCEPT !.ok = FALSE]
  ELSE LET k == T.idx[name(knot)] + 1
           filled == [T.typs EXCEPT ![T.idx[name(t)] + 1] = T.typs[k]]
       IN  [ok   |-> T.ok,
            typs |-> RemoveAt(filled, k),
            idx  |-> [n \in DOMAIN T.idx \ {name(knot)} |-> T.idx[n]]]

indexOf(T, t) == IF has(T, t) THEN Bytes(slebEncode(T.idx[name(t)])) ELSE Refuse

encodeType(T, t) ==
  CASE Kind(t) \in {"fixednat", "fixedint"} -> Bytes(slebEncode(FixedOpcode(t)))
    [] Kind(t) = "unknown" -> Refuse
    [] IsPrimitive(t) /\ Kind(t) \notin {"fixednat", "fixedint", "unknown"} ->
         Bytes(slebEncode(IDLTypeIds[Kind(t)]))
    [] ~IsPrimitive(t) -> indexOf(T, t)

encodeTypes(T, types) == concat([i \in DOMAIN types |-> encodeType(T, types[i])])

(* _buildTypeTableImpl of every class: the components first, then the      *)
(* entry of the type; buildTypeTable skips a type whose name is there.     *)
RECURSIVE buildTypeTable(_, _)

BuildAll(T, types) == FoldLeft(buildTypeTable, T, types)
FieldTypes(t) == [i \in DOMAIN t[2] |-> t[2][i][2]]
OpCode(kind) == Bytes(slebEncode(IDLTypeIds[kind]))
Length(s) == Bytes(lebEncode[Len(s)])
FieldEntries(T, t) ==
  concat([i \in DOMAIN t[2] |->
    concat(<<Bytes(lebEncode[idlLabelToId(t[2][i][1])]), encodeType(T, t[2][i][2])>>)])

BuildVec(T, t) ==
  LET U == buildTypeTable(T, t[2])
  IN  add(U, t, concat(<<OpCode("vec"), encodeType(U, t[2])>>))

BuildOpt(T, t) ==
  LET U == buildTypeTable(T, t[2])
  IN  add(U, t, concat(<<OpCode("opt"), encodeType(U, t[2])>>))

BuildRecord(T, t) ==
  LET U == BuildAll(T, FieldTypes(t))
  IN  add(U, t, concat(<<OpCode("record"), Length(t[2]), FieldEntries(U, t)>>))

BuildVariant(T, t) ==
  LET U == BuildAll(T, FieldTypes(t))
  IN  add(U, t, concat(<<OpCode("variant"), Length(t[2]), FieldEntries(U, t)>>))

encodeAnnotation(annotation) == AnnotationByte[annotation]

BuildFunc(T, t) ==
  LET U == BuildAll(BuildAll(T, t[2]), t[3])
  IN  add(U, t, concat(<<OpCode("func"), Length(t[2]), encodeTypes(U, t[2]), Length(t[3]),
                         encodeTypes(U, t[3]), Length(t[4]),
                         Bytes([i \in DOMAIN t[4] |-> encodeAnnotation(t[4][i])])>>))

BuildService(T, t) ==
  LET U == BuildAll(T, FieldTypes(t))
      methods == [i \in DOMAIN t[2] |->
        concat(<<Length(t[2][i][1]), Bytes(t[2][i][1]), encodeType(U, t[2][i][2])>>)]
  IN  add(U, t, concat(<<OpCode("service"), Length(t[2]), concat(methods)>>))

(* A recursive type reserves its entry before its body is built.           *)
BuildRec(T, t) ==
  IF t[2] \notin DOMAIN Fill THEN [T EXCEPT !.ok = FALSE]
  ELSE merge(buildTypeTable(add(T, t, Bytes(<<>>)), Fill[t[2]]), t, Fill[t[2]])

buildTypeTable(T, t) ==
  CASE has(T, t) \/ (IsPrimitive(t) /\ Kind(t) # "unknown") -> T
    [] Kind(t) = "unknown" -> [T EXCEPT !.ok = FALSE]
    [] ~has(T, t) /\ Kind(t) = "vec" -> BuildVec(T, t)
    [] ~has(T, t) /\ Kind(t) = "opt" -> BuildOpt(T, t)
    [] ~has(T, t) /\ IsRecord(t) -> BuildRecord(T, t)
    [] ~has(T, t) /\ Kind(t) = "variant" -> BuildVariant(T, t)
    [] ~has(T, t) /\ Kind(t) = "func" -> BuildFunc(T, t)
    [] ~has(T, t) /\ Kind(t) = "service" -> BuildService(T, t)
    [] ~has(T, t) /\ Kind(t) = "rec" -> BuildRec(T, t)

Magic == <<68, 73, 68, 76>>     \* DIDL

(* encode: refuses too few arguments; one argument too many is counted in  *)
(* the header and has no type there.                                       *)
encode(argTypes, args) ==
  LET T == FoldLeft(buildTypeTable, NewTable, argTypes)
      argument(i) == IF covariant(argTypes[i], args[i])
                     THEN encodeValue(argTypes[i], args[i]) ELSE Refuse
  IN  IF Len(args) < Len(argTypes) \/ ~T.ok THEN Refuse
      ELSE concat(<<Bytes(Magic), Bytes(lebEncode[Len(T.typs)] \o FlattenSeq(T.typs)),
                    Bytes(lebEncode[Len(args)]), encodeTypes(T, argTypes)>>
                    \o [i \in DOMAIN argTypes |-> argument(i)])
=============================================================================
