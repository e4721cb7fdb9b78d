-------------------------------- MODULE Candid --------------------------------
(***************************************************************************)
(* Decoding of Candid messages (candid/src/idl.ts), and as a state machine *)
(* what a program does with the library: encode some arguments, receive    *)
(* the message whole or cut short, decode it at the types it expects, and  *)
(* ask the exported subtype check as SubtypeCache describes.               *)
(*                                                                         *)
(* The pipe the decoder threads through carries, besides the bytes to      *)
(* read, the recursive types in scope (those of the program and those of   *)
(* the type table read) and the subtype cache: restoring a checkpoint of   *)
(* the pipe gives back the bytes and keeps the cache.                      *)
(***************************************************************************)
EXTENDS CandidEncode, SubtypeCache

CONSTANTS
  Sources,       \* the pairs of a list of types and a list of values to encode
  Expectations   \* the lists of types a message is decoded at

VARIABLES
  sent,          \* the types and values encoded last, or None
  message,       \* the bytes received
  cut,           \* whether the end of the message was lost
  expected,      \* the types the message was decoded at, or None
  got,           \* the outcome of the decoding
  scope,         \* the recursive types of the last decoding
  learned        \* what the subtype cache held when the decoding ended

messageVars == <<sent, message, cut, expected, got, scope, learned>>
vars == <<messageVars, cacheVars>>

None == <<>>

-----------------------------------------------------------------------------
(* Reading lists: n numbers, or n times what an operator reads.            *)
Repeat(p, n, Read(_)) ==
  FoldLeft(LAMBDA acc, i : Then(acc, LAMBDA xs, q :
             Then(Read(q), LAMBDA x, r : Ok(Append(xs, x), r))),
           Ok(<<>>, p), [i \in 1..n |-> i])
Counted(p, Read(_)) == Then(lebDecode(p), LAMBDA n, q : Repeat(q, n, Read))
Pair(p, First(_), Second(_)) ==
  Then(First(p), LAMBDA a, q : Then(Second(q), LAMBDA b, r : Ok(<<a, b>>, r)))

readText(p) == Then(lebDecode(p), LAMBDA n, q : safeRead(q, n))
annotationOf == [b \in 1..3 |-> CHOOSE a \in DOMAIN AnnotationByte : AnnotationByte[a] = b]
readAnnotations(p) ==
  Then(Counted(p, lebDecode), LAMBDA bs, q :
    IF ToSet(bs) \subseteq 1..3 THEN Ok([i \in DOMAIN bs |-> annotationOf[bs[i]]], q)
    ELSE Throw(q))

(* One entry of the type table: field ids must increase.                   *)
readEntry(p) ==
  Then(slebDecode(p), LAMBDA ty, q :
    CASE ty \in {IDLTypeIds.opt, IDLTypeIds.vec} ->
           Then(slebDecode(q), LAMBDA t, r : Ok(<<ty, t>>, r))
      [] ty \in {IDLTypeIds.record, IDLTypeIds.variant} ->
           Then(Counted(q, LAMBDA s : Pair(s, lebDecode, slebDecode)), LAMBDA fields, r :
             IF \A i \in 2..Len(fields) : fields[i - 1][1] < fields[i][1]
             THEN Ok(<<ty, fields>>, r) ELSE Throw(r))
      [] ty = IDLTypeIds.func ->
           Then(Counted(q, slebDecode), LAMBDA args, r :
             Then(Counted(r, slebDecode), LAMBDA rets, s :
               Then(readAnnotations(s), LAMBDA anns, u : Ok(<<ty, <<args, rets, anns>>>>, u))))
      [] ty = IDLTypeIds.service ->
           Then(Counted(q, LAMBDA s : Pair(s, readText, slebDecode)), LAMBDA methods, r :
             Ok(<<ty, methods>>, r))
      [] OTHER -> Throw(q))

readTypeTable(p) ==
  Pair(p, LAMBDA q : Counted(q, readEntry), LAMBDA q : Counted(q, slebDecode))

(* getType: a primitive by its opcode, or the RecClass made for an entry.  *)
(* TableId numbers those: the counter of RecClass gives each a fresh id.   *)
TableId(i) == 100 + i
Invalid == <<"invalid">>
getType(rawTable, t) ==
  LET named == {k \in DOMAIN IDLTypeIds : IDLTypeIds[k] = t /\ IsPrimitive(<<k>>)}
  IN  CASE t >= Len(rawTable) -> Invalid
        [] t \in 0..(Len(rawTable) - 1) -> Rec(TableId(t))
        [] named # {} -> <<CHOOSE k \in named : TRUE>>
        [] t \in {-5, -6} -> FixedNat(IF t = -5 THEN 8 ELSE 16)
        [] t \in {-9, -10} -> FixedInt(IF t = -9 THEN 8 ELSE 16)
        [] OTHER -> Invalid

(* buildType: a record whose labels are _0_, _1_, ... in order is a tuple. *)
(* The methods of a service must be functions of the table.                *)
buildType(rawTable, funcs, entry) ==
  LET typeOf(t) == getType(rawTable, t)
      fields == [l \in {WireLabel(entry[2][i][1]) : i \in DOMAIN entry[2]} |->
                   typeOf(entry[2][SelectInSeq(entry[2], LAMBDA f : WireLabel(f[1]) = l)][2])]
      isTuple == \A i \in DOMAIN entry[2] : entry[2][i][1] = i - 1
  IN  CASE entry[1] = IDLTypeIds.vec -> Vec(typeOf(entry[2]))
        [] entry[1] = IDLTypeIds.opt -> Opt(typeOf(entry[2]))
        [] entry[1] = IDLTypeIds.variant -> Variant(fields)
        [] entry[1] = IDLTypeIds.record /\ isTuple ->
             Tuple([i \in DOMAIN entry[2] |-> typeOf(entry[2][i][2])])
        [] entry[1] = IDLTypeIds.record /\ ~isTuple -> Record(fields)
        [] entry[1] = IDLTypeIds.func ->
             Func([i \in DOMAIN entry[2][1] |-> typeOf(entry[2][1][i])],
                  [i \in DOMAIN entry[2][2] |-> typeOf(entry[2][2][i])], entry[2][3])
        [] entry[1] = IDLTypeIds.service ->
             Service([i \in DOMAIN entry[2] |->
               <<entry[2][i][1], IF TableId(entry[2][i][2]) \in DOMAIN funcs
                                 THEN funcs[TableId(entry[2][i][2])] ELSE Invalid>>])

(* The types of the table: the functions first, so that a service can      *)
(* refer to one that comes later.                                          *)
BuildTable(rawTable) ==
  LET ids(isFunc) == {i \in 1..Len(rawTable) : (rawTable[i][1] = IDLTypeIds.func) = isFunc}
      built(funcs, S) == [id \in {TableId(i - 1) : i \in S} |->
                            buildType(rawTable, funcs, rawTable[id - 99])]
      funcs == built(<<>>, ids(TRUE))
  IN  built(funcs, ids(FALSE)) @@ funcs

-----------------------------------------------------------------------------
(* checkType of ConstructType: the wire type of a compound value is an     *)
(* entry of the table, which is unfolded; Invalid when it is not one.      *)
checkType(p, w) == IF Kind(w) = "rec" THEN p.defs[w[2]] ELSE Invalid

unfold(p, w) == IF Kind(w) = "rec" THEN p.defs[w[2]] ELSE w

decodePrincipalId(p) ==
  Then(safeReadUint8(p), LAMBDA x, q :
    IF x # 1 THEN Throw(q)
    ELSE Then(readText(q), LAMBDA bytes, r : Ok(<<"principal", bytes>>, r)))

(* A primitive at the same primitive on the wire.                          *)
DecodeSimple(p, t) ==
  CASE Kind(t) = "null" -> Ok(NullValue, p)
    [] Kind(t) = "bool" ->
         Then(safeReadUint8(p), LAMBDA x, q :
           IF x \in {0, 1} THEN Ok(<<"bool", x = 1>>, q) ELSE Throw(q))
    [] Kind(t) = "text" -> Then(readText(p), LAMBDA utf8, q : Ok(<<"text", utf8>>, q))

DecodeNumber(p, t) ==
  Then(IF Kind(t) = "nat" THEN lebDecode(p) ELSE slebDecode(p), LAMBDA n, q : Ok(Num(n), q))

DecodeFixed(p, t) ==
  Then(IF Kind(t) = "fixednat" THEN readUIntLE(p, t[2] \div 8) ELSE readIntLE(p, t[2] \div 8),
       LAMBDA n, q : Ok(Num(n), q))

decodePrimitive(p, t) ==
  CASE Kind(t) \in {"null", "bool", "text"} -> DecodeSimple(p, t)
    [] Kind(t) \in {"nat", "int"} -> DecodeNumber(p, t)
    [] Kind(t) \in {"fixednat", "fixedint"} -> DecodeFixed(p, t)
    [] Kind(t) = "principal" -> decodePrincipalId(p)
    [] Kind(t) = "empty" -> Throw(p)

(* A vector of fixed-width numbers is read as one block: the width of the  *)
(* elements is the expected one, a block of bytes may be short, one of     *)
(* longer numbers may not.                                                 *)
decodeBlock(p, t, n) ==
  LET width == t[2] \div 8
      number(bytes) == IF Kind(t) = "fixednat"
                       THEN readUIntLE([bytes |-> bytes], width).v
                       ELSE readIntLE([bytes |-> bytes], width).v
  IN  IF width > 1 /\ Len(p.bytes) < n * width THEN Throw(p)
      ELSE Then(read(p, n * width), LAMBDA bytes, q :
             Ok(Arr([i \in 1..(Len(bytes) \div width) |->
                       Num(number(SubSeq(bytes, width * (i - 1) + 1, width * i)))]), q))

(* decodeValue of a type t on a value of type w: OptClass, RecordClass and *)
(* the other classes that call each other.                                 *)
RECURSIVE decodeValue(_, _, _), decodeOpt(_, _, _), decodeFields(_, _, _, _)

(* Mutant: the bytes read by the attempt that failed are not put back.     *)
SkipWithoutRestore(attempt, p, inner, as) ==
  IF attempt.ok THEN Ok(Arr(<<attempt.v>>), attempt.p)
  ELSE Then(decodeValue(attempt.p, inner, as), LAMBDA v, q : Ok(Arr(<<>>), q))

(* The attempt of OptClass to decode the constituent: if it throws, the    *)
(* pipe is rolled back, the value is skipped at its own type, and the      *)
(* option is empty.                                                        *)
OrSkip(attempt, p, inner, as) ==
  IF attempt.ok THEN Ok(Arr(<<attempt.v>>), attempt.p)
  ELSE Then(decodeValue(restore(attempt.p, save(p)), inner, as), LAMBDA v, q : Ok(Arr(<<>>), q))

decodeOpt(p, t, w) ==
  LET wireType == unfold(p, w)
      present(q) == OrSkip(decodeValue(q, t[2], wireType[2]), q, wireType[2], wireType[2])
  IN  CASE Kind(w) \in {"null", "reserved"} -> Ok(Arr(<<>>), p)
        [] Kind(wireType) = "opt" ->
             Then(safeReadUint8(p), LAMBDA tag, q :
               CASE tag = 0 -> Ok(Arr(<<>>), q)
                 [] tag = 1 -> present(q)
                 [] OTHER -> Throw(q))
        [] Kind(w) \notin {"null", "reserved"} /\ Kind(wireType) # "opt" ->
             IF canBeOmitted(t[2])
             THEN Then(decodeValue(p, wireType, wireType), LAMBDA v, q : Ok(Arr(<<>>), q))
             ELSE OrSkip(decodeValue(p, t[2], w), p, wireType, w)

(* RecordClass: the fields on the wire and the expected ones, both sorted  *)
(* by id, are merged.  A field that is not expected is skipped, one that   *)
(* is not on the wire is empty if its class is OptClass or ReservedClass.  *)
decodeFields(p, x, expect, actual) ==
  LET e == Head(expect)
      a == Head(actual)
      eId == idlLabelToId(e[1])
      aId == idlLabelToId(a[1])
      Default == IF Kind(e[2]) \in {"opt", "reserved"}
                 THEN decodeFields(p, (e[1] :> Arr(<<>>)) @@ x, Tail(expect), actual)
                 ELSE Throw(p)
      Skip == Then(decodeValue(p, a[2], a[2]),
                   LAMBDA v, q : decodeFields(q, x, expect, Tail(actual)))
      Match == Then(decodeValue(p, e[2], a[2]),
                    LAMBDA v, q : decodeFields(q, (e[1] :> v) @@ x, Tail(expect), Tail(actual)))
  IN  CASE expect = <<>> /\ actual = <<>> -> Ok(Obj(x), p)
        [] expect = <<>> /\ actual # <<>> -> Skip
        [] expect # <<>> /\ actual = <<>> -> Default
        [] expect # <<>> /\ actual # <<>> ->
             CASE eId = aId -> Match
               [] aId > eId -> Default
               [] aId < eId -> Skip

RECURSIVE decodeComponents(_, _, _)
decodeComponents(p, expect, actual) ==
  IF actual = <<>> THEN Ok(<<>>, p)
  ELSE LET w == Head(actual)[2]
           skipped == expect = <<>>
       IN  Then(decodeValue(p, IF skipped THEN w ELSE Head(expect)[2], w), LAMBDA v, q :
             Then(decodeComponents(q, IF skipped THEN <<>> ELSE Tail(expect), Tail(actual)),
                  LAMBDA vs, r : Ok(IF skipped THEN vs ELSE <<v>> \o vs, r)))

(* subtype, of a decoder: the whole check, with the answer and the cache.  *)
RECURSIVE Settle(_, _)
Settle(defs, c) == IF c.pending = <<>> THEN c ELSE Settle(defs, subtype_(defs, c))
subtype(defs, cache, t1, t2) ==
  LET c == Settle(defs, Check(cache, t1, t2))
  IN  [is |-> c.holds, cache |-> Learn(cache, c, t1, t2)]

(* A reference to a function or a service: its type on the wire must be a  *)
(* subtype of the expected one.                                            *)
CheckSubtype(p, w, t) ==
  LET answer == subtype(p.defs, p.cache, unfold(p, w), t)
      q == [p EXCEPT !.cache = answer.cache]
  IN  IF answer.is THEN Ok(None, q) ELSE Throw(q)

(* Mutant: the expected alternative is the one at the same place.          *)
VariantByPlace(p, t, wire) ==
  Then(lebDecode(p), LAMBDA idx, q :
    IF idx >= Len(t[2]) \/ idx >= Len(wire[2]) THEN Throw(q)
    ELSE Then(decodeValue(q, t[2][idx + 1][2], wire[2][idx + 1][2]),
              LAMBDA v, r : Ok(Obj(t[2][idx + 1][1] :> v), r)))

decodeVariant(p, t, wire) ==
  Then(lebDecode(p), LAMBDA idx, q :
    IF idx >= Len(wire[2]) \/ ~HasId(t, wire[2][idx + 1][1]) THEN Throw(q)
    ELSE LET f == wire[2][idx + 1]
             key == CHOOSE l \in Labels(t) : idlLabelToId(l) = idlLabelToId(f[1])
         IN  Then(decodeValue(q, FieldType(t, key), f[2]), LAMBDA v, r : Ok(Obj(key :> v), r)))

decodeVec(p, t, wire) ==
  Then(lebDecode(p), LAMBDA n, q :
    IF Kind(t[2]) \in {"fixednat", "fixedint"} THEN decodeBlock(q, t[2], n)
    ELSE Then(Repeat(q, n, LAMBDA r : decodeValue(r, t[2], wire[2])),
              LAMBDA vs, r : Ok(Arr(vs), r)))

decodeTuple(p, t, wire) ==
  IF Len(wire[2]) < Len(t[2]) THEN Throw(p)
  ELSE Then(decodeComponents(p, t[2], wire[2]), LAMBDA vs, q : Ok(Arr(vs), q))

decodeService(p, t, w) == Then(CheckSubtype(p, w, t), LAMBDA v, q : decodePrincipalId(q))

decodeFunc(p, t, w) ==
  Then(CheckSubtype(p, w, t), LAMBDA v, q :
    Then(safeReadUint8(q), LAMBDA x, r :
      IF x # 1 THEN Throw(r)
      ELSE Then(Pair(r, decodePrincipalId, readText), LAMBDA ref, s :
             Ok(Arr(<<ref[1], <<"text", ref[2]>>>>), s))))

decodeReserved(p, t, w) ==
  IF w = t THEN Ok(NullValue, p)
  ELSE Then(decodeValue(p, w, w), LAMBDA v, q : Ok(NullValue, q))

(* The expected class decides; a compound one wants its own class on the   *)
(* wire, a primitive one its own name.                                     *)
decodeValue(p, t, w) ==
  LET wire == checkType(p, w)
      OnWire(kinds) == wire # Invalid /\ Kind(wire) \in kinds
      If(matches, Outcome) == IF matches THEN Outcome ELSE Throw(p)
  IN  IF Kind(t) = "invalid" \/ w = Invalid THEN Throw(p) ELSE
      CASE Kind(t) = "unknown" -> decodeValue(p, w, w)
        [] Kind(t) = "reserved" -> decodeReserved(p, t, w)
        [] IsPrimitive(t) /\ Kind(t) \notin {"unknown", "reserved"} ->
             If(t = w, decodePrimitive(p, t))
        [] Kind(t) = "opt" -> decodeOpt(p, t, w)
        [] Kind(t) = "vec" -> If(OnWire({"vec"}), decodeVec(p, t, wire))
        [] Kind(t) = "record" ->
             If(OnWire({"record", "tuple"}), decodeFields(p, <<>>, t[2], wire[2]))
        [] Kind(t) = "tuple" -> If(OnWire({"tuple"}), decodeTuple(p, t, wire))
        [] Kind(t) = "variant" -> If(OnWire({"variant"}), decodeVariant(p, t, wire))
        [] Kind(t) = "rec" -> decodeValue(p, p.defs[t[2]], w)
        [] Kind(t) = "service" -> decodeService(p, t, w)
        [] Kind(t) = "func" -> decodeFunc(p, t, w)

(* decode: the header, then the values in turn; those of which no type is  *)
(* expected are skipped, and nothing may be left over.                     *)
RECURSIVE decodeArguments(_, _, _)
decodeArguments(p, retTypes, types) ==
  IF types = <<>> THEN IF p.bytes = <<>> THEN Ok(<<>>, p) ELSE Throw(p)
  ELSE LET w == Head(types)
           skipped == retTypes = <<>>
       IN  Then(decodeValue(p, IF skipped THEN w ELSE Head(retTypes), w), LAMBDA v, q :
             Then(decodeArguments(q, IF skipped THEN <<>> ELSE Tail(retTypes), Tail(types)),
                  LAMBDA vs, r : Ok(IF skipped THEN vs ELSE <<v>> \o vs, r)))

RECURSIVE Components(_)
Components(t) ==
  {t} \cup CASE Kind(t) \in {"vec", "opt"} -> Components(t[2])
             [] IsRecord(t) \/ Kind(t) \in {"variant", "service"} ->
                  UNION {Components(t[2][i][2]) : i \in DOMAIN t[2]}
             [] Kind(t) = "func" ->
                  UNION ({Components(t[2][i]) : i \in DOMAIN t[2]}
                           \cup {Components(t[3][i]) : i \in DOMAIN t[3]})
             [] OTHER -> {}

WellFormed(defs) == Invalid \notin UNION {Components(defs[id]) : id \in DOMAIN defs}

decode(retTypes, bytes) ==
  LET start == [bytes |-> bytes, cache |-> NoRelations, defs |-> Fill]
  IN  Then(safeRead(start, 4), LAMBDA magic, p :
        IF magic # Magic THEN Throw(p)
        ELSE Then(readTypeTable(p), LAMBDA header, q :
               LET table == BuildTable(header[1])
                   types == [i \in DOMAIN header[2] |-> getType(header[1], header[2][i])]
               IN  IF \/ Len(types) < Len(retTypes)
                      \/ ~WellFormed(table) \/ Invalid \in ToSet(types)
                   THEN Throw(q)
                   ELSE decodeArguments([q EXCEPT !.defs = table @@ @], retTypes, types)))

-----------------------------------------------------------------------------
Init ==
  /\ sent = None
  /\ message = <<>>
  /\ cut = FALSE
  /\ expected = None
  /\ got = None
  /\ scope = Fill
  /\ learned = NoRelations
  /\ CacheInit

(* A program encodes some arguments; the message stays empty if the        *)
(* encoder throws.  Questions asked before make no difference, since       *)
(* decode empties the cache: messages are sent in runs that ask none.      *)
Send ==
  /\ sent = None /\ queries = 0
  /\ \E s \in Sources : sent' = s /\ message' = encode(s[1], s[2]).v
  /\ UNCHANGED <<cut, expected, got, scope, learned, cacheVars>>

(* The end of the message is lost on its way.                              *)
Lose ==
  /\ message # <<>> /\ got = None /\ ~cut
  /\ \E k \in 1..(Len(message) - 1) : message' = SubSeq(message, 1, k)
  /\ cut' = TRUE
  /\ UNCHANGED <<sent, expected, got, scope, learned, cacheVars>>

(* The receiver decodes it, at the types of the sender or at others of its *)
(* own; the cache is emptied when decode starts and when it ends.          *)
Decode ==
  /\ message # <<>> /\ got = None
  /\ \E types \in {sent[1]} \cup (IF cut THEN {} ELSE Expectations) :
       LET outcome == decode(types, message)
       IN  /\ expected' = types
           /\ got' = [ok |-> outcome.ok, v |-> outcome.v]
           /\ learned' = outcome.p.cache
           /\ scope' = outcome.p.defs
  /\ resetSubtypeCache
  /\ UNCHANGED <<sent, message, cut>>

(* The exported check, between messages.                                   *)
Question == sent = None /\ CacheNext /\ UNCHANGED messageVars

Next == Send \/ Lose \/ Decode \/ Question

Spec == Init /\ [][Next]_vars

-----------------------------------------------------------------------------
(* The reference definition: on the types reachable from a set of types,   *)
(* subtyping is the greatest relation that every pair of it can justify by *)
(* its premises.                                                           *)
RECURSIVE Reachable(_, _)
Reachable(defs, types) ==
  LET more == types \cup UNION {Components(t) : t \in types}
                    \cup {defs[t[2]] : t \in {u \in types : Kind(u) = "rec"}}
  IN  IF more = types THEN types ELSE Reachable(defs, more)

RECURSIVE Greatest(_, _)
Greatest(defs, R) ==
  LET justified == {p \in R : \/ name(p[1]) = name(p[2])
                              \/ LET rule == Premises(defs, p[1], p[2])
                                 IN  rule.holds /\ ToSet(rule.pairs) \subseteq R}
  IN  IF justified = R THEN R ELSE Greatest(defs, justified)

SubtypesAmong(defs, types) ==
  LET all == Reachable(defs, types) IN Greatest(defs, all \X all)
-----------------------------------------------------------------------------
(* A body of a recursive type that is also written out elsewhere: merge    *)
(* takes its entry out of the table although other entries refer to it, or *)
(* to those behind it.  encode throws then, or writes other types.         *)
BodyWrittenOut(types) ==
  LET reached == Reachable(Fill, ToSet(types))
      written == UNION {Components(t) : t \in ToSet(types)}
                   \cup UNION {Components(Fill[id]) \ {Fill[id]} : id \in DOMAIN Fill}
  IN  \E id \in DOMAIN Fill : Rec(id) \in reached /\ Fill[id] \in written

(* A message that arrived whole, with the types it was sent at in its      *)
(* table, has been decoded.                                                *)
Whole == sent # None /\ got # None /\ ~cut /\ ~BodyWrittenOut(sent[1])

(* What a type makes of a value it covers, by the definition of the types  *)
(* and not by their bytes: nothing is kept of a reserved, nor of what an   *)
(* object or an array has beyond the fields or components of the type.     *)
RECURSIVE Kept(_, _)
Kept(t, x) ==
  CASE Kind(t) = "reserved" -> NullValue
    [] Kind(t) \in {"vec", "opt"} -> Arr([i \in DOMAIN x[2] |-> Kept(t[2], x[2][i])])
    [] Kind(t) = "record" -> Obj([l \in Labels(t) |-> Kept(FieldType(t, l), x[2][l])])
    [] Kind(t) = "tuple" -> Arr([i \in DOMAIN t[2] |-> Kept(t[2][i][2], x[2][i])])
    [] Kind(t) = "variant" -> Obj([l \in DOMAIN x[2] |-> Kept(FieldType(t, l), x[2][l])])
    [] Kind(t) = "rec" -> Kept(Fill[t[2]], x)
    [] OTHER -> x

(* A variant in what is sent of a value has a key that is none of its      *)
(* alternatives: covariant accepts it, and encodeValue finds no data.      *)
RECURSIVE ForeignKey(_, _)
ForeignKey(t, x) ==
  CASE Kind(t) \in {"vec", "opt"} -> \E i \in DOMAIN x[2] : ForeignKey(t[2], x[2][i])
    [] Kind(t) = "record" -> \E l \in Labels(t) : ForeignKey(FieldType(t, l), x[2][l])
    [] Kind(t) = "tuple" -> \E i \in DOMAIN t[2] : ForeignKey(t[2][i][2], x[2][i])
    [] Kind(t) = "variant" ->
         \E l \in DOMAIN x[2] : l \notin Labels(t) \/ ForeignKey(FieldType(t, l), x[2][l])
    [] Kind(t) = "rec" -> ForeignKey(Fill[t[2]], x)
    [] OTHER -> FALSE

(* encode accepts the values that fit, but for those with a foreign key;   *)
(* and decode gives back at the same types what the types keep of them:    *)
(* the type table with its recursive types, the order of the fields and    *)
(* the bytes of the numbers are read as they were written.  Types in which *)
(* the body of a recursive type is written out a second time are left out: *)
(* see BodyWrittenOut.                                                     *)
RoundTrip ==
  (sent # None /\ Len(sent[1]) = Len(sent[2]) /\ ~BodyWrittenOut(sent[1]))
    => LET Fits(i) == covariant(sent[1][i], sent[2][i]) /\ ~ForeignKey(sent[1][i], sent[2][i])
       IN  /\ (message # <<>>) = (\A i \in DOMAIN sent[1] : Fits(i))
           /\ Whole /\ expected = sent[1] =>
                got.ok /\ got.v = [i \in DOMAIN sent[1] |-> Kept(sent[1][i], sent[2][i])]

(* A vector of fixed-width numbers is read as a block of the expected      *)
(* width: one of other elements gives other numbers, and what is read      *)
(* behind it starts at the wrong byte, without an error where the bytes    *)
(* happen to be readable.                                                  *)
FixedVec(t) == Kind(t) = "vec" /\ Kind(t[2]) \in {"fixednat", "fixedint"}
MayMisread(w, t) ==
  \E block \in Reachable(Fill, {t}), v \in Reachable(Fill, {w}) :
    FixedVec(block) /\ Kind(v) = "vec" /\ v # block

(* An argument decoded at the type it was sent at is the one that was      *)
(* sent, whatever happened to the arguments before it: options that were   *)
(* rolled back, fields and arguments that were skipped consume exactly     *)
(* their bytes; unless a block before it may have been misread.            *)
LaterArgumentsIntact ==
  Whole /\ got.ok =>
    \A i \in DOMAIN expected :
      /\ i \in DOMAIN sent[1] /\ expected[i] = sent[1][i]
      /\ \A j \in 1..(i - 1) : ~MayMisread(sent[1][j], expected[j])
      => got.v[i] = Kept(sent[1][i], sent[2][i])

(* Every value decode returns is one of the expected type, so that it can  *)
(* be encoded again, whatever type it had on the wire; and what it learned *)
(* about the references in the message, those of failed attempts of        *)
(* options included, is what the reference definition says of their types. *)
DecodedFits ==
  /\ got # None /\ got.ok => \A i \in DOMAIN expected : covariant(expected[i], got.v[i])
  /\ \A k \in DOMAIN learned : learned[k] = (k \in SubtypesAmong(scope, {k[1], k[2]}))

(* A message that lost its end is not taken for a shorter one.  A block of *)
(* bytes is read without a check of its length and can come out short.     *)
TruncatedRefused ==
  cut /\ got # None /\ (\A t \in Reachable(Fill, ToSet(expected)) : ~FixedVec(t)) => ~got.ok

(* The pairs of types decode compares when it decodes one at the other;    *)
(* references to functions and services are checked, not decoded.          *)
RECURSIVE Compared(_)
Compared(R) ==
  LET descends(p) == Kind(p[1]) \notin {"func", "service"}
      more == R \cup UNION {ToSet(Premises(Fill, p[1], p[2]).pairs) : p \in {q \in R : descends(q)}}
  IN  IF more = R THEN R ELSE Compared(more)

(* Where decode refuses a subtype: a nat at int, a compound value at an    *)
(* option of an omittable type, a tuple that lacks components, a record    *)
(* that lacks a field of type null.                                        *)
Refuses(w, t) ==
  \/ w = Nat_ /\ t = Int_
  \/ Kind(t) = "opt" /\ canBeOmitted(t[2]) /\ ~IsPrimitive(w) /\ Kind(w) # "opt"
  \/ Kind(t) = "tuple" /\ IsRecord(w) /\ (Kind(w) # "tuple" \/ Len(w[2]) < Len(t[2]))
  \/ /\ IsRecord(t) /\ IsRecord(w)
     /\ \E l \in Labels(t) : ~HasId(w, l) /\ FieldType(t, l) = Null

(* A value can be decoded at every supertype of the type it was sent at,   *)
(* except where Refuses says that the decoder is stricter than subtype.    *)
SupertypeDecodes ==
  Whole /\ Len(expected) <= Len(sent[1]) =>
    \/ got.ok
    \/ \E i \in DOMAIN expected :
         LET p == <<sent[1][i], expected[i]>>
         IN  \/ p \notin SubtypesAmong(Fill, {p[1], p[2]})
             \/ \E q \in Compared({p}) : Refuses(q[1], q[2])
=============================================================================
