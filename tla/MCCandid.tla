------------------------------- MODULE MCCandid -------------------------------
(* A program with recursive types, a list and a callback among them, and   *)
(* the messages two versions of its interface exchange.                    *)
EXTENDS Candid

MCMaxId == 9
MCIdlHash == ("a" :> 5) @@ ("b" :> 2) @@ ("c" :> 3)

List == Rec(1)
Callback == Rec(2)
Body == Opt(Record(("a" :> Nat_) @@ ("b" :> List)))
Call(args, rets) == Func(args, rets, <<"query">>)
MCFill == (1 :> Body)
       @@ (2 :> Record("c" :> Opt(Call(<<Callback>>, <<List>>))))
       @@ (3 :> Opt(Record(("a" :> Int_) @@ ("b" :> Rec(3)))))
       @@ (4 :> Opt(Nat_))

(* Read one byte too late it is a shorter text.                             *)
Word == <<"text", <<1, 104>>>>
Self == <<"principal", <<4, 4>>>>
Ref == Arr(<<Self, <<"text", <<109>>>>>>)
Get == <<103>>
Put == <<112>>
Cell(n, rest) == Arr(<<Obj(("a" :> Num(n)) @@ ("b" :> rest))>>)
Choice == Variant(("a" :> Nat_) @@ ("b" :> Null))
Wide == Variant(("a" :> Nat_) @@ ("b" :> Null) @@ ("c" :> Text))

(* Types with values to send at them.                                      *)
Values == {
  <<Nat_, Num(0)>>, <<Nat_, Num(127)>>, <<Nat_, Num(128)>>, <<Nat_, Num(20000)>>,
  <<Int_, Num(-1)>>, <<Int_, Num(63)>>, <<Int_, Num(64)>>, <<Int_, Num(-64)>>,
  <<Int_, Num(-65)>>, <<Int_, Num(-8193)>>, <<Nat_, Num(-1)>>,
  <<FixedInt(16), Num(-256)>>, <<FixedInt(16), Num(-257)>>, <<FixedNat(16), Num(65535)>>,
  <<FixedInt(8), Num(-128)>>, <<FixedNat(8), Num(256)>>,
  <<Bool, <<"bool", TRUE>>>>, <<Null, NullValue>>, <<Reserved, NullValue>>, <<Reserved, Word>>,
  <<Principal, Self>>,
  <<Vec(FixedNat(8)), Arr(<<Num(0), Num(255)>>)>>,
  <<Vec(FixedInt(16)), Arr(<<Num(-2), Num(1)>>)>>, <<Vec(FixedInt(16)), Arr(<<Num(768)>>)>>,
  <<Vec(Text), Arr(<<Word, Word>>)>>, <<Vec(Null), Arr(<<NullValue, NullValue>>)>>,
  <<Opt(Nat_), Arr(<<>>)>>, <<Opt(Nat_), Arr(<<Num(7)>>)>>,
  <<Opt(Opt(Text)), Arr(<<Arr(<<Word>>)>>)>>,
  <<Record(("a" :> Nat_) @@ ("b" :> Text)), Obj(("a" :> Num(3)) @@ ("b" :> Word))>>,
  <<Record(("a" :> Nat_) @@ ("b" :> Text) @@ ("c" :> Opt(Bool))),
    Obj(("a" :> Num(3)) @@ ("b" :> Word) @@ ("c" :> Arr(<<<<"bool", FALSE>>>>)))>>,
  <<Tuple(<<Nat_, Text>>), Arr(<<Num(1), Word>>)>>,
  <<Vec(Tuple(<<Nat_, Reserved>>)), Arr(<<Arr(<<Num(1), Word, NullValue>>)>>)>>,
  <<Record("a" :> Nat_), Obj(("a" :> Num(3)) @@ ("b" :> Word))>>, <<Record(<<>>), NullValue>>,
  <<Opt(Choice), Arr(<<Obj("c" :> NullValue)>>)>>,
  <<Tuple(<<Nat_, Text, Null>>), Arr(<<Num(1), Word, NullValue>>)>>,
  <<Opt(Record(("a" :> Nat_) @@ ("b" :> Nat_))), Arr(<<Obj(("a" :> Num(3)) @@ ("b" :> Num(4)))>>)>>,
  <<Choice, Obj("b" :> NullValue)>>, <<Choice, Obj("a" :> Num(9))>>,
  <<Wide, Obj("c" :> Word)>>, <<Wide, Obj("a" :> Num(9))>>,
  <<Tuple(<<Opt(Nat_), Rec(4)>>), Arr(<<Arr(<<Num(1)>>), Arr(<<>>)>>)>>,
  <<Tuple(<<Vec(Opt(Nat_)), Vec(Text), Rec(4)>>), 
    Arr(<<Arr(<<Arr(<<Num(1)>>)>>), Arr(<<>>), Arr(<<>>)>>)>>,
  <<Rec(4), Arr(<<Num(5)>>)>>,
  <<List, Cell(1, Cell(2, Arr(<<>>)))>>,
  <<Rec(3), Cell(-1, Arr(<<>>))>>,
  <<Callback, Obj("c" :> Arr(<<Ref>>))>>,
  <<Call(<<Nat_>>, <<Int_>>), Ref>>, <<Opt(Call(<<List>>, <<>>)), Arr(<<Ref>>)>>,
  <<Vec(Opt(Call(<<List>>, <<>>))), Arr(<<Arr(<<Ref>>), Arr(<<Ref>>)>>)>>,
  <<Service(<<<<Get, Call(<<>>, <<Nat_>>)>>, <<Put, Call(<<List>>, <<>>)>>>>), Self>> }

MCSources == {<<<<v[1], Text>>, <<v[2], Word>>>> : v \in Values}

(* The types the other version of the interface has.                       *)
Receiver == {
  Int_, Nat_, Text, Reserved, Opt(Nat_), Opt(Int_), Opt(Opt(Nat_)), Opt(Bool), Opt(Text),
  Vec(Nat_), Vec(Text), Vec(Reserved), Vec(FixedNat(8)),
  Record("a" :> Nat_), Record(("a" :> Int_) @@ ("b" :> Reserved)),
  Record(("b" :> Text) @@ ("c" :> Opt(Text))), Record("c" :> Opt(Nat_)),
  Tuple(<<Nat_>>), Tuple(<<Nat_, Opt(Bool)>>), Tuple(<<Nat_, Text, Opt(Nat_)>>),
  Choice, Wide, Opt(Choice), List, Rec(3), Opt(Record("a" :> Text)),
  Opt(Record(("a" :> Text) @@ ("b" :> Nat_))), Callback,
  Call(<<Nat_>>, <<Int_>>), Call(<<FixedNat(8)>>, <<>>), Call(<<Rec(3)>>, <<>>), Opt(Call(<<Rec(3)>>, <<>>)),
  Vec(Opt(Call(<<Rec(3)>>, <<>>))), Vec(Opt(Call(<<List>>, <<>>))),
  Service(<<<<Get, Call(<<>>, <<Int_>>)>>>>), Service(<<<<Put, Call(<<Rec(3)>>, <<>>)>>>>) }

MCExpectations == {<<t>> : t \in Receiver} \cup {<<t, Text>> : t \in Receiver}

(* What the name getter returns.                                            *)
MCName(t) == LET result == name(t) IN result

Asked == {List, Rec(3), Callback, Body, Record("a" :> List), Record("a" :> Rec(3)),
          Tuple(<<List>>), Record("_0_" :> List), Call(<<Rec(3)>>, <<Nat_>>), Call(<<List>>, <<Int_>>)}

MCQueries == {p \in Asked \X Asked : p[1] # p[2]}
MCTypes == Reachable(Fill, Asked)

(* Pairs are taken out in rounds, those first that fail at once; the rank   *)
(* of a pair is the round that took it out.                                 *)
RECURSIVE Ranks(_, _, _)
Ranks(R, ranks, n) ==
  LET kept == {p \in R : Justified(p, R)}
  IN  IF kept = R THEN ranks ELSE Ranks(kept, [p \in R \ kept |-> n] @@ ranks, n + 1)

MCRank == Ranks(MCTypes \X MCTypes, <<>>, 0)
MCSubtypes == (MCTypes \X MCTypes) \ DOMAIN MCRank
=============================================================================
