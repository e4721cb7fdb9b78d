--------------------------- MODULE MCCertificate ---------------------------
(***************************************************************************)
(* The trees a subnet and the root sign, the parts of them a replica may   *)
(* show, and certificates made of these, in order and not.                 *)
(***************************************************************************)
EXTENDS CertifiedState

CONSTANTS root, subnetA, subnetB, rangesA, rangesB, undefined,
          Labels  \* of a file, of "time" and of a directory, in their order

\* The functions of the source that call themselves: what a call returns.
MCReconstruct(t)         == LET result == reconstruct(t) IN result
MCFindLabel(label, t)    == LET result == find_label(label, t) IN result
MCLookupPath(path, t)    == LET result == lookup_path(path, t) IN result
MCLookupSubtree(path, t) == LET result == lookup_subtree(path, t) IN result
MCNodesOf(t)             == LET result == nodesOf(t) IN result
MCSubtreesAt(path, t)    == LET result == subtreesAt(path, t) IN result

MCComparedAlong(path, t) == LET result == comparedAlong(path, t) IN result

\* The second label is found greater than the third one.
Mixed    == <<<<1>>, <<2, 2>>, <<3, 1>>>>
TwoBytes == <<<<1, 2>>, <<2, 1>>, <<3, 0>>>>

MCTimePath == <<Labels[2]>>

\* The parts of a tree, given those of its subtrees.
Parts(t, shown)     == {Pruned(t)} \union shown
LeafParts(v)        == Parts(Leaf(v), {Leaf(v)})
LabelParts(l, t, p) == Parts(Labeled(l, t), {Labeled(l, x) : x \in p})
ForkParts(t, u, p, q) == Parts(Fork(t, u), {Fork(x, y) : x \in p, y \in q})

\* A subnet's state: a file, the time, a directory with one file.
File      == Labeled(Labels[1], Leaf(7))
Time(t)   == Labeled(Labels[2], Leaf(t))
Inner     == Labeled(<<1>>, Leaf(8))
Directory == Labeled(Labels[3], Inner)
FileParts == LabelParts(Labels[1], Leaf(7), LeafParts(7))
TimeParts(t)   == LabelParts(Labels[2], Leaf(t), LeafParts(t))
DirectoryParts == LabelParts(Labels[3], Inner, LabelParts(<<1>>, Leaf(8), LeafParts(8)))

Right(t) == Fork(File, Fork(Time(t), Directory))
Left(t)  == Fork(Fork(File, Time(t)), Directory)
RightParts(t) ==
  ForkParts(File, Fork(Time(t), Directory), FileParts,
            ForkParts(Time(t), Directory, TimeParts(t), DirectoryParts))
LeftParts(t) ==
  ForkParts(Fork(File, Time(t)), Directory,
            ForkParts(File, Time(t), FileParts, TimeParts(t)), DirectoryParts)

\* The root's state: ["subnet", id, "canister_ranges" or "public_key"].
IdA == <<1>>
IdB == <<2>>
RangesOf(s)     == IF s = IdA THEN rangesA ELSE rangesB
MCDecodeRanges(v) == IF v = rangesA THEN {<<1, 2>>, <<5, 5>>} ELSE {<<3, 4>>}
MCRangesPath(s) == <<<<1>>, s, <<1>>>>
MCKeyPath(s)    == <<<<1>>, s, <<2>>>>
SubnetInfo(s, k) == Labeled(s, Fork(Labeled(<<1>>, Leaf(RangesOf(s))), Labeled(<<2>>, Leaf(k))))
RootTree(t) ==
  Fork(Labeled(<<1>>, Fork(SubnetInfo(IdA, subnetA), SubnetInfo(IdB, subnetB))), Time(t))

\* One subnet only, with its key or without.
OnlyA(t) ==
  Fork(Labeled(<<1>>, Fork(SubnetInfo(IdA, subnetA), Pruned(SubnetInfo(IdB, subnetB)))), Time(t))
KeylessA(t) ==
  Fork(Labeled(<<1>>,
         Fork(Labeled(IdA, Fork(Labeled(<<1>>, Leaf(RangesOf(IdA))),
                                Pruned(Labeled(<<2>>, Leaf(subnetA))))),
              Pruned(SubnetInfo(IdB, subnetB)))), Time(t))

MCAssigned == [k \in {root, subnetA, subnetB} |->
  CASE k = root -> 1..5 [] k = subnetA -> {1, 2, 5} [] OTHER -> {3, 4}]

Cert(tree, key, hash, delegation) ==
  [tree |-> tree, sig |-> [key |-> key, hash |-> hash], delegation |-> delegation]
Delegation(s, cert) == [subnet |-> s, cert |-> cert]
RootCert(t)         == Cert(RootTree(t), root, RootTree(t), undefined)
SubnetCert(t, key, d) == Cert(Right(t), key, Right(t), d)

Times  == 0..MaxTime
Recent == StartTime

\* Every part of a state, in both layouts.
Shown == {Cert(w, root, Right(Recent), undefined) : w \in RightParts(Recent)}
         \union {Cert(w, root, Left(Recent), undefined) : w \in LeftParts(Recent)}

\* Every age, of the certificate and of its delegation.
Aged == {SubnetCert(t, subnetA, Delegation(IdA, RootCert(d))) : t \in Times, d \in Times}

\* Another subnet's signature, another state's, a delegation of a delegation,
\* a delegation that shows one subnet only, with its key and without.
Odd ==
  {SubnetCert(Recent, subnetB, Delegation(IdA, RootCert(Recent))),
   SubnetCert(Recent, subnetB, Delegation(IdB, RootCert(Recent))),
   Cert(Right(Recent), root, Right(Recent - 1), undefined),
   SubnetCert(Recent, subnetA, Delegation(IdA,
     [RootCert(Recent) EXCEPT !.delegation = Delegation(IdB, RootCert(Recent))]))}
  \union {SubnetCert(Recent, subnetA, Delegation(IdA,
             Cert(w, root, RootTree(Recent), undefined))) :
             w \in {OnlyA(Recent), KeylessA(Recent)}}

Asks(certs, canisters, disabled) ==
  {[cert |-> c, canister |-> k, agent |-> a, disable |-> d] :
     c \in certs, k \in canisters, a \in BOOLEAN, d \in disabled}

MCOptions ==
  Asks(Shown, {4}, {FALSE}) \union Asks(Aged, {2}, {FALSE})
  \union Asks(Odd, {3, 5}, {FALSE})
  \union Asks({SubnetCert(0, subnetA, Delegation(IdA, RootCert(0)))}, {1, 4}, {TRUE})

\* Paths of a program, of certificates and delegations, with their ends.
MCPaths ==
  {<<>>} \union {<<l>> : l \in {Labels[1], Labels[2], Labels[3], <<0>>, <<1>>, <<2>>, <<4>>}}
  \union {<<Labels[n], <<1>>>> : n \in 1..3} \union {<<s, l>> : s, l \in {IdA, IdB}}
  \union {MCRangesPath(s) : s \in {IdA, IdB}} \union {MCKeyPath(s) : s \in {IdA, IdB}}

\* The states, the trees that certificates show, and what these consist of.
RECURSIVE Subtrees(_)
Subtrees(t) ==
  {t} \union CASE t[1] = "Labeled" -> Subtrees(t[3])
               [] t[1] = "Fork"    -> Subtrees(t[2]) \union Subtrees(t[3])
               [] OTHER            -> {}

MCStates == UNION {Subtrees(Right(t)) \union Subtrees(Left(t)) \union Subtrees(RootTree(t)) : t \in Times}
MCTrees ==
  MCStates \union UNION {Subtrees(o.cert.tree) : o \in MCOptions}
           \union UNION {Subtrees(o.cert.delegation.cert.tree) :
                            o \in {p \in MCOptions : p.cert.delegation # undefined}}
MCTreeLabels == {n[2] : n \in {t \in MCTrees : t[1] = "Labeled"}} \union UNION {{p[i] : i \in DOMAIN p} : p \in MCPaths}

\* How many nodes a branch of a tree has at most.
RECURSIVE MCHeight(_)
MCHeight(t) ==
  CASE t[1] = "Labeled" -> 1 + MCHeight(t[3])
    [] t[1] = "Fork"    -> 1 + IF MCHeight(t[2]) > MCHeight(t[3]) THEN MCHeight(t[2]) ELSE MCHeight(t[3])
    [] OTHER            -> 0

MCSkews == {-4, 0, 4}
=============================================================================
