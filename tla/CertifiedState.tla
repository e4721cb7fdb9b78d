--------------------------- MODULE CertifiedState ---------------------------
(***************************************************************************)
(* What a program relies on when it reads a verified certificate: its      *)
(* signature is one that a subnet gave for its state, and the answers of   *)
(* lookup_path are that state's.                                           *)
(***************************************************************************)
EXTENDS Certificate

CONSTANTS
  Height(_),           \* of a tree
  Trees,               \* the trees of certificates, and theirs
  States,              \* those that subnets sign, whole, and their subtrees
  TreeLabels,          \* the labels of trees and paths
  Paths,               \* the paths that are looked up, and their ends
  ComparedAlong(_, _), \* comparedAlong, which calls itself
  Assigned             \* the canisters each signing key may speak for

\* A tree has one of five forms.
ASSUME TreesAssumption ==
  \A t \in Trees :
    /\ Height(t) \in Nat
    /\ \/ t = Empty
       \/ t[1] = "Leaf" /\ t = Leaf(t[2])
       \/ t[1] = "Pruned" /\ t = Pruned(t[2])
       \/ /\ t[1] = "Labeled" /\ t = Labeled(t[2], t[3])
          /\ t[2] \in TreeLabels /\ t[3] \in Trees /\ Height(t[3]) < Height(t)
       \/ /\ t[1] = "Fork" /\ t = Fork(t[2], t[3])
          /\ t[2] \in Trees /\ t[3] \in Trees
          /\ Height(t[2]) < Height(t) /\ Height(t[3]) < Height(t)

ASSUME PathsAssumption ==
  /\ TreeLabels \subseteq Seq(Nat)
  /\ \A p \in Paths : p \in Seq(TreeLabels) /\ (p # <<>> => Tail(p) \in Paths)

\* The labels a tree shows at its top.
LabelsOf(t) == {n[2] : n \in {m \in NodesOf(t) : m[1] = "Labeled"}}

\* isBufferGreaterThan orders a label and those a tree shows at its top as a replica
\* does.  It compares the bytes at the same place, all of them, and finds <<1, 2>>
\* greater than <<2, 1>>.
Compared(label, t) ==
  \A b \in LabelsOf(t) :
    label # b => IF isBufferGreaterThan(label, b) THEN Before(b, label) ELSE Before(label, b)

\* It does so with each label of a path, where the path leads in a tree.
comparedAlong(path, t) ==
  path # <<>> =>
    /\ Compared(Head(path), t)
    /\ \A n \in NodesOf(t) :
         n[1] = "Labeled" /\ n[2] = Head(path) => ComparedAlong(Tail(path), n[3])

\* The functions are those of HashTree, and comparedAlong: each is its own body.
ASSUME CallsAssumption ==
  \A t \in Trees :
    /\ Reconstruct(t) = reconstruct(t)
    /\ NodesOf(t) = nodesOf(t)
    /\ \A l \in TreeLabels : FindLabel(l, t) = find_label(l, t)
    /\ \A p \in Paths :
         /\ LookupPath(p, t) = lookup_path(p, t)
         /\ LookupSubtree(p, t) = lookup_subtree(p, t)
         /\ SubtreesAt(p, t) = subtreesAt(p, t)
         /\ ComparedAlong(p, t) = comparedAlong(p, t)

\* A replica prunes nothing of the state it signs, and makes forks to hold labelled
\* trees together, in the order of their labels.
ASSUME StatesAssumption ==
  /\ States \subseteq Trees
  /\ \A w \in States :
       /\ w[1] # "Pruned"
       /\ w[1] = "Labeled" => w[3] \in States
       /\ w[1] = "Fork" =>
            /\ \A i \in {2, 3} : w[i] \in States /\ w[i][1] \in {"Labeled", "Fork"}
            /\ \A a \in LabelsOf(w[2]), b \in LabelsOf(w[3]) : Before(a, b)

\* The keys of the network sign states only.
SignsState(cert) ==
  /\ cert.tree \in Trees
  /\ cert.sig.key \in DOMAIN Assigned => cert.sig.hash \in States

\* The state of the root gives the key and the ranges of a subnet as the canisters
\* are assigned.
ASSUME NetworkAssumption ==
  /\ RootKey \in DOMAIN Assigned
  /\ \A o \in Options :
       /\ o.canister \in Assigned[RootKey]
       /\ SignsState(o.cert)
       /\ LET d == o.cert.delegation
          IN  d # None =>
                /\ SignsState(d.cert) /\ KeyPath(d.subnet) \in Paths /\ RangesPath(d.subnet) \in Paths
                /\ d.cert.sig.key = RootKey =>
                     \A k \in SubtreesAt(KeyPath(d.subnet), d.cert.sig.hash),
                        v \in SubtreesAt(RangesPath(d.subnet), d.cert.sig.hash) :
                       k[1] = "Leaf" /\ v[1] = "Leaf" =>
                         /\ k[2] \in DOMAIN Assigned
                         /\ \A r \in DecodeRanges(v[2]) :
                              r[1] <= o.canister /\ o.canister <= r[2] =>
                                o.canister \in Assigned[k[2]]

(***************************************************************************)
(* Properties                                                              *)
(***************************************************************************)

\* A certificate is accepted only with the signature of a key that speaks for
\* the canister it is read for: the root key, or the key of the subnet the
\* root's certificate assigns the canister to.
AcceptedForCanister ==
  pc = "accepted" =>
    LET key == options.cert.sig.key
    IN  key \in DOMAIN Assigned /\ options.canister \in Assigned[key]

\* What lookup_path and lookup_subtree find in a part of the tree whole is there.
FoundThere(path, part, whole) ==
  LET r     == LookupPath(path, part)
      s     == LookupSubtree(path, part)
      there == SubtreesAt(path, whole)
  IN  /\ r.status = "Found" => Leaf(r.value) \in there
      /\ s.status = "Found" => Reconstruct(s.value) \in there

\* Their other answers: Absent says there is none, and a value shown is found.
TellsTheWhole(path, part, whole) ==
  LET r     == LookupPath(path, part)
      s     == LookupSubtree(path, part)
      there == SubtreesAt(path, whole)
  IN  /\ FoundThere(path, part, whole)
      /\ r.status = "Absent" => there \subseteq {Empty}
      /\ r.status = "Error"  => \E t \in there : t[1] \in {"Labeled", "Fork"}
      /\ \A t \in SubtreesAt(path, part) : t[1] = "Leaf" => r = FoundValue(t[2])
      /\ s.status = "Absent" => there = {}

\* What lookup_path says of an accepted certificate holds in the tree that was
\* signed: the value, or that there is none, however the tree is laid out and
\* whatever parts of it are pruned; and what the certificate shows is found.
LookupsTellTheState ==
  pc = "accepted" =>
    \A p \in Paths : TellsTheWhole(p, options.cert.tree, options.cert.sig.hash)

\* What the code gives of that: a value it finds is that of the signed tree whatever
\* the labels, and the other answers hold for a path whose labels isBufferGreaterThan
\* orders right among those the certificate shows beside them.
LookupsTellWhereCompared ==
  pc = "accepted" =>
    \A p \in Paths :
      LET part == options.cert.tree
      IN  /\ FoundThere(p, part, options.cert.sig.hash)
          /\ ComparedAlong(p, part) => TellsTheWhole(p, part, options.cert.sig.hash)
=============================================================================
