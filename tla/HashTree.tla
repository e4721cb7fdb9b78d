------------------------------ MODULE HashTree ------------------------------
(***************************************************************************)
(* Hash trees of the IC and the lookup of a path in them                   *)
(* (packages/agent/src/certificate.ts).  A tree is                         *)
(*   <<"Empty">>, <<"Fork", left, right>>, <<"Labeled", label, tree>>,     *)
(*   <<"Leaf", value>> or <<"Pruned", hash>>;                              *)
(* a label is a sequence of bytes.  SHA-256 is taken to be injective: the  *)
(* hash of a tree is the tree with its pruned parts filled in.             *)
(*                                                                         *)
(* A function of the source that calls itself is given by its body; the    *)
(* calls it makes go to a constant, which stands for the function.         *)
(***************************************************************************)
EXTENDS Naturals, Sequences, FiniteSets

CONSTANTS
  Reconstruct(_),      \* reconstruct
  FindLabel(_, _),     \* find_label
  LookupPath(_, _),    \* lookup_path
  LookupSubtree(_, _), \* lookup_subtree
  NodesOf(_),          \* nodesOf
  SubtreesAt(_, _)     \* subtreesAt

Empty             == <<"Empty">>
Fork(left, right) == <<"Fork", left, right>>
Labeled(label, t) == <<"Labeled", label, t>>
Leaf(value)       == <<"Leaf", value>>
Pruned(hash)      == <<"Pruned", hash>>

reconstruct(t) ==
  CASE t[1] = "Pruned"  -> t[2]
    [] t[1] = "Labeled" -> Labeled(t[2], Reconstruct(t[3]))
    [] t[1] = "Fork"    -> Fork(Reconstruct(t[2]), Reconstruct(t[3]))
    [] OTHER            -> t

\* Bytes at the same place are compared, all of them; what is beyond the end
\* of b is undefined and greater than nothing.
isBufferGreaterThan(a, b) == \E i \in 1..Len(a) : i <= Len(b) /\ a[i] > b[i]

Status(s)      == [status |-> s]
FoundValue(v)  == [status |-> "Found", value |-> v]

\* find_label of a labelled node.
CompareLabel(label, node) ==
  IF isBufferGreaterThan(label, node[2]) THEN Status("Greater")
  ELSE IF label = node[2] THEN FoundValue(node[3]) ELSE Status("Less")

\* Mutant: an uncertain left side is taken for a smaller one.
SearchRightCertain(left, right) ==
  IF right.status # "Less" THEN right ELSE Status("Absent")

\* find_label of a fork whose left side did not decide.
SearchRight(left, right) ==
  IF right.status # "Less" THEN right
  ELSE Status(IF left.status = "Greater" THEN "Absent" ELSE "Unknown")

find_label(label, t) ==
  CASE t[1] = "Labeled" -> CompareLabel(label, t)
    [] t[1] = "Pruned"  -> Status("Unknown")
    [] t[1] = "Fork"    ->
         LET left == FindLabel(label, t[2])
         IN  IF left.status \in {"Greater", "Unknown"}
             THEN SearchRight(left, FindLabel(label, t[3]))
             ELSE left
    [] OTHER            -> Status("Absent")

\* lookup_path of the empty path.  A value is an array of its own as it was decoded, with
\* offset 0 in its buffer: the slice that starts at its offset is the whole of it.
Here(t) ==
  CASE t[1] = "Leaf"   -> FoundValue(t[2])
    [] t[1] = "Empty"  -> Status("Absent")
    [] t[1] = "Pruned" -> Status("Unknown")
    [] OTHER           -> Status("Error")

lookup_path(path, t) ==
  IF path = <<>> THEN Here(t)
  ELSE LET r == FindLabel(Head(path), t)
       IN  CASE r.status = "Found"   -> LookupPath(Tail(path), r.value)
             [] r.status = "Unknown" -> Status("Unknown")
             [] OTHER                -> Status("Absent")

lookup_subtree(path, t) ==
  IF path = <<>> THEN FoundValue(t)
  ELSE LET r == FindLabel(Head(path), t)
       IN  CASE r.status = "Found"   -> LookupSubtree(Tail(path), r.value)
             [] r.status = "Unknown" -> Status("Unknown")
             [] OTHER                -> Status("Absent")

(***************************************************************************)
(* What a lookup is for: a replica shows a part of its tree, and what is   *)
(* found in the part holds in the whole.                                   *)
(***************************************************************************)

\* The trees that forks hold together.
nodesOf(t) == IF t[1] = "Fork" THEN NodesOf(t[2]) \union NodesOf(t[3]) ELSE {t}

\* The subtrees at a path, as far as the tree shows them.
subtreesAt(path, t) ==
  IF path = <<>> THEN {t}
  ELSE UNION {SubtreesAt(Tail(path), n[3]) :
                n \in {m \in NodesOf(t) : m[1] = "Labeled" /\ m[2] = Head(path)}}

\* The order in which a replica sorts the labels of a tree.
Before(a, b) ==
  \E i \in 1..Len(b) :
    /\ \A j \in 1..(i - 1) : j <= Len(a) /\ a[j] = b[j]
    /\ i <= Len(a) => a[i] < b[i]
=============================================================================
