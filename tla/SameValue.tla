------------------------------- MODULE SameValue -------------------------------
(***************************************************************************)
(* Whether a control took the value written to it (values.ts, sameValue):  *)
(* two JavaScript values that may contain cycles, share objects with each  *)
(* other and hold a budget of nodes between them are compared.             *)
(*                                                                         *)
(* The heap maps objects to a kind, which is their prototype, and their    *)
(* items: properties, or numbered entries where order matters.  Functions, *)
(* symbols and primitives are values with an identity and nothing else.    *)
(***************************************************************************)
EXTENDS Integers, Sequences, FiniteSets, SequencesExt, TLC

CONSTANTS
  Objects,    \* the objects of the heap
  Heaps,      \* what the heap may be
  Pairs,      \* the objects that are compared
  MaxDepth,   \* stands for 100
  MaxNodes    \* stands for 50000

\* What the constants satisfy.
SameValueAssumption == MaxDepth \in Nat /\ MaxNodes \in Nat

VARIABLES
  heap,      \* [Objects -> [kind, items]]
  compared,  \* the two values
  verdict    \* what sameValue says of them

vars == <<heap, compared, verdict>>

\* Instances of a class and elements are compared by identity.
Structural == {"object", "array"}

-----------------------------------------------------------------------------

Fail(context) == [context EXCEPT !.same = FALSE]

\* Whether an object was met before on either side.
Met(context, l, r) == l \in DOMAIN context.left \/ r \in DOMAIN context.right

\* Mutant: objects met before count as the same, whatever they were met with.
MetTogether_either(context, l, r) == TRUE

\* Whether they were met with each other.
MetTogether(context, l, r) ==
  /\ l \in DOMAIN context.left /\ context.left[l] = r
  /\ r \in DOMAIN context.right /\ context.right[r] = l

Paired(context, l, r) ==
  [context EXCEPT !.left = l :> r @@ @, !.right = r :> l @@ @]

RECURSIVE Compare(_, _, _, _)
Compare(left, right, before, depth) ==
  LET context == [before EXCEPT !.nodes = @ + 1]
      paired == Paired(context, left, right)
      l == heap[left]
      r == heap[right]
          Item(c, k) == IF c.same THEN Compare(l.items[k], r.items[k], c, depth + 1) ELSE c
  IN IF depth >= MaxDepth \/ before.nodes >= MaxNodes THEN Fail(before)
     ELSE IF ~({left, right} \subseteq Objects)
          THEN IF left = right THEN context ELSE Fail(context)
     ELSE IF Met(context, left, right)
          THEN IF MetTogether(context, left, right) THEN context ELSE Fail(context)
     ELSE IF left = right THEN paired
     ELSE IF l.kind # r.kind \/ l.kind \notin Structural \/ DOMAIN l.items # DOMAIN r.items
          THEN Fail(paired)
     ELSE FoldLeft(Item, paired, SetToSeq(DOMAIN l.items))

Same(left, right) ==
  Compare(left, right, [left |-> <<>>, right |-> <<>>, nodes |-> 0, same |-> TRUE], 0).same

-----------------------------------------------------------------------------

Init ==
  /\ heap \in Heaps
  /\ compared \in Pairs
  /\ verdict = "unknown"

Decide ==
  /\ verdict = "unknown"
  /\ verdict' = IF Same(compared[1], compared[2]) THEN "same" ELSE "different"
  /\ UNCHANGED <<heap, compared>>

Next == Decide

Spec == Init /\ [][Next]_vars

-----------------------------------------------------------------------------
(* Properties *)

Alike(p) ==
  \/ p[1] = p[2]
  \/ /\ {p[1], p[2]} \subseteq Objects
     /\ heap[p[1]].kind = heap[p[2]].kind /\ heap[p[1]].kind \in Structural
     /\ DOMAIN heap[p[1]].items = DOMAIN heap[p[2]].items

Items(p) ==
  IF {p[1], p[2]} \subseteq Objects
  THEN {<<heap[p[1]].items[k], heap[p[2]].items[k]>> :
          k \in DOMAIN heap[p[1]].items \cap DOMAIN heap[p[2]].items}
  ELSE {}

\* What is read from two values along equal names, step by step.
RECURSIVE Reads(_)
Reads(pairs) ==
  LET more == pairs \cup UNION {Items(p) : p \in pairs}
  IN IF more = pairs THEN pairs ELSE Reads(more)

\* The same, but an object that both values hold is not looked into.
RECURSIVE ReadsApart(_)
ReadsApart(pairs) ==
  LET more == pairs \cup UNION {Items(p) : p \in {q \in pairs : q[1] # q[2]}}
  IN IF more = pairs THEN pairs ELSE ReadsApart(more)

\* No object was read together with two others.
OneToOne(pairs) ==
  \A p, q \in pairs : {p[1], q[1]} \subseteq Objects => (p[1] = q[1]) = (p[2] = q[2])

\* No sequence of reads tells the two values apart.
SameContents(l, r) == \A p \in Reads({<<l, r>>}) : Alike(p)

\* Nor does comparing what different reads return.
SameTopology(l, r) == SameContents(l, r) /\ OneToOne(Reads({<<l, r>>}))

\* What sameValue is to decide: no read tells the two apart, nor does comparing what
\* different reads return, except for reads inside an object that both hold.
Matches(l, r) ==
  LET pairs == ReadsApart({<<l, r>>}) IN (\A p \in pairs : Alike(p)) /\ OneToOne(pairs)

Work(l, r) == 1 + FoldSet(LAMBDA p, n : n + Cardinality(DOMAIN heap[p[1]].items), 0,
                          {p \in Reads({<<l, r>>}) : p[1] \in Objects})

FitsBudget(l, r) == Work(l, r) <= MaxNodes /\ Cardinality(Objects) < MaxDepth

\* Values are called the same only if they match, so that a control that reads back
\* something else than was written to it is never taken to have it (views.ts:56, 60).
\* Matching depends on no order, and neither does the verdict: [shared, shared] and two
\* copies of one object differ, though every read agrees (values.test.ts:92).
SameMeansMatching ==
  verdict = "same" => Matches(compared[1], compared[2]) /\ SameContents(compared[1], compared[2])

\* Values that match are called different only for want of budget; among them are all
\* copies, cycles and shared objects included.
DifferentMeansMismatch ==
  verdict = "different" /\ FitsBudget(compared[1], compared[2])
  => ~Matches(compared[1], compared[2]) /\ ~SameTopology(compared[1], compared[2])

\* "compares cyclic data and preserves reference topology"
\* (packages/runtime/tests/values.test.ts:82): no comparison of what is read tells apart
\* what is called the same, inside objects that both values hold neither.
TopologyIsPreserved == verdict = "same" => SameTopology(compared[1], compared[2])
=============================================================================
