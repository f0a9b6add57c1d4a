------------------------------ MODULE WireValues ------------------------------
(***************************************************************************)
(* How values cross between Python and the browser: what a cell produced,  *)
(* on its way to Python and to the other views (toWireValue,               *)
(* deserialize_value, isWritableSyncedViewValue, reviveSyncedValue), and   *)
(* Python's variables on their way to cells (serialize_value,              *)
(* revivePythonValue).                                                     *)
(*                                                                         *)
(* A JavaScript value is a leaf or a container with children; a container  *)
(* met for the second time is `again', by the number a traversal gives it. *)
(* Leaves of one tag behave alike: an element, a function and an error are *)
(* one leaf.  One counter stands for the wire's budgets of nodes and of    *)
(* bytes: what has a long text costs its length in addition.               *)
(***************************************************************************)
EXTENDS Integers, Sequences, FiniteSets, SequencesExt, Functions, TLC

CONSTANTS
  JsValues,   \* what cells produce
  PyValues,   \* what Python sets variables to
  Budgets,    \* what may be left of the budget when a value's turn comes
  MaxDepth,   \* MAX_WIRE_DEPTH
  Long        \* the length of a long text

\* What the constants satisfy.
WireAssumption == Budgets \subseteq Nat /\ MaxDepth \in Nat /\ Long \in Nat

VARIABLES
  value,    \* the value that travels, and where it starts
  wire,     \* its encoding, with what encoding it left of the budget
  arrived   \* what the other side made of it

vars == <<value, wire, arrived>>

TypeKey == "__observablejs_type__"

-----------------------------------------------------------------------------
(* Values.  A leaf's tag is "plain" when JSON can hold it. *)

Leaf(tag, text) == [is |-> "leaf", tag |-> tag, text |-> text]
Again(n) == [is |-> "again", number |-> n]
Getter == [is |-> "getter"]
Container(kind, items) == [is |-> kind, items |-> items]
Object(keys, items) == [is |-> "object", keys |-> keys, items |-> items]

\* JSON
Scalar(text) == [json |-> "scalar", text |-> text]
List(items) == [json |-> "list", items |-> items]
Record(fields) == [json |-> "record", fields |-> fields]
Tagged(tag, w) == Record(TypeKey :> Scalar(tag) @@ "value" :> w)

Fields(keys, items, Keep(_)) ==
  [k \in {keys[i] : i \in {j \in DOMAIN keys : Keep(items[j])}} |->
     items[CHOOSE i \in DOMAIN keys : keys[i] = k /\ Keep(items[i])]]

-----------------------------------------------------------------------------
(* From the browser (packages/protocol/src/values.ts) *)

Cost(leaf) == IF leaf.text = "long" THEN Long ELSE 0

\* Running out of budget or of depth throws; what follows no longer matters.
Consume(context, n) == [context EXCEPT !.left = @ - n]
Exhausted(context) == [context EXCEPT !.left = -1]

\* A plain object that has the tag's own name is wrapped, so that it is not
\* taken for a tagged value.
Wrapped_never(fields) == Record(fields)
Wrapped(fields) ==
  IF TypeKey \in DOMAIN fields THEN Tagged("object", Record(fields)) ELSE Record(fields)

Pairs(items) == [i \in 1..Len(items) \div 2 |-> List(<<items[2 * i - 1], items[2 * i]>>)]

Overhead(v) ==
  CASE v.is \in {"set", "map"} -> 2
    [] v.is = "object" -> IF \E i \in DOMAIN v.keys : v.keys[i] = TypeKey /\ v.items[i] # Getter
                          THEN 2 ELSE 0
    [] OTHER -> 0

Assembled(v, items) ==
  CASE v.is = "array" -> List(items)
    [] v.is = "set" -> Tagged("set", List(items))
    [] v.is = "map" -> Tagged("map", List(Pairs(items)))
    [] OTHER -> Wrapped(Fields(v.keys, items, LAMBDA w : w # Getter))

LeafWire(v) ==
  CASE v.tag = "plain" -> Scalar(v.text)
    [] v.tag = "undefined" -> Record(TypeKey :> Scalar("undefined"))
    [] OTHER -> Tagged(v.tag, Scalar(v.text))

Entries(v) == IF v.tag = "plain" THEN 0 ELSE IF v.tag = "undefined" THEN 1 ELSE 2

RECURSIVE ToWireValueNode(_, _, _)
ToWireValueNode(v, context, depth) ==
  LET here == IF depth >= MaxDepth THEN Exhausted(context) ELSE Consume(context, 1)
      Child(c, item) ==
        IF v.is # "object" THEN ToWireValueNode(item, c, depth + 1)
        ELSE IF item = Getter THEN [Consume(c, 1) EXCEPT !.wire = Getter]
        ELSE ToWireValueNode(item, Consume(c, 1), depth + 1)
      all == FoldLeft(LAMBDA c, item : LET d == Child(c, item)
                                       IN [d EXCEPT !.items = Append(c.items, d.wire)],
                      [here EXCEPT !.items = <<>>], v.items)
  IN CASE v.is = "leaf" -> [Consume(here, Entries(v) + Cost(v)) EXCEPT !.wire = LeafWire(v)]
       [] v.is = "again" ->
            [Consume(here, 2) EXCEPT !.wire = Tagged("reference", Scalar(ToString(v.number)))]
       [] OTHER ->
            IF Len(v.items) > here.left /\ v.is # "object"
            THEN Exhausted([here EXCEPT !.wire = List(<<>>)])
            ELSE [Consume(all, Overhead(v)) EXCEPT !.wire = Assembled(v, all.items),
                                                   !.items = context.items]

Summary == Tagged("summary", Scalar("what it is"))

\* A value that does not fit is summarized, and the budget pays for the summary.
Summarized(available) == [left |-> available - 3, wire |-> Summary]

ToWireValue(v, available) ==
  LET c == ToWireValueNode(v, [left |-> available, wire |-> List(<<>>), items |-> <<>>], 0)
  IN IF c.left < 0 THEN Summarized(available) ELSE [left |-> c.left, wire |-> c.wire]

Tag(w) == IF w.json = "record" /\ TypeKey \in DOMAIN w.fields THEN w.fields[TypeKey] ELSE Scalar("none")
IsTag(w, tags) == w.json = "record" /\ Tag(w) \in {Scalar(t) : t \in tags}
Inner(w) == IF w.json = "record" /\ "value" \in DOMAIN w.fields THEN w.fields["value"] ELSE Scalar("none")

\* Whether another view can be given the value.
RECURSIVE Writable(_)
Writable(w) ==
  CASE w.json = "scalar" -> TRUE
    [] w.json = "list" -> \A i \in DOMAIN w.items : Writable(w.items[i])
    [] Tag(w) = Scalar("none") -> \A k \in DOMAIN w.fields : Writable(w.fields[k])
    [] IsTag(w, {"number", "bigint", "datetime"}) -> TRUE
    [] IsTag(w, {"object"}) -> Writable(Inner(w))
    [] IsTag(w, {"map", "set"}) ->
         Inner(w).json = "list" /\ \A i \in DOMAIN Inner(w).items : Writable(Inner(w).items[i])
    [] OTHER -> FALSE
Keyed(f) == LET keys == SetToSeq(DOMAIN f) IN Object(keys, [i \in DOMAIN keys |-> f[keys[i]]])

RECURSIVE ReviveSyncedValue(_)
ReviveSyncedValue(w) ==
  LET Each(s) == [i \in DOMAIN s |-> ReviveSyncedValue(s[i])]
      Plain(r) == Keyed([k \in DOMAIN r.fields |-> ReviveSyncedValue(r.fields[k])])
      listed == Inner(w).json = "list"
  IN CASE w.json = "scalar" -> Leaf("plain", w.text)
       [] w.json = "list" -> Container("array", Each(w.items))
       [] IsTag(w, {"undefined"}) -> Leaf("undefined", "")
       [] IsTag(w, {"number", "bigint", "datetime"}) -> Leaf(Tag(w).text, Inner(w).text)
       [] IsTag(w, {"object"}) ->
            IF Inner(w).json = "record" THEN Plain(Inner(w)) ELSE ReviveSyncedValue(Inner(w))
       [] IsTag(w, {"map"}) /\ listed ->
            Container("map", FlattenSeq([i \in DOMAIN Inner(w).items |-> Each(Inner(w).items[i].items)]))
       [] IsTag(w, {"set"}) /\ listed -> Container("set", Each(Inner(w).items))
       [] OTHER -> Plain(w)

-----------------------------------------------------------------------------
(* In Python (_variables.py) *)

PyLeaf(tag, text) == [py |-> "leaf", tag |-> tag, text |-> text]
PyList(items) == [py |-> "list", items |-> items]
PyTuple(items) == [py |-> "tuple", items |-> items]
PyDict(fields) == [py |-> "dict", fields |-> fields]
Unreadable == [py |-> "ValueError"]

\* int() takes 4300 digits; a datetime that Python cannot hold stays a text.
RECURSIVE DeserializeValue(_)
DeserializeValue(w) ==
  LET Each(s) == [i \in DOMAIN s |-> DeserializeValue(s[i])]
      Dict(r) == PyDict([k \in DOMAIN r.fields |-> DeserializeValue(r.fields[k])])
      listed == Inner(w).json = "list"
  IN CASE w.json = "scalar" -> PyLeaf("plain", w.text)
       [] w.json = "list" -> PyList(Each(w.items))
       [] Tag(w) = Scalar("none") -> Dict(w)
       [] IsTag(w, {"undefined"}) -> PyLeaf("plain", "null")
       [] IsTag(w, {"bigint"}) ->
            IF Inner(w).text = "long" THEN Unreadable ELSE PyLeaf("bigint", Inner(w).text)
       [] IsTag(w, {"bytes", "arraybuffer"}) -> PyLeaf("bytes", Inner(w).text)
       [] IsTag(w, {"number", "datetime", "function", "summary", "reference"}) ->
            PyLeaf(Tag(w).text, Inner(w).text)
       [] IsTag(w, {"object"}) ->
            IF Inner(w).json = "record" THEN Dict(Inner(w)) ELSE DeserializeValue(Inner(w))
       [] IsTag(w, {"map"}) /\ listed ->
            PyList([i \in DOMAIN Inner(w).items |-> PyTuple(Each(Inner(w).items[i].items))])
       [] IsTag(w, {"set"}) /\ listed -> PyList(Each(Inner(w).items))
       [] OTHER -> Dict(w)

\* A mapping that has the tag's own name is wrapped.
PyWrapped(fields) ==
  IF TypeKey \in DOMAIN fields THEN Tagged("object", Record(fields)) ELSE Record(fields)

RECURSIVE SerializeValue(_)
SerializeValue(p) ==
  LET Each(s) == [i \in DOMAIN s |-> SerializeValue(s[i])]
  IN CASE p.py = "leaf" -> LeafWire(p)
       [] p.py = "dict" -> PyWrapped([k \in DOMAIN p.fields |-> SerializeValue(p.fields[k])])
       [] OTHER -> List(Each(p.items))

RECURSIVE RevivePythonValue(_)
RevivePythonValue(w) ==
  LET Plain(r) == Keyed([k \in DOMAIN r.fields |-> RevivePythonValue(r.fields[k])])
  IN CASE w.json = "scalar" -> Leaf("plain", w.text)
       [] w.json = "list" -> Container("array", [i \in DOMAIN w.items |-> RevivePythonValue(w.items[i])])
       [] IsTag(w, {"datetime", "bytes", "number", "bigint"}) -> Leaf(Tag(w).text, Inner(w).text)
       [] IsTag(w, {"object"}) ->
            IF Inner(w).json = "record" THEN Plain(Inner(w)) ELSE RevivePythonValue(Inner(w))
       [] OTHER -> Plain(w)

-----------------------------------------------------------------------------

None == [is |-> "nothing"]

Init ==
  /\ \/ \E v \in JsValues : value = [from |-> "browser", it |-> v]
     \/ \E p \in PyValues : value = [from |-> "Python", it |-> p]
  /\ wire = None
  /\ arrived = None

\* A cell's value is encoded when what came before it left this much.
EncodeCellValue ==
  /\ value.from = "browser" /\ wire = None
  /\ \E available \in Budgets :
       wire' = [available |-> available, got |-> ToWireValue(value.it, available)]
  /\ UNCHANGED <<value, arrived>>

Received ==
  /\ value.from = "browser" /\ wire # None /\ arrived = None
  /\ arrived' = [python |-> DeserializeValue(wire.got.wire),
                 views |-> IF Writable(wire.got.wire)
                           THEN ReviveSyncedValue(wire.got.wire) ELSE None]
  /\ UNCHANGED <<value, wire>>

SetVariable ==
  /\ value.from = "Python" /\ wire = None
  /\ wire' = [available |-> 0, got |-> [left |-> 0, wire |-> SerializeValue(value.it)]]
  /\ UNCHANGED <<value, arrived>>

\* The cells' variable, and notebook.variables.
VariableArrives ==
  /\ value.from = "Python" /\ wire # None /\ arrived = None
  /\ arrived' = [python |-> DeserializeValue(wire.got.wire),
                 views |-> RevivePythonValue(wire.got.wire)]
  /\ UNCHANGED <<value, wire>>

Next == EncodeCellValue \/ Received \/ SetVariable \/ VariableArrives

Spec == Init /\ [][Next]_vars

-----------------------------------------------------------------------------
(* Properties *)

RECURSIVE Size(_)
Size(w) ==
  LET Total(s) == FoldLeft(LAMBDA n, item : n + Size(item), 1, s)
  IN CASE w.json = "scalar" -> 1
       [] w.json = "list" -> Total(w.items)
       [] OTHER -> LET keys == SetToSeq(DOMAIN w.fields)
                   IN Total([i \in DOMAIN keys |-> w.fields[keys[i]]])

\* A value that is not a summary fits into what was left, and however deep or wide
\* it is the wire never carries more than half as much again as it paid for (the
\* pairs of a map are free).
PaysForWhatItSends ==
  wire # None /\ value.from = "browser" =>
    /\ 2 * Size(wire.got.wire) <= 3 * (wire.available - wire.got.left)
    /\ wire.got.wire # Summary => wire.got.left >= 0

\* How Python describes a browser value: what a reader of
\* apps/docs/docs/reference/variables-and-serialization.mdx:93 expects.
RECURSIVE InPython(_)
InPython(v) ==
  LET Each(s) == [i \in DOMAIN s |-> InPython(s[i])]
  IN CASE v.is = "leaf" -> CASE v.tag = "undefined" -> PyLeaf("plain", "null")
                             [] v.tag = "arraybuffer" -> PyLeaf("bytes", v.text)
                             [] OTHER -> PyLeaf(v.tag, v.text)
       [] v.is = "again" -> PyLeaf("reference", ToString(v.number))
       [] v.is \in {"array", "set"} -> PyList(Each(v.items))
       [] v.is = "map" -> PyList([i \in 1..Len(v.items) \div 2 |->
                                   PyTuple(<<InPython(v.items[2 * i - 1]), InPython(v.items[2 * i])>>)])
       [] OTHER -> LET own == Fields(v.keys, v.items, LAMBDA item : item # Getter)
                   IN PyDict([k \in DOMAIN own |-> InPython(own[k])])

\* Whatever the keys of an object are, Python gets the value that the cell
\* produced, or a summary.
PythonReadsTheValue ==
  value.from = "browser" /\ arrived # None =>
    wire.got.wire = Summary \/ arrived.python = InPython(value.it)

RECURSIVE Parts(_)
Parts(v) == {v} \cup IF v.is \in {"leaf", "again", "getter"} THEN {}
                     ELSE UNION {Parts(v.items[i]) : i \in DOMAIN v.items}

Named(v) == v.is = "object" /\ TypeKey \in Range(v.keys)

RECURSIVE Own(_)
Own(v) ==
  CASE v.is \in {"leaf", "again"} -> v
    [] v.is = "object" -> LET own == Fields(v.keys, v.items, LAMBDA item : item # Getter)
                          IN Keyed([k \in DOMAIN own |-> Own(own[k])])
    [] OTHER -> [v EXCEPT !.items = [i \in DOMAIN @ |-> Own(@[i])]]

\* What another view is given is the value that the control has; objects that have
\* the tag's own name are left out.
ViewsGetTheValue ==
  value.from = "browser" /\ arrived # None /\ arrived.views # None =>
    arrived.views = Own(value.it) \/ \E part \in Parts(value.it) : Named(part)

\* Every value a cell produces can be read ("BigInt" becomes "int",
\* apps/docs/docs/reference/variables-and-serialization.mdx:100).
RECURSIVE Readable(_)
Readable(p) ==
  CASE p.py = "ValueError" -> FALSE
    [] p.py = "leaf" -> TRUE
    [] p.py = "dict" -> \A k \in DOMAIN p.fields : Readable(p.fields[k])
    [] OTHER -> \A i \in DOMAIN p.items : Readable(p.items[i])

EverythingIsReadable == arrived # None => Readable(arrived.python)

RECURSIVE InCells(_)
InCells(p) ==
  CASE p.py = "leaf" -> Leaf(p.tag, p.text)
    [] p.py = "dict" -> Keyed([k \in DOMAIN p.fields |-> InCells(p.fields[k])])
    [] OTHER -> Container("array", [i \in DOMAIN p.items |-> InCells(p.items[i])])

RECURSIVE Listed(_)
Listed(p) ==
  CASE p.py = "leaf" -> p
    [] p.py = "dict" -> PyDict([k \in DOMAIN p.fields |-> Listed(p.fields[k])])
    [] OTHER -> PyList([i \in DOMAIN p.items |-> Listed(p.items[i])])

\* Cells get the variables that Python set, and notebook.variables shows them,
\* with lists for tuples.
VariablesArriveUnchanged ==
  value.from = "Python" /\ arrived # None =>
    arrived.views = InCells(value.it) /\ arrived.python = Listed(value.it)
=============================================================================
