------------------------------ MODULE MCWireValues ------------------------------
(* Values nested to two levels: every kind of container with up to two children, *)
(* keys that clash with the wire's tags, getters, cycles and shared objects.      *)
EXTENDS WireValues

CONSTANTS Texts   \* the texts of bigints

Tags == {"undefined", "number", "datetime", "arraybuffer", "function"}
JsLeaves == {Leaf("plain", "x"), Leaf("plain", "number"), Leaf("plain", "long")}
            \cup {Leaf(t, "x") : t \in Tags} \cup {Leaf("bigint", t) : t \in Texts}
Few == {Leaf("plain", "x"), Leaf("function", "x")}
Flat(leaves, more) ==
  {Container(k, s) : k \in {"array", "set"}, s \in {<<>>} \cup {<<v>> : v \in leaves} \cup (leaves \X more)}
  \cup {Container("map", s) : s \in {<<>>} \cup (leaves \X more)}
  \cup {Object(<<k>>, <<v>>) : k \in {"k", "value", TypeKey}, v \in leaves \cup {Getter}}
  \cup {Object(<<TypeKey, "k">>, s) : s \in more \X leaves}
  \cup {Object(<<>>, <<>>)}
Nested == Flat(JsLeaves, JsLeaves \cup {Again(1)})
MCJsValues == JsLeaves \cup Nested \cup Flat(Nested, {Leaf("plain", "number"), Leaf("function", "x"), Again(1), Again(2)})

PyLeaves == {PyLeaf("plain", "x"), PyLeaf("plain", "number"), PyLeaf("number", "x"),
             PyLeaf("bigint", "x"), PyLeaf("datetime", "x"), PyLeaf("bytes", "x")}
PyFlat(leaves) ==
  {PyList(<<>>), PyDict(<<>>)}
  \cup {PyList(<<p>>) : p \in leaves} \cup {PyTuple(<<p, PyLeaf("plain", "x")>>) : p \in leaves}
  \cup {PyDict(k :> p) : k \in {"k", "value", TypeKey}, p \in leaves}
  \cup {PyDict(TypeKey :> PyLeaf("plain", t) @@ "value" :> p) : t \in {"number", "object", "x"}, p \in leaves}
MCPyValues == PyLeaves \cup PyFlat(PyLeaves) \cup PyFlat(PyFlat(PyLeaves))
=============================================================================
