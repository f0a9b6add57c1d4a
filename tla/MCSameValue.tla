------------------------------ MODULE MCSameValue ------------------------------
(* Every heap of three objects with up to two properties, and an instance of a    *)
(* class: cycles, shared objects and values that contain each other.              *)
EXTENDS SameValue

Values == Objects \cup {4, 5}   \* two primitives
Shapes == {[kind |-> "object", items |-> i] : i \in UNION {[ks -> Values] : ks \in SUBSET {"a", "b"}}}
          \cup {[kind |-> "class", items |-> <<>>]}
          \cup {[kind |-> "array", items |-> i] : i \in [{"a"} -> Values]}
MCHeaps == {h \in [Objects -> Shapes] : h[1].kind = "object"}
MCPairs == {<<1, 1>>, <<1, 2>>}
=============================================================================
