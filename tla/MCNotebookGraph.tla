---------------------------- MODULE MCNotebookGraph ----------------------------
(* Every assignment of three explicit ids and keys, out of range ones included;   *)
(* and every graph of three cells over two names, cycles included.                *)
EXTENDS NotebookGraph

Cell(id, key, defines, references) ==
  [id |-> id, key |-> key, defines |-> defines, references |-> references]

Identities == {Cell(id, key, {}, {}) : id \in 0..(MaxCellId + 1), key \in {"", "k", "l"}}
Plain(i) == {Cell(IF i = 1 THEN 2 ELSE 0, IF i = 3 THEN "k" ELSE "", d, r) :
               d, r \in SUBSET Names}
MCNotebooks ==
  {<<a, b, c>> : a, b, c \in Identities}
  \cup {[i \in 1..(MaxCellId + 1) |-> Cell(0, "", {}, {})]}
  \cup {<<a, b, c>> : a \in Plain(1), b \in Plain(2), c \in Plain(3)}

ByIndex(i) == [key |-> "", index |-> i]
ByKey(k) == [key |-> k, index |-> 0]
MCSelections ==
  {<<ByIndex(1)>>, <<ByIndex(2)>>, <<ByKey("k")>>, <<ByIndex(2), ByIndex(1)>>, <<ByKey("k"), ByIndex(3)>>}
=============================================================================
