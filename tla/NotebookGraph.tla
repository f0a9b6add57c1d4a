----------------------------- MODULE NotebookGraph -----------------------------
(***************************************************************************)
(* The identity of cells and the dependencies between them, on both sides: *)
(* Python allocates ids and resolves selectors, the runtime derives the    *)
(* edges and decides which cells a view evaluates and an input affects,    *)
(* and Python validates the published graph and walks it again.            *)
(*                                                                         *)
(* Observable's compiler, which finds what a cell defines and references,  *)
(* is external.  A list of cells is a sequence; its indexes start at 1.    *)
(***************************************************************************)
EXTENDS Integers, Sequences, FiniteSets, SequencesExt, FiniteSetsExt, Relation

CONSTANTS
  Notebooks,   \* cells as authored: [id, key, defines, references]; id 0 stands
               \* for None, key "" for no key
  Selections,  \* what a view selects: sequences of [key] or [index]
  Names,       \* the names of variables
  MaxCellId    \* stands for _MAX_SAFE_CELL_ID, 2^53 - 1

\* What the constants satisfy.
GraphAssumption == MaxCellId \in Nat \ {0}

VARIABLES
  authored,  \* the cells that an author wrote
  ids,       \* the ids of the cells, or Refused
  selected,  \* the indexes of the selected cells, or Refused
  graph,     \* the graph that the view published
  accepted   \* whether Python's validation accepts it

vars == <<authored, ids, selected, graph, accepted>>

Refused == <<0>>   \* no cell has this id or index
None == [cells |-> {}, edges |-> {}]

-----------------------------------------------------------------------------
(* Ids (_cell_ids.py, _model.py) *)

Find(reserved, start, stop) == {c \in start..stop : c \notin reserved}

\* The next free id, from the start again when none is left ahead; 0 when none is free.
Allocated(a) ==
  LET ahead == Find(a.reserved, a.next, MaxCellId)
      behind == Find(a.reserved, 1, Min({a.next - 1, MaxCellId}))
  IN IF ahead # {} THEN Min(ahead) ELSE IF behind # {} THEN Min(behind) ELSE 0

Given(cell, a) ==
  IF cell.id # 0
  THEN [a EXCEPT !.next = Max({@, cell.id + 1}), !.ids = Append(@, cell.id)]
  ELSE LET id == Allocated(a)
       IN [reserved |-> a.reserved \cup {id}, next |-> id + 1, ids |-> Append(a.ids, id)]

Explicit(cells) == SelectSeq([i \in DOMAIN cells |-> cells[i].id], LAMBDA id : id # 0)

NodesFromCells(cells) ==
  FoldLeft(LAMBDA a, cell : Given(cell, a),
           [reserved |-> ToSet(Explicit(cells)), next |-> 1, ids |-> <<>>], cells).ids

Keys(cells) == SelectSeq([i \in DOMAIN cells |-> cells[i].key], LAMBDA key : key # "")

ValidateNodes(cells, assigned) ==
  IF /\ IsInjective(Explicit(cells))
     /\ ToSet(assigned) \subseteq 1..MaxCellId /\ IsInjective(assigned)
     /\ IsInjective(Keys(cells))
  THEN assigned ELSE Refused

\* Selectors name distinct cells, by key or by position.
Index(cells, s) ==
  IF s.key # "" THEN {i \in DOMAIN cells : cells[i].key = s.key} ELSE {s.index} \cap DOMAIN cells

NormalizeViewCells(cells, selectors) ==
  LET indexes == [i \in DOMAIN selectors |-> Index(cells, selectors[i])]
  IN IF {} \in ToSet(indexes) \/ ~IsInjective(indexes) THEN Refused
     ELSE SetToSortSeq(UNION ToSet(indexes), <)

-----------------------------------------------------------------------------
(* The runtime (graph.ts, composition.ts, state.ts) *)

\* An edge for every reference to a name that another cell defines.
GraphFromCells(cells) ==
  LET positions == DOMAIN cells
  IN {[from |-> ids[e[1]], to |-> ids[e[2]], variable |-> e[3]] :
        e \in {<<s, t, n>> \in positions \X positions \X Names :
                 s # t /\ n \in cells[s].defines \cap cells[t].references}}

\* One worklist serves dependencies and dependents; a cell is visited when it is
\* taken from the list.
RECURSIVE Reachable(_, _, _)
Reachable(pending, visited, neighbors) ==
  IF pending = <<>> THEN visited
  ELSE LET i == Last(pending)
       IN IF i \in visited THEN Reachable(Front(pending), visited, neighbors)
          ELSE Reachable(Front(pending) \o neighbors[i], visited \cup {i}, neighbors)

IndexOf(id) == CHOOSE i \in DOMAIN ids : ids[i] = id
Neighbors(cells, edges, from, to) ==
  [i \in DOMAIN cells |-> SetToSeq({IndexOf(e[to]) : e \in {f \in edges : f[from] = ids[i]}})]

DependencyIndexes(cells, targets) ==
  Reachable(targets, {}, Neighbors(cells, GraphFromCells(cells), "to", "from"))

AffectedIndexes(cells, names) ==
  Reachable(SetToSeq({i \in DOMAIN cells : (cells[i].references \cup cells[i].defines) \cap names # {}}),
            {}, Neighbors(cells, GraphFromCells(cells), "from", "to"))

\* What the view publishes: its cells and the edges between them.
SyncGraph_from(cells, included) ==
  [cells |-> {[id |-> ids[i], index |-> i] : i \in included},
   edges |-> {e \in GraphFromCells(cells) : e.from \in {ids[i] : i \in included}}]
SyncGraph(cells, included) ==
  [cells |-> {[id |-> ids[i], index |-> i] : i \in included},
   edges |-> {e \in GraphFromCells(cells) : {e.from, e.to} \subseteq {ids[i] : i \in included}}]

-----------------------------------------------------------------------------
(* Python again (_readback.py, _graph.py) *)

ValidateGraph(g) ==
  LET known == {c.id : c \in g.cells}
  IN /\ \A c \in g.cells : c.id > 0 /\ c.index >= 0
     /\ \A c, d \in g.cells : c # d => c.id # d.id /\ c.index # d.index
     /\ \A e \in g.edges : {e.from, e.to} \subseteq known

NeighborsOf(g, i, upstream) ==
  LET id == (CHOOSE c \in g.cells : c.index = i).id
      next == IF upstream THEN {e.from : e \in {f \in g.edges : f.to = id}}
              ELSE {e.to : e \in {f \in g.edges : f.from = id}}
  IN {c.index : c \in {d \in g.cells : d.id \in next}}

\* A cell is seen when it is put on the list.
RECURSIVE Walked(_, _, _, _)
Walked(g, pending, seen, upstream) ==
  IF pending = <<>> THEN seen
  ELSE LET new == NeighborsOf(g, Last(pending), upstream) \ seen
       IN Walked(g, Front(pending) \o SetToSeq(new), seen \cup new, upstream)

WalkIndexes(g, index, upstream) == Walked(g, <<index>>, {index}, upstream) \ {index}

-----------------------------------------------------------------------------

Init ==
  /\ authored \in Notebooks
  /\ ids = <<>> /\ selected = <<>> /\ graph = None /\ accepted = "unknown"

Author ==
  /\ ids = <<>>
  /\ ids' = ValidateNodes(authored, NodesFromCells(authored))
  /\ UNCHANGED <<authored, selected, graph, accepted>>

View ==
  /\ ids \notin {<<>>, Refused} /\ selected = <<>>
  /\ \E selectors \in Selections : selected' = NormalizeViewCells(authored, selectors)
  /\ UNCHANGED <<authored, ids, graph, accepted>>

Publish ==
  /\ selected \notin {<<>>, Refused} /\ graph = None
  /\ graph' = SyncGraph(authored, DependencyIndexes(authored, selected))
  /\ UNCHANGED <<authored, ids, selected, accepted>>

Accept ==
  /\ graph # None /\ accepted = "unknown"
  /\ accepted' = IF ValidateGraph(graph) THEN "yes" ELSE "no"
  /\ UNCHANGED <<authored, ids, selected, graph>>

Next == Author \/ View \/ Publish \/ Accept

Spec == Init /\ [][Next]_vars

-----------------------------------------------------------------------------
(* Properties *)

\* Cells keep the ids that the author gave them and the others get ids of their own;
\* a notebook is refused for its ids only if they clash, are out of range or do not
\* suffice (_cell_ids.py:28-36, near 2^53 too).
CellsGetIds ==
  LET explicit == Explicit(authored)
      possible == /\ IsInjective(explicit) /\ IsInjective(Keys(authored))
                  /\ ToSet(explicit) \subseteq 1..MaxCellId /\ Len(authored) <= MaxCellId
  IN ids # <<>> =>
       /\ (ids # Refused) = possible
       /\ ids # Refused =>
            /\ IsInjective(ids) /\ ToSet(ids) \subseteq 1..MaxCellId
            /\ \A i \in DOMAIN ids : authored[i].id \in {0, ids[i]}

\* What a cell depends on, by definition.
DependsOn ==
  LET positions == DOMAIN authored
  IN TransitiveClosure(
       [p \in positions \X positions |->
          p[1] # p[2] /\ authored[p[1]].references \cap authored[p[2]].defines # {}],
       positions)

\* No view's graph is rejected, which would lose the whole readback: a selection
\* brings every cell at the other end of an edge (_readback.py:186).
GraphsAreAccepted == accepted # "no"

\* The two sides agree on dependencies: the graph of a view tells for each of its
\* cells what the runtime evaluates for it and what a change of its variables
\* affects, as far as the view shows it.
SidesAgree ==
  accepted = "yes" =>
    LET shown == {c.index : c \in graph.cells}
    IN \A i \in shown :
         /\ WalkIndexes(graph, i, TRUE) = DependencyIndexes(authored, <<i>>) \ {i}
         /\ WalkIndexes(graph, i, TRUE) = {j \in DOMAIN authored \ {i} : DependsOn[<<i, j>>]}
         /\ WalkIndexes(graph, i, FALSE) \subseteq AffectedIndexes(authored, authored[i].defines)
         /\ WalkIndexes(graph, i, FALSE) = {j \in shown \ {i} : DependsOn[<<j, i>>]}
=============================================================================
