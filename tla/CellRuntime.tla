------------------------------ MODULE CellRuntime ------------------------------
(***************************************************************************)
(* What a mounted and a headless evaluation share: the dependency graph    *)
(* (graph.ts), the evaluation state (state.ts) fed by one cell-state       *)
(* object per selected cell (cell-state.ts), and the Observable runtime    *)
(* that evaluates the cells.                                               *)
(*                                                                         *)
(* Every cell has a "display" variable, and an exposing cell a "variable"  *)
(* derived from it.  The Observable runtime is an external library; what   *)
(* the code relies on is modelled: redefining a variable makes it and what *)
(* depends on it dirty, and their running evaluations stale, which are not *)
(* delivered (cell-state.ts:60); a later frame starts every dirty variable *)
(* at once, announcing each as pending; an evaluation finishes after those *)
(* it depends on; a control or a generator delivers later values without   *)
(* announcing them, and only then makes its dependents dirty.              *)
(*                                                                         *)
(* An observer event is one step here, its token included: hosts change no *)
(* inputs inside onState, as those of this repository do not (the widget   *)
(* only publishes, a headless evaluation has no callback).  What a host's  *)
(* callback can change is EvaluationState's matter.  A token thus has the  *)
(* revision of the state that it is presented to.                          *)
(***************************************************************************)
EXTENDS EvaluationOps, FiniteSets, FiniteSetsExt

CONSTANTS
  Selected,      \* the selected cells; the others are their hidden dependencies
  Upstream,      \* the cells each cell references
  Exposing,      \* the cells that define a named variable
  Apart,         \* exposing cells with a display of its own (`const x', viewof x), not their name's (`x =')
  Views,         \* exposing cells whose value is an input control (viewof)
  Generators,    \* exposing cells that yield further values
  Broken,        \* cells whose source cannot be analysed
  Marred,        \* cells whose source panel cannot be shown
  InputRoots,    \* per host variable, the cells that reference it
  Ownable        \* exposing cells whose name the host may take over

ASSUME NotebookAssumption ==
  /\ IsFiniteSet(Cells) /\ Selected \subseteq Cells /\ Upstream \in [Cells -> SUBSET Cells]
  /\ Broken \subseteq Cells /\ Marred \subseteq Selected \ Broken
  /\ Exposing \subseteq Cells \ Broken /\ Ownable \subseteq Exposing
  /\ Views \subseteq Apart /\ Apart \subseteq Exposing /\ Generators \subseteq Exposing \ Views
  /\ InputRoots \subseteq SUBSET (Cells \ Broken)
  /\ \A c \in Broken, d \in Cells : Upstream[c] = {} /\ c \notin Upstream[d]
  /\ Channels = {"display", "variable", "failure"}

VARIABLES
  es,         \* the EvaluationState object
  cs,         \* the cell-state object of each cell
  phase,      \* external: where each Observable variable stands
  detached    \* cells whose name is a constant that the host defined

-----------------------------------------------------------------------------
(* The dependency graph *)

\* The cells reached from the roots when changes pass only these cells.
Reached(roots, through) ==
  {c \in Cells :
     \A closed \in SUBSET Cells :
       /\ roots \subseteq closed
       /\ \A d \in Cells : Upstream[d] \cap closed \cap through # {} => d \in closed
       => c \in closed}

\* Mutant: the sources of what changes count as affected too.
Affected_withSources(roots) == Reached(roots, Cells) \cup UNION {Upstream[c] : c \in roots}

\* What an input change affects, from the static graph.
Affected(roots) == Reached(roots, Cells)

\* What Observable reevaluates: a constant does not follow its cell's references.
Reevaluated(roots) ==
  {v \in Reached(roots, Cells \ detached) \X {"display", "variable"} :
     /\ phase[v[1]][v[2]] # "unobserved"
     /\ v[1] \in detached => v[1] \in Apart /\ v[2] = "display"}

Dependents(c) == {d \in Cells : c \in Upstream[d]}

Mark(variables, mark) ==
  phase' = [c \in Cells |-> [ch \in {"display", "variable"} |->
              IF <<c, ch>> \in variables THEN mark ELSE phase[c][ch]]]

-----------------------------------------------------------------------------
(* cell-state.ts: operators on the pair of es and cs *)

Unconfigured == [expected |-> {}, statuses |-> [ch \in Channels |-> "absent"], errors |-> {}]

\* configure
Configured(channels) ==
  [Unconfigured EXCEPT
    !.expected = channels,
    !.statuses = [ch \in Channels |-> IF ch \in channels THEN "pending" ELSE "absent"]]

\* Mutant: a new evaluation keeps the error of the last one.
Announce_keepsError(m, c, ch) ==
  LET generation == m.es.channelGenerations[c][ch] + 1
  IN  IF c \notin Selected \/ ~Begins(m.es, m.es.attempt, c, ch, generation) THEN m
      ELSE [es |-> BeginCell(m.es, m.es.attempt, c, ch, generation),
            cs |-> [m.cs EXCEPT ![c].statuses[ch] = "pending"]]

\* start(channel), for an event of the current attempt.
Announce(m, c, ch) ==
  LET generation == m.es.channelGenerations[c][ch] + 1
  IN  IF c \notin Selected \/ ~Begins(m.es, m.es.attempt, c, ch, generation) THEN m
      ELSE [es |-> BeginCell(m.es, m.es.attempt, c, ch, generation),
            cs |-> [m.cs EXCEPT ![c].statuses[ch] = "pending", ![c].errors = @ \ {ch}]]

\* The token of the event that Announce recorded.
LastToken(m, c, ch) == TokenOf(m.es, m.es.attempt, c, ch, m.es.channelGenerations[c][ch])

\* Mutant: the first channel to finish settles the cell.
SettleIfReady_first(m, c, token) ==
  [m EXCEPT !.es = SettleCell(m.es, token, IF m.cs[c].errors = {} THEN "success" ELSE "error")]

SettleIfReady(m, c, token) ==
  IF \E ch \in m.cs[c].expected : m.cs[c].statuses[ch] = "pending" THEN m
  ELSE [m EXCEPT !.es = SettleCell(m.es, token, IF m.cs[c].errors = {} THEN "success" ELSE "error")]

\* fulfilled and rejected.
Deliver(m, c, ch, outcome) ==
  LET begun  == Announce(m, c, ch)
      failed == IF outcome = "error" THEN {ch} ELSE {}
      noted  == [es |-> begun.es,
                 cs |-> [begun.cs EXCEPT ![c].statuses[ch] = outcome, ![c].errors = @ \cup failed]]
  IN  IF c \notin Selected THEN m
      ELSE SettleIfReady(noted, c, LastToken(begun, c, ch))

\* fail: the cell then waits for nothing but its failure, for the whole attempt.
FailCell(c, m) ==
  IF c \notin Selected THEN m
  ELSE Deliver([m EXCEPT !.cs[c].expected = {"failure"}], c, "failure", "error")

-----------------------------------------------------------------------------
(* Definition and evaluation *)

\* What reports to the state when the host owns the names of `owned': a cell
\* whose name is owned at the render shows that name, and only the name counts.
Observed(c, owned) ==
  CASE c \in Broken                      -> {}
    [] c \in owned                       -> {"variable"}
    [] c \in Exposing \ owned            -> {"display", "variable"}
    [] OTHER                             -> {"display"}

\* A render: start, begin, then define every cell.
Rendered(s, owned) ==
  LET started == Start(s)
      begun   == Begin(started, started.attempt, Selected)
  IN  FoldSet(FailCell,
              [es |-> begun,
               cs |-> [c \in Cells |-> IF c \in Selected \ Broken
                                       THEN Configured(Observed(c, owned)) ELSE Unconfigured]],
              Broken \cup Marred)

Unrun == [c \in Cells |-> [ch \in {"display", "variable"} |-> "unobserved"]]

BeginAffected(roots) == es' = BeginInput(es, es.attempt, Affected(roots))

Busy(c) == \E ch \in {"display", "variable"} : phase[c][ch] \in {"dirty", "running"}

Variables(mark) ==
  {v \in Cells \X {"display", "variable"} : phase[v[1]][v[2]] = mark}

\* The next frame: every dirty variable starts,
Frame ==
  /\ Variables("dirty") # {}
  /\ Mark(Variables("dirty"), "running")

\* and each is announced to its cell as pending.
AnnounceAll ==
  LET begun == FoldSet(LAMBDA variable, m : Announce(m, variable[1], variable[2]),
                       [es |-> es, cs |-> cs], Variables("dirty"))
  IN  es' = begun.es /\ cs' = begun.cs

Delivered(c, ch, outcome) ==
  LET delivered == Deliver([es |-> es, cs |-> cs], c, ch, outcome)
  IN  es' = delivered.es /\ cs' = delivered.cs
=============================================================================
