---------------------------- MODULE EvaluationState ----------------------------
(***************************************************************************)
(* One mount's evaluation state under everything its callers do to it:     *)
(* renders and replacements (mount.ts, evaluate.ts), input changes, input  *)
(* failures, observer events (cell-state.ts), the settlement microtask and *)
(* disposal.                                                               *)
(*                                                                         *)
(* An observer event is handled in one synchronous turn: beginCell         *)
(* publishes a snapshot, the host's onState callback runs inside that, and *)
(* only then is the token taken and presented to settleCell.  The callback *)
(* may call back into the mount, so the model keeps the event that is      *)
(* being handled, and between its Observe and its Settle lets exactly      *)
(* those operations happen that a callback can call.  settleCell itself    *)
(* publishes only while cells are pending, and goes on to nothing that     *)
(* such a callback changes, so the operations of that callback are those   *)
(* that come next.  Callbacks in the middle of a render or a replacement   *)
(* do not call back here.                                                  *)
(***************************************************************************)
EXTENDS ReadbackWire

CONSTANTS
  Selected,       \* the cells the mount shows
  AffectedSets,   \* the sets of cells an input change can affect
  MaxAttempt,     \* bound on render attempts
  MaxRevision,    \* bound on input revisions
  MaxGeneration   \* bound on the events of one channel in one attempt

ASSUME SelectedAssumption == Selected \subseteq Cells
ASSUME AffectedAssumption == AffectedSets \subseteq SUBSET Cells
ASSUME BoundsAssumption ==
  MaxAttempt \in Nat /\ MaxRevision \in Nat /\ MaxGeneration \in Nat

VARIABLES
  es,        \* the EvaluationState object
  active,    \* the mount has a live runtime session
  handling,  \* the observer event being handled: a set of at most one
  changes,   \* history: how often each cell's inputs were superseded
  basis,     \* history: the value of changes its last terminal result used
  late       \* history: the cells whose last event changed their inputs itself

vars == <<es, active, handling, changes, basis, late>>

\* `published': beginCell published, so the host's callback runs.  History:
\* `change', the inputs of the value it brings; `reached', its callback changed them.
Event == [attempt : Nat, index : Cells, channel : Channels, generation : Nat,
          published : BOOLEAN, change : Int, reached : BOOLEAN]

TypeOK ==
  /\ es \in State
  /\ active \in BOOLEAN
  /\ handling \subseteq Event
  /\ changes \in [Cells -> Nat]
  /\ basis \in [Cells -> Int]
  /\ late \subseteq Cells

Init ==
  /\ es = InitialState
  /\ active = FALSE
  /\ handling = {}
  /\ changes = [c \in Cells |-> 0]
  /\ basis = [c \in Cells |-> 0]
  /\ late = {}

\* Nothing is being handled, or the host's callback runs.
HostMayCall == \A e \in handling : e.published

Supersede(cells) == changes' = [c \in Cells |-> IF c \in cells THEN changes[c] + 1 ELSE changes[c]]

-----------------------------------------------------------------------------
(* Renders: state.start and, in the same turn, state.begin.  The source    *)
(* may fail to parse before state.begin, or the cells to render after it.  *)

Outcomes == {"rendered", "unprepared", "unrendered"}

RenderedFrom(s, outcome) ==
  LET started == Start(s)
      begun   == Begin(started, started.attempt, Selected)
  IN  CASE outcome = "rendered"   -> begun
        [] outcome = "unprepared" -> Fail(started, started.attempt)
        [] outcome = "unrendered" -> Fail(begun, begun.attempt)

\* mountNotebook's first render.
Render(outcome) ==
  /\ es.attempt = 0 /\ es.attempt < MaxAttempt /\ es.inputRevision < MaxRevision
  /\ ~es.closed /\ handling = {}
  /\ es' = RenderedFrom(es, outcome)
  /\ active' = (outcome = "rendered")
  /\ UNCHANGED <<handling, changes, basis, late>>

\* replaceVariables: onReplace invalidates, publishing the cells as pending,
\* and renders again.
Replace(outcome) ==
  /\ active /\ es.attempt + 1 < MaxAttempt /\ es.inputRevision < MaxRevision
  /\ HostMayCall
  /\ es' = RenderedFrom(Invalidate(es), outcome)
  /\ active' = (outcome = "rendered")
  /\ Supersede(Cells)
  /\ UNCHANGED <<handling, basis, late>>

-----------------------------------------------------------------------------
(* Inputs *)

\* The event being handled brings a value of the inputs before this change.
Overtake(affected) ==
  handling' = {[e EXCEPT !.reached = e.reached \/ e.index \in affected] : e \in handling}

Input(affected) ==
  /\ active /\ es.inputRevision < MaxRevision
  /\ HostMayCall
  /\ es' = BeginInput(es, es.attempt, affected)
  /\ Supersede(affected)
  /\ Overtake(affected)
  /\ UNCHANGED <<active, basis, late>>

InputError ==
  /\ active /\ es.inputRevision < MaxRevision
  /\ HostMayCall
  /\ es' = Fail(es, es.attempt)
  /\ UNCHANGED <<active, handling, changes, basis, late>>

-----------------------------------------------------------------------------
(* Observer events of the attempt a, one cell-state object per cell and    *)
(* attempt.  Each event uses the next generation of its channel.  The      *)
(* observers drop events once their attempt is aborted, but display code   *)
(* runs between that check and these calls and may end the attempt, so     *)
(* ended attempts still arrive here; beginCell must refuse them.           *)

NextGeneration(c, ch) == es.channelGenerations[c][ch] + 1

Observable(a, c, ch) ==
  /\ a = es.attempt => active
  /\ es.inputRevision < MaxRevision
  /\ NextGeneration(c, ch) <= MaxGeneration
  /\ handling = {}

\* An event that settles nothing: an evaluation starts, or others of the
\* cell's channels are still running.
Pending(a, c, ch) ==
  /\ Observable(a, c, ch)
  /\ Begins(es, a, c, ch, NextGeneration(c, ch))
  /\ es' = BeginCell(es, a, c, ch, NextGeneration(c, ch))
  /\ UNCHANGED <<active, handling, changes, basis, late>>

\* The event that ends the evaluation of its cell, up to the callback.  The
\* value it brings was computed from the inputs its cell has at this moment.
Observe(a, c, ch) ==
  /\ Observable(a, c, ch)
  /\ Begins(es, a, c, ch, NextGeneration(c, ch))
  /\ es' = BeginCell(es, a, c, ch, NextGeneration(c, ch))
  /\ handling' = {[attempt |-> a, index |-> c, channel |-> ch,
                   generation |-> NextGeneration(c, ch),
                   published |-> BeginPublishes(es, c),
                   change |-> IF a = es.attempt THEN changes[c] ELSE -1,
                   reached |-> FALSE]}
  /\ UNCHANGED <<active, changes, basis, late>>

\* beginCell goes on, and settleCell follows without another callback.
TokenFor(s, e) == TokenOf(s, e.attempt, e.index, e.channel, e.generation)

Settle(e, status) ==
  /\ es' = SettleCell(es, TokenFor(es, e), status)
  /\ handling' = {}
  /\ IF es'.results # es.results
     THEN /\ basis' = [basis EXCEPT ![e.index] = e.change]
          /\ late' = IF e.reached THEN late \cup {e.index} ELSE late \ {e.index}
     ELSE UNCHANGED <<basis, late>>
  /\ UNCHANGED <<active, changes>>

-----------------------------------------------------------------------------

Microtask ==
  /\ es.settlement # NoRevision /\ handling = {}
  /\ es' = RunSettlement(es)
  /\ UNCHANGED <<active, handling, changes, basis, late>>

Dispose ==
  /\ ~es.closed
  /\ HostMayCall
  /\ es' = Close(es)
  /\ active' = FALSE
  /\ UNCHANGED <<handling, changes, basis, late>>

Next ==
  \/ \E outcome \in Outcomes : Render(outcome) \/ Replace(outcome)
  \/ \E affected \in AffectedSets : Input(affected)
  \/ InputError
  \/ \E a \in 1..es.attempt, c \in Cells, ch \in Channels : Pending(a, c, ch) \/ Observe(a, c, ch)
  \/ \E e \in handling, status \in Terminal : Settle(e, status)
  \/ Microtask
  \/ Dispose

Spec == Init /\ [][Next]_vars

-----------------------------------------------------------------------------
(* Properties *)

\* Whatever the state publishes, Python accepts (save in state.ts, validate_readback_wire
\* in _readback.py).  Only the last cell to finish leaves the state unpublished,
\* until its settlement microtask has run.
PublishedIsAccepted ==
  ~es.closed /\ es.settlement = NoRevision => Accepted(es)

\* Every terminal result was computed from the inputs its cell has now, whatever
\* replacements, failures, disposals and further events its evaluation met, except
\* for a result whose own event changed the inputs: events of an ended attempt
\* change nothing, also if the attempt ends while one is handled (isCurrent,
\* beginCell, isCurrentToken).
ResultsAreCurrent ==
  \A c \in Cells : es.results[c].status \in Terminal /\ c \notin late => basis[c] = changes[c]

\* What a host may conclude from equal revisions: once the latest wave is
\* settled, every result was computed from its cell's present inputs.
SettledIsCurrent ==
  es.settledRevision = es.inputRevision =>
    \A c \in Cells : es.results[c].status \in Terminal => basis[c] = changes[c]

\* A host that sees both revisions equal sees no pending cell, and a wave with
\* no pending cell is settled or has its settlement microtask queued: the
\* generation checks of scheduleSettlement never drop the last one.
SettlementIsCertain ==
  active =>
    /\ es.settledRevision = es.inputRevision => es.pending = {}
    /\ es.pending = {} => es.inputRevision \in {es.settledRevision, es.settlement}

\* An input change leaves the work of the cells it does not affect usable: the
\* event whose callback makes it can still settle its cell if that is not
\* affected (openRevision keeps such cells pending).
DisjointWorkSurvives ==
  [][\A affected \in AffectedSets : Input(affected) =>
       \A e \in handling :
         e.index \notin affected /\ IsCurrentToken(es, TokenFor(es, e))
           => IsCurrentToken(es', TokenFor(es', e))]_vars

\* The revisions and pending cells a host reads implement RevisionProgress.
Progress == INSTANCE RevisionProgress
  WITH input <- es.inputRevision, settled <- es.settledRevision,
       running <- es.pending, closed <- es.closed

ImplementsProgress == Progress!Spec
=============================================================================
