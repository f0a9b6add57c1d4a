---------------------------- MODULE EvaluationOps ----------------------------
(***************************************************************************)
(* The methods of the runtime's EvaluationState class                      *)
(* (packages/runtime/src/state.ts) as operators on one record, so that a   *)
(* caller which runs several of them in one synchronous turn (a render, a  *)
(* replacement, an observer event) composes them into one step.            *)
(*                                                                         *)
(* Revisions are numbers, and null is NoRevision.  A settlement microtask  *)
(* compares the generation it was queued with to #settlementGeneration, so *)
(* only the last one queued since the counter moved can have an effect:    *)
(* `settlement' is the revision that one carries, or NoRevision.  Clearing *)
(* it is the code's `#settlementGeneration += 1'.                          *)
(* captureState is TRUE throughout: without it every method but start,     *)
(* close and invalidate returns at once.                                   *)
(***************************************************************************)
EXTENDS Integers

CONSTANTS
  Cells,      \* the notebook's cell indexes
  Channels    \* observer channels: "display" and one per exposed variable

NoRevision == -1

Terminal == {"success", "error"}

Result == [status : {"none", "pending"} \cup Terminal, revision : Int]
NoResult == [status |-> "none", revision |-> NoRevision]
PendingResult(revision) == [status |-> "pending", revision |-> revision]

State ==
  [ attempt : Nat,
    closed : BOOLEAN,
    inputRevision : Int,
    settledRevision : Int,
    pending : SUBSET Cells,
    selected : SUBSET Cells,
    results : [Cells -> Result],
    errors : BOOLEAN,
    channelGenerations : [Cells -> [Channels -> Nat]],
    minimumTokenRevisions : [Cells -> Int],
    settlement : Int ]

InitialState ==
  [ attempt |-> 0,
    closed |-> FALSE,
    inputRevision |-> NoRevision,
    settledRevision |-> NoRevision,
    pending |-> {},
    selected |-> {},
    results |-> [c \in Cells |-> NoResult],
    errors |-> FALSE,
    channelGenerations |-> [c \in Cells |-> [ch \in Channels |-> 0]],
    minimumTokenRevisions |-> [c \in Cells |-> NoRevision],
    settlement |-> NoRevision ]

\* Mutant: events of an ended attempt count.
IsCurrent_anyAttempt(s, attempt) == ~s.closed

IsCurrent(s, attempt) == ~s.closed /\ attempt = s.attempt

\* Mutant: a new revision forgets the work it does not affect.
StillRunning_forgotten(s, reopened) == {}

\* Cells that still run from before a new revision stay pending in it.
StillRunning(s, reopened) ==
  {c \in s.selected \ reopened : s.results[c].status = "pending"}

\* Mutant: a revision that waits for nothing is never settled.
SettledOnOpening_never(s, revision, pending) == s.settledRevision

SettledOnOpening(s, revision, pending) ==
  IF pending = {} THEN revision ELSE s.settledRevision

\* A new input revision: cells that are affected or have no result yet are
\* pending in it.
OpenRevision(s, affected) ==
  LET revision == s.inputRevision + 1
      reopened == {c \in s.selected : c \in affected \/ s.results[c] = NoResult}
      pending  == reopened \cup StillRunning(s, reopened)
  IN  [s EXCEPT
        !.inputRevision = revision,
        !.errors = FALSE,
        !.settlement = NoRevision,
        !.results = [c \in Cells |-> IF c \in reopened THEN PendingResult(revision)
                                     ELSE IF c \in s.selected THEN s.results[c]
                                     ELSE NoResult],
        !.pending = pending,
        !.minimumTokenRevisions =
            [c \in Cells |-> IF c \in affected THEN revision ELSE s.minimumTokenRevisions[c]],
        !.settledRevision = SettledOnOpening(s, revision, pending)]

Close(s) ==
  IF s.closed THEN s
  ELSE [s EXCEPT !.closed = TRUE, !.attempt = @ + 1, !.pending = {}, !.settlement = NoRevision]

\* Guarded by the callers: the method throws when the state is closed.
Start(s) ==
  [s EXCEPT
    !.attempt = @ + 1,
    !.settlement = NoRevision,
    !.channelGenerations = [c \in Cells |-> [ch \in Channels |-> 0]],
    !.minimumTokenRevisions = [c \in Cells |-> NoRevision]]

\* invalidate(true), the only form the callers use.
Invalidate(s) ==
  IF s.closed THEN s
  ELSE LET t == [s EXCEPT !.attempt = @ + 1, !.settlement = NoRevision, !.errors = FALSE]
       IN  IF s.inputRevision = NoRevision THEN t ELSE OpenRevision(t, t.selected)

Begin(s, attempt, selection) ==
  IF ~IsCurrent(s, attempt) THEN s
  ELSE LET t == [s EXCEPT !.selected = selection]
       IN  IF selection = s.selected /\ s.pending # {} THEN t
           ELSE OpenRevision(t, selection)

BeginInput(s, attempt, affected) ==
  IF IsCurrent(s, attempt) THEN OpenRevision(s, affected \cap s.selected) ELSE s

-----------------------------------------------------------------------------
(* Tokens *)

Token == [attempt : Nat, revision : Int, index : Cells, channel : Channels, generation : Nat]

\* beginCell returns null, and changes nothing, unless this holds.
Begins(s, attempt, index, channel, generation) ==
  /\ IsCurrent(s, attempt)
  /\ index \in s.selected
  /\ generation > s.channelGenerations[index][channel]

\* Mutant: an event after the revision settled joins it.
BeginCell_joins(s, attempt, index, channel, generation) ==
  IF ~Begins(s, attempt, index, channel, generation) THEN s
  ELSE LET t == [s EXCEPT !.channelGenerations[index][channel] = generation]
       IN  IF t.inputRevision = NoRevision THEN OpenRevision(t, {index})
           ELSE [t EXCEPT !.pending = @ \cup {index},
                          !.results[index] = PendingResult(t.inputRevision)]

BeginCell(s, attempt, index, channel, generation) ==
  IF ~Begins(s, attempt, index, channel, generation) THEN s
  ELSE LET t == [s EXCEPT !.channelGenerations[index][channel] = generation]
       IN  IF t.inputRevision = NoRevision \/ t.pending = {} THEN OpenRevision(t, {index})
           ELSE IF t.results[index].status = "pending" THEN t
           ELSE [t EXCEPT !.pending = @ \cup {index},
                          !.results[index] = PendingResult(t.inputRevision)]

\* BeginCell calls the host's callback, in save: it does not if the cell is
\* pending already.
BeginPublishes(s, index) ==
  s.inputRevision = NoRevision \/ s.pending = {} \/ s.results[index].status # "pending"

\* The token beginCell returns, s being the state when it returns: the host's
\* callback has run by then and may have changed the revision.
TokenOf(s, attempt, index, channel, generation) ==
  [attempt |-> attempt, revision |-> s.inputRevision, index |-> index,
   channel |-> channel, generation |-> generation]

IsCurrentToken(s, token) ==
  /\ IsCurrent(s, token.attempt)
  /\ token.index \in s.pending
  /\ token.revision >= s.minimumTokenRevisions[token.index]
  /\ s.channelGenerations[token.index][token.channel] = token.generation

\* Mutant: the last result queues no settlement.
ScheduleSettlement_never(s) == s

\* Queue a settlement microtask once nothing is pending.
ScheduleSettlement(s) ==
  IF s.pending = {} THEN [s EXCEPT !.settlement = s.inputRevision] ELSE s

SettleCell(s, token, status) ==
  IF ~IsCurrentToken(s, token) THEN s
  ELSE ScheduleSettlement(
         [s EXCEPT !.results[token.index] = [status |-> status, revision |-> s.inputRevision],
                   !.pending = @ \ {token.index}])

\* Mutant: a failure keeps cells pending that it has no result for.
Fail_keepsPending(s, attempt) ==
  IF ~IsCurrent(s, attempt) THEN s
  ELSE [s EXCEPT !.inputRevision = @ + 1, !.settledRevision = s.inputRevision + 1,
                 !.results = [c \in Cells |-> NoResult], !.errors = TRUE]

Fail(s, attempt) ==
  IF ~IsCurrent(s, attempt) THEN s
  ELSE LET revision == IF s.inputRevision = NoRevision THEN 0
                       ELSE IF s.pending = {} THEN s.inputRevision + 1
                       ELSE s.inputRevision
       IN  [s EXCEPT !.inputRevision = revision,
                     !.settledRevision = revision,
                     !.pending = {},
                     !.results = [c \in Cells |-> NoResult],
                     !.errors = TRUE]

\* The body of the settlement microtask.
RunSettlement(s) ==
  LET done == [s EXCEPT !.settlement = NoRevision]
  IN  IF ~s.closed /\ s.inputRevision = s.settlement /\ s.pending = {}
      THEN [done EXCEPT !.settledRevision = s.settlement]
      ELSE done
=============================================================================
