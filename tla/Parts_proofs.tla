------------------------------ MODULE Parts_proofs ------------------------------
(***************************************************************************)
(* Proofs about components that keep a state of their own, each for every  *)
(* value of its constants.                                                 *)
(*                                                                         *)
(* EvaluationState: for every notebook, selection and bound, results are   *)
(* current, what is published is accepted, revisions settle with           *)
(* certainty, and it implements RevisionProgress.  EngineHost: for every   *)
(* set of requests, nobody is forgotten, timeouts stop the engine and      *)
(* failures have causes.  Attachments: for any files, names and calls,     *)
(* what a runtime makes of its files.  Inspector: for any finite set of    *)
(* callers, the idle timer takes the shared engine from nobody that leases *)
(* it.  ModuleCache: for any imports, processes and policies, what the     *)
(* caches give to whom.  SharedInputs: for any names and views, what views *)
(* of one notebook show of Python's variables and of each other's inputs.  *)
(***************************************************************************)
EXTENDS EvaluationState, EngineHost, Attachments, Inspector, ModuleCache, SharedInputs,
        EvaluationOps_proofs, FiniteSetTheorems, SequenceTheorems

-----------------------------------------------------------------------------
(* EvaluationState *)

\* The event being handled belongs to no later attempt, and it began when a
\* revision was open.  In the current attempt it brings a value of its cell's
\* present inputs, unless its own callback has changed them.
EventInv ==
  \A e \in handling :
    /\ e.attempt <= es.attempt
    /\ es.inputRevision >= 0
    /\ e.attempt = es.attempt /\ ~e.reached => e.change = changes[e.index]

IInv ==
  /\ TypeOK
  /\ active => ~es.closed
  /\ es.inputRevision >= NoRevision
  /\ es.inputRevision = NoRevision => NoTerminalResult(es)
  /\ EventInv
  /\ ResultsAreCurrent

\* A render opens the next attempt and brings no terminal result.
LEMMA RenderedFromFacts ==
  ASSUME NEW s \in State, NEW outcome \in Outcomes, ~s.closed,
         s.inputRevision >= NoRevision,
         s.inputRevision = NoRevision => NoTerminalResult(s)
  PROVE  LET t == RenderedFrom(s, outcome)
         IN  /\ t \in State
             /\ t.attempt = s.attempt + 1 /\ ~t.closed
             /\ t.inputRevision >= s.inputRevision /\ t.inputRevision >= NoRevision
             /\ t.inputRevision = NoRevision => NoTerminalResult(t)
             /\ KeepsResults(s, t)
  <1> DEFINE started == Start(s)
             begun == Begin(started, started.attempt, Selected)
             unprepared == Fail(started, started.attempt)
             unrendered == Fail(begun, begun.attempt)
  <1>0. NoRevision \in Int /\ s.inputRevision \in Int
    BY NoRevisionIsInt DEF State
  <1>1. /\ started \in State
        /\ started.attempt = s.attempt + 1 /\ ~started.closed
        /\ started.inputRevision = s.inputRevision
        /\ started.results = s.results
    BY StartFacts
  <1>2. NoTerminalResult(s) => NoTerminalResult(started)
    BY <1>1 DEF NoTerminalResult
  <1> HIDE DEF started
  <1>3. /\ begun \in State
        /\ begun.attempt = started.attempt /\ begun.closed = started.closed
        /\ begun.inputRevision >= started.inputRevision
        /\ begun.inputRevision = NoRevision => NoTerminalResult(begun)
        /\ KeepsResults(started, begun)
    BY <1>1, <1>2, BeginFacts, SelectedAssumption
  <1>4. begun.inputRevision \in Int
    BY <1>3 DEF State
  <1> HIDE DEF begun
  <1>5. /\ unprepared \in State
        /\ unprepared.attempt = started.attempt /\ unprepared.closed = started.closed
        /\ unprepared.inputRevision >= started.inputRevision
        /\ NoTerminalResult(unprepared)
    BY <1>1, FailFacts DEF IsCurrent
  <1>6. IsCurrent(begun, begun.attempt) /\ begun.inputRevision >= NoRevision
    BY <1>0, <1>1, <1>3, <1>4 DEF IsCurrent
  <1>7. /\ unrendered \in State
        /\ unrendered.attempt = begun.attempt /\ unrendered.closed = begun.closed
        /\ unrendered.inputRevision >= begun.inputRevision
        /\ NoTerminalResult(unrendered)
    BY <1>3, <1>6, FailFacts
  <1> HIDE DEF unprepared, unrendered
  <1>8. unprepared.inputRevision \in Int /\ unrendered.inputRevision \in Int
    BY <1>5, <1>7 DEF State
  <1>9. RenderedFrom(s, outcome) \in {begun, unprepared, unrendered}
    BY Zenon DEF RenderedFrom, Outcomes, started, begun, unprepared, unrendered
  <1>10. CASE RenderedFrom(s, outcome) = begun
    BY <1>0, <1>1, <1>3, <1>4, <1>10 DEF KeepsResults
  <1>11. CASE RenderedFrom(s, outcome) = unprepared
    BY <1>0, <1>1, <1>5, <1>8, <1>11 DEF KeepsResults, NoTerminalResult
  <1>12. CASE RenderedFrom(s, outcome) = unrendered
    BY <1>0, <1>1, <1>3, <1>4, <1>7, <1>8, <1>12 DEF KeepsResults, NoTerminalResult
  <1>13. QED
    BY <1>9, <1>10, <1>11, <1>12

-----------------------------------------------------------------------------
(* The invariant *)

LEMMA InitHolds == Init => IInv
  <1> SUFFICES ASSUME Init
               PROVE  IInv
    OBVIOUS
  <1>1. es \in State
    BY NoRevisionIsInt DEF Init, InitialState, State, NoResult, Result
  <1>2. NoTerminalResult(es)
    BY DEF Init, InitialState, NoResult, NoTerminalResult, Terminal
  <1>3. TypeOK
    <2>1. changes \in [Cells -> Nat] /\ basis \in [Cells -> Int]
      BY DEF Init
    <2>2. handling = {} /\ late = {} /\ active \in BOOLEAN
      BY DEF Init
    <2>3. QED
      BY Zenon, <1>1, <2>1, <2>2 DEF TypeOK
  <1>4. EventInv
    BY DEF Init, EventInv
  <1>5. ResultsAreCurrent
    BY <1>2 DEF ResultsAreCurrent, NoTerminalResult
  <1>6. es.inputRevision = NoRevision /\ ~active
    BY DEF Init, InitialState
  <1>7. QED
    BY <1>2, <1>3, <1>4, <1>5, <1>6, NoRevisionIsInt DEF IInv

\* A step that stays in the attempt and settles nothing.
LEMMA ContinuesPreserves ==
  ASSUME IInv, Continues(es, es'), UNCHANGED <<active, handling, changes, basis, late>>
  PROVE  IInv'
  <1>1. TypeOK'
    BY DEF IInv, TypeOK, Continues
  <1>2. ResultsAreCurrent'
    BY DEF IInv, ResultsAreCurrent, Continues, KeepsResults
  <1>3. EventInv'
    <2>1. es.inputRevision \in Int /\ es'.inputRevision \in Int
      BY DEF IInv, TypeOK, State, Continues
    <2>2. QED
      BY <2>1 DEF IInv, EventInv, Continues
  <1>4. QED
    BY <1>1, <1>2, <1>3 DEF IInv, Continues

\* A step that keeps everything the invariant reads but the results of the
\* cells it keeps or clears.
Keeps(s, t) ==
  /\ t \in State
  /\ t.attempt = s.attempt /\ t.closed = s.closed /\ t.selected = s.selected
  /\ t.inputRevision = s.inputRevision
  /\ t.minimumTokenRevisions = s.minimumTokenRevisions

LEMMA KeepsEvents ==
  ASSUME IInv, Keeps(es, es'), handling' \subseteq handling, changes' = changes
  PROVE  EventInv'
  BY DEF IInv, EventInv, Keeps

\* No event is handled during a render of the host's.
LEMMA RenderPreserves ==
  ASSUME IInv, NEW outcome \in Outcomes, Render(outcome)
  PROVE  IInv'
  <1>1. /\ es \in State /\ ~es.closed /\ es.inputRevision >= NoRevision
        /\ es.inputRevision = NoRevision => NoTerminalResult(es)
    BY DEF IInv, TypeOK, Render
  <1>2. /\ es' \in State
        /\ es'.attempt = es.attempt + 1 /\ ~es'.closed
        /\ es'.inputRevision >= NoRevision
        /\ es'.inputRevision = NoRevision => NoTerminalResult(es')
        /\ KeepsResults(es, es')
    BY <1>1, RenderedFromFacts DEF Render
  <1>3. TypeOK'
    BY <1>2 DEF IInv, TypeOK, Render
  <1>4. EventInv'
    BY DEF EventInv, Render
  <1>5. ResultsAreCurrent'
    BY <1>2 DEF IInv, ResultsAreCurrent, KeepsResults, Render
  <1>6. NoTerminalResult(es)' = NoTerminalResult(es')
    BY DEF NoTerminalResult
  <1>7. QED
    BY <1>2, <1>3, <1>4, <1>5, <1>6 DEF IInv

\* A replacement first withdraws every result.
LEMMA ReplacePreserves ==
  ASSUME IInv, NEW outcome \in Outcomes, Replace(outcome)
  PROVE  IInv'
  <1> DEFINE s == Invalidate(es)
  <1>1. /\ es \in State /\ ~es.closed /\ es.inputRevision >= NoRevision
        /\ es.inputRevision = NoRevision => NoTerminalResult(es)
    BY DEF IInv, TypeOK, Replace
  <1>2. /\ s \in State /\ s.attempt = es.attempt + 1 /\ ~s.closed
        /\ s.inputRevision >= es.inputRevision /\ NoTerminalResult(s)
    BY <1>1, InvalidateFacts
  <1>3. s.inputRevision >= NoRevision
    BY <1>1, <1>2, NoRevisionIsInt DEF State
  <1> HIDE DEF s
  <1>4. /\ es' \in State
        /\ es'.attempt = s.attempt + 1 /\ ~es'.closed
        /\ es'.inputRevision >= NoRevision
        /\ KeepsResults(s, es')
    <2>1. es' = RenderedFrom(s, outcome)
      BY DEF Replace, s
    <2>2. QED
      BY <1>2, <1>3, <2>1, RenderedFromFacts
  <1>5. NoTerminalResult(es')
    BY <1>2, <1>4 DEF KeepsResults, NoTerminalResult
  <1>6. TypeOK'
    <2>1. changes' \in [Cells -> Nat]
      BY DEF IInv, TypeOK, Replace, Supersede
    <2>2. QED
      BY <1>4, <2>1 DEF IInv, TypeOK, Replace
  <1>7. EventInv'
    <2>1. es'.attempt > es.attempt /\ es.attempt \in Nat /\ es'.attempt \in Nat
      BY <1>1, <1>2, <1>4 DEF State
    <2>2. /\ es.inputRevision \in Int /\ s.inputRevision \in Int /\ es'.inputRevision \in Int
          /\ es'.inputRevision >= s.inputRevision
      BY <1>1, <1>2, <1>3, <1>4, RenderedFromFacts DEF State, Replace, s
    <2>3. \A e \in handling : e.attempt \in Nat
      BY DEF IInv, TypeOK, Event
    <2>4. handling' = handling
      BY DEF Replace
    <2>5. QED
      BY <1>2, <2>1, <2>2, <2>3, <2>4 DEF IInv, EventInv
  <1>8. ResultsAreCurrent'
    BY <1>5 DEF ResultsAreCurrent, NoTerminalResult
  <1>9. NoTerminalResult(es)' = NoTerminalResult(es')
    BY DEF NoTerminalResult
  <1>10. QED
    BY <1>4, <1>5, <1>6, <1>7, <1>8, <1>9 DEF IInv

\* Marking an event changes nothing else of it.
LEMMA MarkedEvent ==
  ASSUME NEW d \in Event, NEW b \in BOOLEAN, NEW e, e = [d EXCEPT !.reached = b]
  PROVE  /\ e \in Event
         /\ e.attempt = d.attempt /\ e.index = d.index /\ e.change = d.change /\ e.reached = b
  BY DEF Event

\* An input change withdraws the results of the cells it affects, and an event
\* of theirs that is being handled is overtaken.
LEMMA InputPreserves ==
  ASSUME IInv, NEW affected \in AffectedSets, Input(affected)
  PROVE  IInv'
  <1>1. /\ es \in State /\ ~es.closed /\ es.inputRevision >= NoRevision
        /\ es.inputRevision \in Int
        /\ affected \in SUBSET Cells
    BY AffectedAssumption DEF IInv, TypeOK, Input, State
  <1>2. Continues(es, es') /\ Reopens(es, affected \cap es.selected, es')
    BY <1>1, BeginInputFacts DEF Input
  <1>3. /\ changes' \in [Cells -> Nat]
        /\ \A c \in Cells \ affected : changes'[c] = changes[c]
    BY DEF IInv, TypeOK, Input, Supersede
  <1>9. \A e \in handling' : \E d \in handling, b \in BOOLEAN :
          (b <=> d.reached \/ d.index \in affected) /\ e = [d EXCEPT !.reached = b]
    <2>1. TAKE e \in handling'
    <2>2. PICK d \in handling : e = [d EXCEPT !.reached = d.reached \/ d.index \in affected]
      BY DEF Input, Overtake
    <2>3. (d.reached \/ d.index \in affected) \in BOOLEAN
      OBVIOUS
    <2>4. QED
      BY <2>2, <2>3, Zenon
  <1>10. \A d \in handling : d \in Event /\ d.index \in Cells
    BY DEF IInv, TypeOK, Event
  <1>4. TypeOK'
    <2>1. \A e \in handling' : e \in Event
      <3>1. TAKE e \in handling'
      <3>2. PICK d \in handling, b \in BOOLEAN : e = [d EXCEPT !.reached = b]
        BY <1>9
      <3>3. QED
        BY <1>10, <3>2, MarkedEvent
    <2>2. QED
      BY <1>2, <1>3, <2>1 DEF IInv, TypeOK, Continues, Input
  <1>5. ResultsAreCurrent'
    BY <1>2, <1>3 DEF IInv, ResultsAreCurrent, Reopens, Input
  <1>6. EventInv'
    <2> SUFFICES ASSUME NEW e \in handling'
                 PROVE  /\ e.attempt <= es'.attempt
                        /\ es'.inputRevision >= 0
                        /\ e.attempt = es'.attempt /\ ~e.reached => e.change = changes'[e.index]
      BY DEF EventInv
    <2>1. PICK d \in handling, b \in BOOLEAN :
            (b <=> d.reached \/ d.index \in affected) /\ e = [d EXCEPT !.reached = b]
      BY <1>9
    <2>2. /\ e.attempt = d.attempt /\ e.index = d.index /\ e.change = d.change /\ e.reached = b
          /\ d.index \in Cells
      BY <1>10, <2>1, MarkedEvent
    <2>3. /\ es.inputRevision \in Int /\ es'.inputRevision \in Int
      BY <1>1, <1>2 DEF State, Continues
    <2>4. QED
      BY <1>2, <1>3, <2>1, <2>2, <2>3 DEF IInv, EventInv, Continues
  <1>7. NoTerminalResult(es)' = NoTerminalResult(es')
    BY DEF NoTerminalResult
  <1>8. QED
    BY <1>1, <1>2, <1>4, <1>5, <1>6, <1>7 DEF IInv, Continues, Input

LEMMA InputErrorPreserves ==
  ASSUME IInv, InputError
  PROVE  IInv'
  <1>1. /\ es \in State /\ ~es.closed /\ es.inputRevision >= NoRevision
        /\ es.inputRevision \in Int
    BY DEF IInv, TypeOK, InputError, State
  <1>2. /\ es' \in State
        /\ es'.attempt = es.attempt /\ es'.closed = es.closed /\ es'.selected = es.selected
        /\ es'.inputRevision >= es.inputRevision
        /\ es'.minimumTokenRevisions = es.minimumTokenRevisions
        /\ NoTerminalResult(es')
    BY <1>1, FailFacts DEF InputError, IsCurrent
  <1>3. es'.inputRevision \in Int
    BY <1>2 DEF State
  <1>4. Continues(es, es')
    BY <1>1, <1>2, <1>3, NoRevisionIsInt DEF Continues, KeepsResults, NoTerminalResult
  <1>5. QED
    BY <1>4, ContinuesPreserves DEF InputError

LEMMA PendingPreserves ==
  ASSUME IInv, NEW a \in Nat, NEW c \in Cells, NEW ch \in Channels, Pending(a, c, ch)
  PROVE  IInv'
  <1>1. /\ es \in State /\ es.inputRevision >= NoRevision
        /\ es.inputRevision = NoRevision => NoTerminalResult(es)
        /\ NextGeneration(c, ch) \in Nat
    BY DEF IInv, TypeOK, State, NextGeneration
  <1>2. Continues(es, es')
    BY <1>1, BeginCellFacts DEF Pending
  <1>3. QED
    BY <1>2, ContinuesPreserves DEF Pending

\* An event that ends an evaluation opens its revision or joins it.
LEMMA ObservePreserves ==
  ASSUME IInv, NEW a \in Nat, NEW c \in Cells, NEW ch \in Channels, Observe(a, c, ch)
  PROVE  IInv'
  <1> DEFINE new == [attempt |-> a, index |-> c, channel |-> ch,
                     generation |-> NextGeneration(c, ch),
                     published |-> BeginPublishes(es, c),
                     change |-> IF a = es.attempt THEN changes[c] ELSE -1,
                     reached |-> FALSE]
  <1>1. /\ es \in State /\ es.inputRevision >= NoRevision
        /\ es.inputRevision = NoRevision => NoTerminalResult(es)
        /\ NextGeneration(c, ch) \in Nat
    BY DEF IInv, TypeOK, State, NextGeneration
  <1>2. Continues(es, es') /\ es'.inputRevision >= 0
    <2>1. Continues(es, es') /\ es'.inputRevision # NoRevision
      BY <1>1, BeginCellFacts DEF Observe
    <2>2. QED
      BY <2>1 DEF Continues, State, NoRevision
  <1>3. a = es.attempt
    BY DEF Observe, Begins, IsCurrent
  <1>4. /\ handling' = {new} /\ UNCHANGED <<active, changes, basis, late>>
    BY DEF Observe
  <1>5. new.attempt = es.attempt /\ new.index = c /\ new.change = changes[c]
    BY <1>3
  <1>6. new \in Event
    <2>1. new.published \in BOOLEAN
      BY DEF BeginPublishes
    <2>2. changes[c] \in Int
      BY DEF IInv, TypeOK
    <2>3. QED
      BY <1>1, <1>3, <2>1, <2>2 DEF Event
  <1> HIDE DEF new
  <1>7. TypeOK'
    BY <1>2, <1>4, <1>6 DEF IInv, TypeOK, Continues
  <1>8. ResultsAreCurrent'
    BY <1>2, <1>4 DEF IInv, ResultsAreCurrent, Continues, KeepsResults
  <1>9. EventInv'
    BY <1>1, <1>2, <1>4, <1>5 DEF EventInv, Continues, State
  <1>10. NoTerminalResult(es)' = NoTerminalResult(es')
    BY DEF NoTerminalResult
  <1>11. QED
    BY <1>2, <1>4, <1>7, <1>8, <1>9, <1>10 DEF IInv, Continues

\* An outcome is accepted only in the attempt that it was computed in.
LEMMA SettlePreserves ==
  ASSUME IInv, NEW e \in handling, NEW status \in Terminal, Settle(e, status)
  PROVE  IInv'
  <1> DEFINE token == TokenFor(es, e)
  <1>1. /\ es \in State /\ e \in Event /\ e.index \in Cells
        /\ token \in Token /\ token.index = e.index /\ token.attempt = e.attempt
    BY DEF IInv, TypeOK, State, Event, Token, TokenFor, TokenOf
  <1>2. /\ handling' = {} /\ UNCHANGED <<active, changes>>
        /\ es' = SettleCell(es, token, status)
    BY DEF Settle
  <1>3. \/ es'.results = es.results /\ basis' = basis /\ late' = late
        \/ /\ es'.results # es.results
           /\ basis' = [basis EXCEPT ![e.index] = e.change]
           /\ late' = IF e.reached THEN late \cup {e.index} ELSE late \ {e.index}
    BY DEF Settle
  <1> HIDE DEF token
  <1>4. \/ es' = es
        \/ /\ IsCurrentToken(es, token)
           /\ Keeps(es, es')
           /\ \A c \in Cells \ {e.index} : es'.results[c] = es.results[c]
    BY <1>1, <1>2, SettleCellFacts DEF Keeps
  <1>5. Keeps(es, es')
    BY <1>1, <1>4 DEF Keeps
  <1>6. TypeOK'
    <2>1. basis' \in [Cells -> Int] /\ late' \subseteq Cells
      BY <1>1, <1>3 DEF IInv, TypeOK, Event
    <2>2. QED
      BY <1>2, <1>5, <2>1 DEF IInv, TypeOK, Keeps
  <1>7. EventInv'
    BY <1>2 DEF EventInv
  <1>8. ResultsAreCurrent'
    <2>1. CASE es'.results = es.results
      BY <1>2, <1>3, <2>1 DEF IInv, ResultsAreCurrent
    <2>2. CASE es'.results # es.results
      <3>1. e.attempt = es.attempt
        BY <1>1, <1>4, <2>2 DEF IsCurrentToken, IsCurrent
      <3>2. e.reached \/ e.change = changes[e.index]
        BY <3>1 DEF IInv, EventInv
      <3>3. e.index \in late' <=> e.reached
        BY <1>3, <2>2
      <3>4. \A c \in Cells \ {e.index} : basis'[c] = basis[c] /\ (c \in late' <=> c \in late)
        BY <1>3, <2>2 DEF IInv, TypeOK
      <3>5. basis'[e.index] = e.change
        BY <1>1, <1>3, <2>2 DEF IInv, TypeOK
      <3>6. QED
        BY <1>2, <1>4, <2>2, <3>2, <3>3, <3>4, <3>5 DEF IInv, ResultsAreCurrent
    <2>3. QED
      BY <2>1, <2>2
  <1>9. es'.inputRevision # NoRevision
    BY <1>1, <1>5 DEF IInv, EventInv, Keeps, State, NoRevision
  <1>10. QED
    BY <1>2, <1>5, <1>6, <1>7, <1>8, <1>9 DEF IInv, Keeps

LEMMA MicrotaskPreserves ==
  ASSUME IInv, Microtask
  PROVE  IInv'
  <1>1. es \in State
    BY DEF IInv, TypeOK
  <1>2. Keeps(es, es') /\ es'.results = es.results
    BY <1>1, RunSettlementFacts DEF Microtask, Keeps
  <1>3. EventInv'
    BY <1>2, KeepsEvents DEF Microtask
  <1>4. TypeOK' /\ ResultsAreCurrent'
    BY <1>2 DEF IInv, TypeOK, ResultsAreCurrent, Keeps, Microtask
  <1>5. NoTerminalResult(es)' = NoTerminalResult(es)
    BY <1>2 DEF NoTerminalResult
  <1>6. QED
    BY <1>2, <1>3, <1>4, <1>5 DEF IInv, Keeps, Microtask

LEMMA DisposePreserves ==
  ASSUME IInv, Dispose
  PROVE  IInv'
  <1>1. es \in State /\ ~es.closed /\ es.attempt \in Nat
    BY DEF IInv, TypeOK, State, Dispose
  <1>2. /\ es' \in State /\ es'.attempt = es.attempt + 1
        /\ es'.inputRevision = es.inputRevision /\ es'.results = es.results
    BY <1>1, CloseFacts DEF Dispose
  <1>3. EventInv'
    BY <1>1, <1>2 DEF IInv, TypeOK, Event, EventInv, Dispose
  <1>4. TypeOK' /\ ResultsAreCurrent'
    BY <1>2 DEF IInv, TypeOK, ResultsAreCurrent, Dispose
  <1>5. NoTerminalResult(es)' = NoTerminalResult(es)
    BY <1>2 DEF NoTerminalResult
  <1>6. QED
    BY <1>2, <1>3, <1>4, <1>5 DEF IInv, Dispose

LEMMA Inductive == IInv /\ [Next]_vars => IInv'
  <1> SUFFICES ASSUME IInv, [Next]_vars
               PROVE  IInv'
    OBVIOUS
  <1>1. ASSUME NEW outcome \in Outcomes, Render(outcome) \/ Replace(outcome)
        PROVE  IInv'
    BY <1>1, RenderPreserves, ReplacePreserves
  <1>2. ASSUME NEW affected \in AffectedSets, Input(affected)
        PROVE  IInv'
    BY <1>2, InputPreserves
  <1>3. CASE InputError
    BY <1>3, InputErrorPreserves
  <1>4. ASSUME NEW a \in 1..es.attempt, NEW c \in Cells, NEW ch \in Channels,
               Pending(a, c, ch) \/ Observe(a, c, ch)
        PROVE  IInv'
    <2>1. a \in Nat
      BY DEF IInv, TypeOK, State
    <2>2. QED
      BY <1>4, <2>1, PendingPreserves, ObservePreserves
  <1>5. ASSUME NEW e \in handling, NEW status \in Terminal, Settle(e, status)
        PROVE  IInv'
    BY <1>5, SettlePreserves
  <1>6. CASE Microtask
    BY <1>6, MicrotaskPreserves
  <1>7. CASE Dispose
    BY <1>7, DisposePreserves
  <1>8. CASE UNCHANGED vars
    BY <1>8 DEF vars, IInv, TypeOK, NoTerminalResult, EventInv, ResultsAreCurrent
  <1>9. QED
    BY <1>1, <1>2, <1>3, <1>4, <1>5, <1>6, <1>7, <1>8 DEF Next

\* The state object keeps its types through every sequence of calls its callers
\* make (mount.ts, cell-state.ts).
THEOREM TypeCorrect == Spec => []TypeOK
  <1>1. IInv => TypeOK
    BY DEF IInv
  <1>2. QED
    BY <1>1, InitHolds, Inductive, PTL DEF Spec

\* Only an event that changes its own cell's inputs leaves a result older than
\* they are: whatever replacements, failures and disposals a host calls, also
\* while an event is handled, every other terminal result was computed from its
\* cell's present inputs (EvaluationState.#isCurrentToken, beginCell and
\* openRevision).
THEOREM ResultsCurrent == Spec => []ResultsAreCurrent
  <1>1. IInv => ResultsAreCurrent
    BY DEF IInv
  <1>2. QED
    BY <1>1, InitHolds, Inductive, PTL DEF Spec

-----------------------------------------------------------------------------
(* Progress *)

ProgressInv ==
  /\ ~es.closed => Coherent(es) /\ Certain(es)
  /\ active => es.selected = Selected

\* A render opens a wave, joins the one that still waits for the same cells, or
\* abandons everything.
LEMMA RenderedCoherent ==
  ASSUME NEW s \in State, NEW outcome \in Outcomes, ~s.closed, Coherent(s)
  PROVE  LET t == RenderedFrom(s, outcome)
         IN  /\ Coherent(t) /\ Certain(t)
             /\ \/ outcome # "rendered" /\ AbandonsWave(s, t)
                \/ /\ t.selected = Selected
                   /\ OpensWave(s, t) \/ SameWave(s, t)
                   /\ s.pending # {} /\ s.selected = Selected => SameWave(s, t)
  <1> DEFINE started == Start(s)
             begun == Begin(started, started.attempt, Selected)
             unprepared == Fail(started, started.attempt)
             unrendered == Fail(begun, begun.attempt)
             t == RenderedFrom(s, outcome)
  <1>1. started \in State /\ started.closed = s.closed
    BY StartFacts
  <1>2. Coherent(started) /\ SameWave(s, started) /\ started.selected = s.selected
    BY StartCoherent
  <1>3. IsCurrent(started, started.attempt)
    BY <1>1 DEF IsCurrent
  <1> HIDE DEF started
  <1>4. begun \in State /\ begun.closed = started.closed
    BY <1>1, <1>2, BeginFacts, SelectedAssumption, NoRevisionIsInt
       DEF Coherent, Recorded, NoTerminalResult, NoResult, Terminal
  <1>5. /\ Coherent(begun) /\ Certain(begun) /\ begun.selected = Selected
        /\ OpensWave(started, begun) \/ SameWave(started, begun)
        /\ started.pending # {} /\ started.selected = Selected => SameWave(started, begun)
    BY <1>1, <1>2, <1>3, BeginCoherent, SelectedAssumption
  <1>6. IsCurrent(begun, begun.attempt)
    BY <1>1, <1>4 DEF IsCurrent
  <1> HIDE DEF begun
  <1>7. Coherent(unprepared) /\ Certain(unprepared) /\ AbandonsWave(started, unprepared)
    BY <1>1, <1>2, <1>3, FailCoherent DEF Coherent
  <1>8. Coherent(unrendered) /\ Certain(unrendered) /\ AbandonsWave(begun, unrendered)
    BY <1>4, <1>5, <1>6, FailCoherent DEF Coherent
  <1> HIDE DEF unprepared, unrendered, t
  <1>9. /\ s.inputRevision \in Int /\ started.inputRevision \in Int /\ begun.inputRevision \in Int
        /\ unrendered.inputRevision \in Int
    <2>1. unrendered \in State
      BY <1>4, <1>5, <1>6, FailFacts DEF Coherent, Recorded, unrendered
    <2>2. QED
      BY <1>1, <1>4, <2>1 DEF State
  <1>10. CASE outcome = "rendered"
    <2>1. t = begun
      BY <1>10 DEF RenderedFrom, t, begun, started
    <2>2. OpensWave(s, begun) \/ SameWave(s, begun)
      BY <1>2, <1>5 DEF OpensWave, SameWave
    <2>3. s.pending # {} /\ s.selected = Selected => SameWave(s, begun)
      BY <1>2, <1>5 DEF SameWave
    <2>4. QED
      BY <1>5, <2>1, <2>2, <2>3 DEF t
  <1>11. CASE outcome = "unprepared"
    <2>1. t = unprepared
      BY <1>11 DEF RenderedFrom, t, unprepared, started
    <2>2. AbandonsWave(s, unprepared)
      BY <1>2, <1>7 DEF AbandonsWave, SameWave
    <2>3. QED
      BY <1>7, <1>11, <2>1, <2>2 DEF t
  <1>12. CASE outcome = "unrendered"
    <2>1. t = unrendered
      BY <1>12 DEF RenderedFrom, t, unrendered, begun, started
    <2>2. AbandonsWave(s, unrendered)
      BY <1>2, <1>5, <1>8, <1>9 DEF AbandonsWave, OpensWave, SameWave
    <2>3. QED
      BY <1>8, <1>12, <2>1, <2>2 DEF t
  <1>13. QED
    BY <1>10, <1>11, <1>12 DEF Outcomes

-----------------------------------------------------------------------------
(* The invariant, and the moves of a step *)

ShutsDown(s, t) ==
  /\ t.closed /\ t.pending = {}
  /\ t.inputRevision = s.inputRevision /\ t.settledRevision = s.settledRevision

\* What a step does to the revisions that a host reads.
Moves(s, t) ==
  \/ SameWave(s, t)
  \/ /\ ~s.closed
     /\ \/ OpensWave(s, t) \/ AbandonsWave(s, t) \/ SettlesWave(s, t) \/ ShutsDown(s, t)
        \/ \E c \in Cells : JoinsWave(s, t, c) \/ FinishesCell(s, t, c)

Advances == ProgressInv' /\ Moves(es, es')

\* An open state that stays open.
LEMMA OpenAdvances ==
  ASSUME ProgressInv, ~es.closed, ~es'.closed, Coherent(es'), Certain(es'),
         Moves(es, es'), active' => es'.selected = Selected
  PROVE  Advances
  BY DEF Advances, ProgressInv, Coherent, Recorded, Certain

LEMMA ProgressInit == Init => ProgressInv
  <1> SUFFICES ASSUME Init
               PROVE  ProgressInv
    OBVIOUS
  <1>1. /\ es.inputRevision = NoRevision /\ es.settledRevision = NoRevision
        /\ es.pending = {} /\ \A c \in Cells : es.results[c] = NoResult
    BY DEF Init, InitialState
  <1>2. {c \in Cells : es.results[c].status = "pending"} = {}
    BY <1>1 DEF NoResult
  <1>3. Coherent(es) /\ Certain(es)
    BY <1>1, <1>2, NoRevisionIsInt DEF Coherent, Recorded, Certain
  <1>4. ~active
    BY DEF Init
  <1>5. QED
    BY <1>3, <1>4 DEF ProgressInv

LEMMA RenderAdvances ==
  ASSUME IInv, ProgressInv, NEW outcome \in Outcomes, Render(outcome)
  PROVE  Advances
  <1>1. es \in State /\ ~es.closed /\ Coherent(es) /\ es' = RenderedFrom(es, outcome)
    BY DEF IInv, TypeOK, ProgressInv, Render
  <1>2. /\ Coherent(es') /\ Certain(es')
        /\ \/ outcome # "rendered" /\ AbandonsWave(es, es')
           \/ es'.selected = Selected /\ (OpensWave(es, es') \/ SameWave(es, es'))
    BY <1>1, RenderedCoherent
  <1>3. Moves(es, es') /\ ~es'.closed
    BY <1>1, <1>2 DEF Moves, OpensWave, SameWave, AbandonsWave
  <1>4. active' => es'.selected = Selected
    BY <1>2 DEF Render
  <1>5. QED
    BY <1>1, <1>2, <1>3, <1>4, OpenAdvances

\* The render that follows an invalidation goes on with the wave it opened, so a
\* replacement is one move.
LEMMA ReplaceAdvances ==
  ASSUME IInv, ProgressInv, NEW outcome \in Outcomes, Replace(outcome)
  PROVE  Advances
  <1> DEFINE s == Invalidate(es)
  <1>1. /\ es \in State /\ ~es.closed /\ Coherent(es) /\ es.selected = Selected
        /\ es' = RenderedFrom(s, outcome)
    BY DEF IInv, TypeOK, ProgressInv, Replace
  <1>2. /\ Coherent(s) /\ ~s.closed /\ s.selected = Selected
        /\ SameWave(es, s) \/ OpensWave(es, s)
        /\ OpensWave(es, s) => Selected \subseteq s.pending
    BY <1>1, InvalidateCoherent
  <1>3. s \in State
    <2>1. es.inputRevision >= NoRevision
          /\ (es.inputRevision = NoRevision => NoTerminalResult(es))
      BY DEF IInv
    <2>2. QED
      BY <1>1, <2>1, InvalidateFacts
  <1> HIDE DEF s
  <1>4. /\ Coherent(es') /\ Certain(es')
        /\ \/ outcome # "rendered" /\ AbandonsWave(s, es')
           \/ /\ es'.selected = Selected
              /\ OpensWave(s, es') \/ SameWave(s, es')
              /\ s.pending # {} => SameWave(s, es')
    BY <1>1, <1>2, <1>3, RenderedCoherent
  <1>5. /\ es.inputRevision \in Int /\ s.inputRevision \in Int /\ es'.inputRevision \in Int
    <2>1. es' \in State
      BY <1>1, <1>2, <1>3, RenderedFromFacts, NoRevisionIsInt
         DEF Coherent, Recorded, NoTerminalResult, NoResult, Terminal
    <2>2. QED
      BY <1>1, <1>3, <2>1 DEF State
  <1>6. SameWave(es, es') \/ OpensWave(es, es') \/ AbandonsWave(es, es')
    <2>1. CASE AbandonsWave(s, es')
      BY <1>2, <1>5, <2>1 DEF SameWave, OpensWave, AbandonsWave
    <2>2. CASE SameWave(s, es')
      BY <1>2, <2>2 DEF SameWave, OpensWave
    <2>3. CASE OpensWave(s, es') /\ es'.selected = Selected /\ SameWave(es, s)
      BY <2>3 DEF SameWave, OpensWave
    <2>4. CASE OpensWave(s, es') /\ es'.selected = Selected /\ OpensWave(es, s) /\ s.pending = {}
      <3>1. es'.pending = {}
        <4>1. \A c \in Cells : es'.results[c].status # "pending"
          BY <1>2, <1>4, <2>4 DEF Coherent, NoResult
        <4>2. QED
          BY <1>4, <4>1 DEF Coherent
      <3>2. QED
        BY <1>5, <2>4, <3>1 DEF OpensWave
    <2>5. QED
      BY <1>2, <1>4, <2>1, <2>2, <2>3, <2>4
  <1>7. Moves(es, es') /\ ~es'.closed
    BY <1>1, <1>6 DEF Moves, SameWave, OpensWave, AbandonsWave
  <1>8. active' => es'.selected = Selected
    BY <1>4 DEF Replace
  <1>9. QED
    BY <1>1, <1>4, <1>7, <1>8, OpenAdvances

LEMMA InputAdvances ==
  ASSUME IInv, ProgressInv, NEW affected \in AffectedSets, Input(affected)
  PROVE  Advances /\ Opened(es, affected \cap es.selected, es')
  <1>1. /\ es \in State /\ ~es.closed /\ Coherent(es) /\ es.selected = Selected
        /\ affected \in SUBSET Cells
        /\ es' = BeginInput(es, es.attempt, affected)
    BY AffectedAssumption DEF IInv, TypeOK, ProgressInv, Input
  <1>2. Opened(es, affected \cap es.selected, es')
    BY <1>1, BeginInputCoherent
  <1>3. Moves(es, es') /\ ~es'.closed
    BY <1>1, <1>2 DEF Moves, Opened, OpensWave
  <1>4. QED
    BY <1>1, <1>2, <1>3, OpenAdvances DEF Opened

LEMMA InputErrorAdvances ==
  ASSUME IInv, ProgressInv, InputError
  PROVE  Advances
  <1>1. /\ es \in State /\ ~es.closed /\ Recorded(es) /\ es.selected = Selected
        /\ es' = Fail(es, es.attempt) /\ IsCurrent(es, es.attempt)
    BY DEF IInv, TypeOK, ProgressInv, Coherent, InputError, IsCurrent
  <1>2. /\ Coherent(es') /\ Certain(es') /\ AbandonsWave(es, es')
        /\ es'.selected = es.selected
    BY <1>1, FailCoherent
  <1>3. Moves(es, es') /\ ~es'.closed
    BY <1>1, <1>2 DEF Moves, AbandonsWave
  <1>4. QED
    BY <1>1, <1>2, <1>3, OpenAdvances

\* An event of the current attempt, whether it goes on to settle its cell or not.
LEMMA EventAdvances ==
  ASSUME IInv, ProgressInv, NEW a \in Nat, NEW c \in Cells, NEW ch \in Channels,
         Begins(es, a, c, ch, NextGeneration(c, ch)), active' = active,
         es' = BeginCell(es, a, c, ch, NextGeneration(c, ch))
  PROVE  Advances
  <1>1. /\ es \in State /\ ~es.closed /\ Coherent(es)
        /\ NextGeneration(c, ch) \in Nat
    BY DEF IInv, TypeOK, State, ProgressInv, Begins, IsCurrent, NextGeneration
  <1>2. /\ Coherent(es') /\ Certain(es') /\ es'.selected = es.selected
        /\ OpensWave(es, es') \/ JoinsWave(es, es', c)
    BY <1>1, BeginCellCoherent
  <1>3. Moves(es, es') /\ ~es'.closed
    BY <1>1, <1>2 DEF Moves, OpensWave, JoinsWave
  <1>4. active' => es'.selected = Selected
    BY <1>2 DEF ProgressInv
  <1>5. QED
    BY <1>1, <1>2, <1>3, <1>4, OpenAdvances

\* A token that is not current changes nothing.
LEMMA SettleAdvances ==
  ASSUME IInv, ProgressInv, NEW e \in handling, NEW status \in Terminal, Settle(e, status)
  PROVE  Advances
  <1> DEFINE token == TokenFor(es, e)
  <1>1. /\ es \in State /\ token \in Token /\ token.index \in Cells
        /\ active' = active /\ es' = SettleCell(es, token, status)
    BY DEF IInv, TypeOK, State, Event, Token, TokenFor, TokenOf, Settle
  <1> HIDE DEF token
  <1>2. CASE IsCurrentToken(es, token)
    <2>1. ~es.closed /\ Coherent(es)
      BY <1>2 DEF ProgressInv, IsCurrentToken, IsCurrent
    <2>2. /\ Coherent(es') /\ Certain(es') /\ es'.selected = es.selected
          /\ FinishesCell(es, es', token.index)
      BY <1>1, <1>2, <2>1, SettleCellCoherent
    <2>3. Moves(es, es') /\ ~es'.closed
      BY <1>1, <2>1, <2>2 DEF Moves, FinishesCell
    <2>4. active' => es'.selected = Selected
      BY <1>1, <2>2 DEF ProgressInv
    <2>5. QED
      BY <2>1, <2>2, <2>3, <2>4, OpenAdvances
  <1>3. CASE ~IsCurrentToken(es, token)
    <2>1. es' = es
      BY <1>1, <1>3 DEF SettleCell
    <2>2. QED
      BY <1>1, <2>1 DEF Advances, ProgressInv, Coherent, Recorded, Certain, Moves, SameWave
  <1>4. QED
    BY <1>2, <1>3

LEMMA MicrotaskAdvances ==
  ASSUME IInv, ProgressInv, Microtask
  PROVE  Advances
  <1>1. es \in State /\ active' = active /\ es' = RunSettlement(es)
    BY DEF IInv, TypeOK, Microtask
  <1>2. CASE ~es.closed
    <2>1. /\ Coherent(es') /\ Certain(es') /\ es'.selected = es.selected
          /\ SameWave(es, es') \/ SettlesWave(es, es')
      BY <1>1, <1>2, RunSettlementCoherent DEF ProgressInv
    <2>2. Moves(es, es') /\ ~es'.closed
      BY <1>2, <2>1 DEF Moves, SameWave, SettlesWave
    <2>3. active' => es'.selected = Selected
      BY <1>1, <2>1 DEF ProgressInv
    <2>4. QED
      BY <1>2, <2>1, <2>2, <2>3, OpenAdvances
  <1>3. CASE es.closed
    <2>1. es' = [es EXCEPT !.settlement = NoRevision]
      BY <1>1, <1>3 DEF RunSettlement
    <2>2. SameWave(es, es') /\ es'.closed
      BY <1>1, <1>3, <2>1 DEF State, SameWave
    <2>3. ~active'
      BY <1>1, <1>3 DEF IInv
    <2>4. QED
      BY <2>2, <2>3 DEF Advances, ProgressInv, Moves
  <1>4. QED
    BY <1>2, <1>3

LEMMA DisposeAdvances ==
  ASSUME IInv, ProgressInv, Dispose
  PROVE  Advances
  <1>1. es \in State /\ ~es.closed /\ es' = Close(es) /\ ~active'
    BY DEF IInv, TypeOK, Dispose
  <1>2. ShutsDown(es, es')
    BY <1>1 DEF Close, State, ShutsDown
  <1>3. QED
    BY <1>1, <1>2 DEF Advances, ProgressInv, Moves, ShutsDown

LEMMA StepAdvances == IInv /\ ProgressInv /\ [Next]_vars => Advances
  <1> SUFFICES ASSUME IInv, ProgressInv, [Next]_vars
               PROVE  Advances
    OBVIOUS
  <1>1. ASSUME NEW outcome \in Outcomes, Render(outcome) \/ Replace(outcome)
        PROVE  Advances
    BY <1>1, RenderAdvances, ReplaceAdvances
  <1>2. ASSUME NEW affected \in AffectedSets, Input(affected)
        PROVE  Advances
    BY <1>2, InputAdvances
  <1>3. CASE InputError
    BY <1>3, InputErrorAdvances
  <1>4. ASSUME NEW a \in 1..es.attempt, NEW c \in Cells, NEW ch \in Channels,
               Pending(a, c, ch) \/ Observe(a, c, ch)
        PROVE  Advances
    <2>1. a \in Nat
      BY DEF IInv, TypeOK, State
    <2>2. /\ Begins(es, a, c, ch, NextGeneration(c, ch)) /\ active' = active
          /\ es' = BeginCell(es, a, c, ch, NextGeneration(c, ch))
      BY <1>4 DEF Pending, Observe
    <2>3. QED
      BY <2>1, <2>2, EventAdvances
  <1>5. ASSUME NEW e \in handling, NEW status \in Terminal, Settle(e, status)
        PROVE  Advances
    BY <1>5, SettleAdvances
  <1>6. CASE Microtask
    BY <1>6, MicrotaskAdvances
  <1>7. CASE Dispose
    BY <1>7, DisposeAdvances
  <1>8. CASE UNCHANGED vars
    <2>1. es' = es /\ active' = active
      BY <1>8 DEF vars
    <2>2. QED
      BY <2>1 DEF Advances, ProgressInv, Coherent, Recorded, Certain, Moves, SameWave
  <1>9. QED
    BY <1>1, <1>2, <1>3, <1>4, <1>5, <1>6, <1>7, <1>8 DEF Next

\* What is recorded about an evaluation tells one story in every state.
THEOREM ProgressHolds == Spec => [](IInv /\ ProgressInv)
  <1>1. IInv /\ ProgressInv /\ [Next]_vars => (IInv /\ ProgressInv)'
    BY Inductive, StepAdvances DEF Advances
  <1>2. QED
    BY <1>1, InitHolds, ProgressInit, PTL DEF Spec

\* Python never refuses a snapshot of a mount: whatever renders, changes,
\* failures and events came before, the revisions, the pending flag and the
\* results it carries agree (save in state.ts, validate_readback_wire in
\* _readback.py).
THEOREM PublishedAccepted == Spec => []PublishedIsAccepted
  <1>1. IInv /\ ProgressInv => PublishedIsAccepted
    <2> SUFFICES ASSUME IInv, ProgressInv, ~es.closed, es.settlement = NoRevision
                 PROVE  Accepted(es)
      BY DEF PublishedIsAccepted
    <2>1. es \in State /\ Coherent(es) /\ Certain(es)
      BY DEF IInv, TypeOK, ProgressInv
    <2>2. es.results \in [Cells -> Result] /\ es.selected \subseteq Cells
          /\ es.inputRevision \in Int /\ es.settledRevision \in Int
      BY <2>1 DEF State
    <2>3. RevisionsAccepted(es)
      BY <2>1, <2>2 DEF Coherent, Recorded, Certain, RevisionsAccepted, ReportedCells
    <2>4. \A c \in ReportedCells(es) : ResultAccepted(es, c)
      BY <2>1 DEF Coherent, Recorded, ReportedCells, ResultAccepted
    <2>5. es.inputRevision # NoRevision /\ ReportedCells(es) # es.selected => es.errors
      BY <2>1, <2>2 DEF Coherent, ReportedCells
    <2>6. es.pending # {} <=> \E c \in Cells : es.results[c].status = "pending"
      BY <2>1 DEF Coherent
    <2>7. QED
      BY <2>3, <2>4, <2>5, <2>6 DEF Accepted
  <1>2. QED
    BY <1>1, ProgressHolds, PTL

\* A host that polls a mount can wait for equal revisions: they mean that no cell
\* is pending, and no order of settlements, events and failures loses the
\* settlement of a revision that waits for nothing (#scheduleSettlement).
THEOREM SettlementCertain == Spec => []SettlementIsCertain
  <1>1. IInv /\ ProgressInv => SettlementIsCertain
    BY DEF IInv, ProgressInv, Coherent, Certain, SettlementIsCertain
  <1>2. QED
    BY <1>1, ProgressHolds, PTL

\* openRevision keeps the cells it does not affect pending, and raises the
\* minimum of the others only.
LEMMA InputKeepsWork ==
  ASSUME IInv, ProgressInv, NEW affected \in AffectedSets, Input(affected),
         NEW e \in handling, e.index \notin affected, IsCurrentToken(es, TokenFor(es, e))
  PROVE  IsCurrentToken(es', TokenFor(es', e))
  <1> DEFINE c == e.index
             ch == e.channel
  <1>1. /\ es \in State /\ ~es.closed /\ es.inputRevision >= NoRevision
        /\ affected \in SUBSET Cells /\ c \in Cells
        /\ es' = BeginInput(es, es.attempt, affected)
    BY AffectedAssumption DEF IInv, TypeOK, Event, Input
  <1>2. Reopens(es, affected \cap es.selected, es')
    BY <1>1, BeginInputFacts
  <1>3. Opened(es, affected \cap es.selected, es')
    BY InputAdvances
  <1>4. IsCurrent(es, e.attempt) /\ c \in es.pending
        /\ es.inputRevision >= es.minimumTokenRevisions[c]
        /\ es.channelGenerations[c][ch] = e.generation
    BY DEF IsCurrentToken, TokenFor, TokenOf
  <1>5. c \in es'.pending
    <2>1. es.results[c].status = "pending"
      BY <1>1, <1>4 DEF ProgressInv, Coherent
    <2>2. c \in es.selected
      BY <1>1, <2>1 DEF ProgressInv, Coherent, NoResult
    <2>3. QED
      BY <1>3, <2>1, <2>2 DEF Opened
  <1>6. /\ es'.minimumTokenRevisions[c] = es.minimumTokenRevisions[c]
        /\ es'.channelGenerations = es.channelGenerations
        /\ es'.attempt = es.attempt /\ es'.closed = es.closed
        /\ es'.inputRevision >= es.inputRevision
    BY <1>1, <1>2 DEF Reopens, State
  <1>7. /\ es.inputRevision \in Int /\ es'.inputRevision \in Int
        /\ es.minimumTokenRevisions[c] \in Int
    <2>1. es' \in State
      BY <1>1, BeginInputFacts DEF Continues
    <2>2. QED
      BY <1>1, <2>1 DEF State
  <1>8. QED
    BY <1>4, <1>5, <1>6, <1>7 DEF IsCurrentToken, IsCurrent, TokenFor, TokenOf

\* An input change costs no evaluation that it does not reach: the event whose
\* callback makes the change still settles its cell (#openRevision).
THEOREM WorkSurvives == Spec => DisjointWorkSurvives
  <1>1. IInv /\ ProgressInv =>
          \A affected \in AffectedSets : Input(affected) =>
            \A e \in handling :
              e.index \notin affected /\ IsCurrentToken(es, TokenFor(es, e))
                => IsCurrentToken(es', TokenFor(es', e))
    BY InputKeepsWork
  <1>2. QED
    BY <1>1, ProgressHolds, PTL DEF DisjointWorkSurvives

-----------------------------------------------------------------------------
(* The refinement *)

LEMMA MovesImplement ==
  ASSUME es \in State, es' \in State, Moves(es, es')
  PROVE  [Progress!Next]_(Progress!vars)
  <1>1. /\ es.inputRevision \in Int /\ es'.inputRevision \in Int
        /\ es'.pending \in SUBSET Cells /\ es.pending \in SUBSET Cells
        /\ es.closed \in BOOLEAN /\ es'.closed \in BOOLEAN
    BY DEF State
  <1>2. CASE SameWave(es, es')
    BY <1>2 DEF SameWave, Progress!vars
  <1>3. CASE ~es.closed /\ OpensWave(es, es')
    <2>1. Progress!Open
      BY <1>1, <1>3 DEF OpensWave, Progress!Open
    <2>2. QED
      BY <2>1 DEF Progress!Next
  <1>4. CASE ~es.closed /\ AbandonsWave(es, es')
    <2>1. Progress!Abandon
      BY <1>1, <1>4 DEF AbandonsWave, Progress!Abandon
    <2>2. QED
      BY <2>1 DEF Progress!Next
  <1>5. CASE ~es.closed /\ SettlesWave(es, es')
    <2>1. Progress!Settle
      BY <1>5 DEF SettlesWave, Progress!Settle
    <2>2. QED
      BY <2>1 DEF Progress!Next
  <1>6. CASE ~es.closed /\ ShutsDown(es, es')
    <2>1. Progress!Shut
      BY <1>1, <1>6 DEF ShutsDown, Progress!Shut
    <2>2. QED
      BY <2>1 DEF Progress!Next
  <1>7. ASSUME ~es.closed, NEW c \in Cells, JoinsWave(es, es', c)
        PROVE  Progress!Next
    BY <1>7 DEF JoinsWave, Progress!Join, Progress!Next
  <1>8. ASSUME ~es.closed, NEW c \in Cells, FinishesCell(es, es', c)
        PROVE  Progress!Next
    BY <1>8 DEF FinishesCell, Progress!Finish, Progress!Next
  <1>9. QED
    BY <1>2, <1>3, <1>4, <1>5, <1>6, <1>7, <1>8 DEF Moves

\* A host that knows RevisionProgress knows the mount: every call of the runtime,
\* whole renders and replacements included, is one move of it or none, so a wave
\* that was declared settled is never reopened under the same number.
THEOREM Implements == Spec => ImplementsProgress
  <1>1. Init => Progress!Init
    BY DEF Init, InitialState, NoRevision, Progress!Init
  <1>2. /\ IInv /\ ProgressInv /\ (IInv /\ ProgressInv)' /\ [Next]_vars
        => [Progress!Next]_(Progress!vars)
    <2> SUFFICES ASSUME IInv, ProgressInv, IInv', [Next]_vars
                 PROVE  [Progress!Next]_(Progress!vars)
      OBVIOUS
    <2>1. es \in State /\ es' \in State
      BY DEF IInv, TypeOK
    <2>2. Moves(es, es')
      BY StepAdvances DEF Advances
    <2>3. QED
      BY <2>1, <2>2, MovesImplement
  <1>3. QED
    BY <1>1, <1>2, ProgressHolds, PTL DEF Spec, ImplementsProgress, Progress!Spec

-----------------------------------------------------------------------------
(* EngineHost *)

\* The engine of a closed host is stopped or about to be, and only the reader closes as one.
Closing ==
  /\ Closed => "stopping" \in signals \/ \E c \in Closers : closing[c] \in {"failing", "marking"}
  /\ reader # "ended" => closing["reader"] = "no"

\* Only a caller that closes the engine reports a timeout.
Reported == \A r \in Requests : ended[r] = "timeout" => Closed

\* Every trace of a stop in the isolate comes from a closed host.
StopHasCause ==
  /\ thread # "finished" => signals = {} \/ Closed
  /\ "terminated" \in signals \/ "notified" \in signals \/ ending = "closed" => Closed
  /\ thread \in {"dropped", "finished"} <=> ending # "none"
  /\ thread # "finished" => exit = "none"
  /\ thread = "finished" /\ exit = "none" => Closed

\* The news of a crash is passed on from the isolate's own record.
CrashHasCause ==
  exit = "none" =>
    /\ ready # "engine_failed" /\ reader # "engine_failed"
    /\ \A r \in Requests : future[r] # "engine_failed" /\ ended[r] # "engine_failed"

Causes == Closing /\ Reported /\ StopHasCause /\ CrashHasCause

EngineInv == EngineTypeOK /\ Causes /\ NoWaiterIsForgotten

-----------------------------------------------------------------------------
(* Messages *)

\* What the reader receives is a message of the service, about one of the requests.
LEMMA Received == MessagesTypeOK /\ outbound # <<>> =>
                    LET m == Head(outbound)
                    IN m.type = "ready" \/ (m.type \in {"source", "response"} /\ m.id \in Requests)
<1> SUFFICES ASSUME MessagesTypeOK, outbound # <<>>
             PROVE  Head(outbound).type = "ready"
                      \/ (Head(outbound).type \in {"source", "response"} /\ Head(outbound).id \in Requests)
  OBVIOUS
<1>1. Head(outbound) \in ToPython
  BY HeadTailProperties DEF MessagesTypeOK
<1> QED
  <2>1. ASSUME Head(outbound) = Ready
        PROVE  Head(outbound).type = "ready"
    BY <2>1 DEF Ready
  <2>2. ASSUME NEW r \in Requests, Head(outbound) = SourceOf(r)
        PROVE  Head(outbound).type = "source" /\ Head(outbound).id = r
    BY <2>2 DEF SourceOf
  <2>3. ASSUME NEW r \in Requests, Head(outbound) = Response(r)
        PROVE  Head(outbound).type = "response" /\ Head(outbound).id = r
    BY <2>3 DEF Response
  <2> QED
    BY <1>1, <2>1, <2>2, <2>3 DEF ToPython

\* Only such messages are ever sent, in either direction.
LEMMA MessagesStep == MessagesTypeOK /\ [EngineNext]_engineVars => MessagesTypeOK'
<1> SUFFICES ASSUME MessagesTypeOK, [EngineNext]_engineVars
             PROVE  MessagesTypeOK'
  OBVIOUS
<1>1. \A r \in Requests : /\ Request(r) \in ToIsolate /\ SourceOf(r) \in ToIsolate
                          /\ SourceOf(r) \in ToPython /\ Response(r) \in ToPython
  BY DEF ToIsolate, ToPython
<1>2. Ready \in ToPython
  BY DEF ToPython
<1> USE DEF MessagesTypeOK
<1>3. ASSUME inbound' = inbound, outbound' = outbound
      PROVE  MessagesTypeOK'
  BY <1>3
<1>4. ASSUME NEW r \in Requests, Send(r)
      PROVE  MessagesTypeOK'
  <2>1. CASE CanSend
    <3>1. inbound' = Append(inbound, Request(r)) /\ outbound' = outbound
      BY <1>4, <2>1 DEF Send
    <3>2. inbound' \in Seq(ToIsolate)
      BY <1>1, <3>1, AppendProperties
    <3> QED
      BY <3>1, <3>2
  <2>2. CASE ~CanSend
    BY <1>4, <2>2 DEF Send
  <2> QED
    BY <2>1, <2>2
<1>5. CASE Deliver
  BY HeadTailProperties, <1>5 DEF Deliver
<1>6. ASSUME NEW r \in Requests, Resolve(r)
      PROVE  MessagesTypeOK'
  BY <1>1, <1>2, AppendProperties, <1>6 DEF Resolve
<1>7. CASE Take
  BY HeadTailProperties, <1>7 DEF Take
<1>8. CASE Load
  BY <1>1, <1>2, AppendProperties, <1>8 DEF Load
<1>9. ASSUME NEW r \in Requests, AskSource(r)
      PROVE  MessagesTypeOK'
  BY <1>1, <1>2, AppendProperties, <1>9 DEF AskSource
<1>10. ASSUME NEW r \in Requests, Respond(r)
      PROVE  MessagesTypeOK'
  BY <1>1, <1>2, AppendProperties, <1>10 DEF Respond
<1>11. ASSUME NEW how, Leave(how)
      PROVE  MessagesTypeOK'
  BY EmptySeq, <1>11 DEF Leave
<1>12. ASSUME NEW r \in Requests,
              \/ BeginCall(r) \/ Register(r) \/ PreparationFailed(r) \/ PreparationTimesOut(r) \/ CancelPreparation(r)
              \/ OrphanEnds(r) \/ Complete(r) \/ TimeOut(r) \/ Cancel(r) \/ CallerCloses(r) \/ Report(r) \/ Loop(r)
       PROVE  MessagesTypeOK'
  BY <1>3, <1>12, Zenon
  DEF isolateVars, BeginCall, Register, PreparationFailed, PreparationTimesOut, CancelPreparation, OrphanEnds, Complete,
      TimeOut, Cancel, GivesUp, CallerCloses, Report, Loop
<1>13. ASSUME NEW c \in Closers, Closes(c)
       PROVE  MessagesTypeOK'
  BY <1>3, <1>13, Zenon DEF isolateVars, Closes, FailPending, StopMarks, StopTerminates, Joined
<1>14. CASE OwnerCloses \/ Disconnect \/ ReaderFails \/ ReaderCloses \/ Publish \/ Finish \/ UNCHANGED engineVars
  BY <1>3, <1>14, Zenon
  DEF isolateVars, engineVars, OwnerCloses, Disconnect, ReaderFails, ReaderCloses, Publish, Finish
<1>15. CASE CreationFails \/ ThreadFails \/ Stopped
  BY <1>11, <1>15, Zenon DEF CreationFails, ThreadFails, Stopped
<1>16. CASE CheckStopping
  BY <1>3, <1>11, <1>16, Zenon DEF CheckStopping
<1> QED
  BY <1>4, <1>5, <1>6, <1>7, <1>8, <1>9, <1>10, <1>12, <1>13, <1>14, <1>15, <1>16, Zenon
  DEF EngineNext, CallGoesOn, Reads, IsolateStep, IsolateNext, IsolateRuns

-----------------------------------------------------------------------------
(* The invariant *)

\* The invariant holds while the engine starts.
LEMMA EngineInitInv == EngineInit => EngineInv
BY HostAssumption, EmptySeq
DEF EngineInit, IsolateInit, EngineInv, Causes, EngineTypeOK, IsolateTypeOK, HostTypeOK, MessagesTypeOK, Closing, Reported, StopHasCause,
    CrashHasCause, NoWaiterIsForgotten, Closers, Failures, Closed, Signals

\* The isolate keeps the types.
LEMMA IsolateStepType == ASSUME EngineTypeOK, MessagesTypeOK', IsolateStep PROVE EngineTypeOK'
<1> USE HostAssumption DEF EngineTypeOK, IsolateTypeOK, HostTypeOK, Closers, Failures, Signals
<1>1. CASE Publish /\ UNCHANGED hostVars
  BY <1>1 DEF Publish, hostVars
<1>2. CASE CreationFails /\ UNCHANGED hostVars
  BY <1>2 DEF CreationFails, Leave, hostVars
<1>3. CASE CheckStopping /\ UNCHANGED hostVars
  BY <1>3 DEF CheckStopping, Leave, hostVars
<1>4. CASE Load /\ UNCHANGED hostVars
  BY <1>4 DEF Load, hostVars
<1>5. CASE Take /\ UNCHANGED hostVars
  BY <1>5 DEF Take, hostVars
<1>6. CASE ThreadFails /\ UNCHANGED hostVars
  BY <1>6 DEF ThreadFails, Leave, hostVars
<1>7. CASE Stopped /\ UNCHANGED hostVars
  BY <1>7 DEF Stopped, Leave, hostVars
<1>8. CASE Finish /\ UNCHANGED hostVars
  BY <1>8 DEF Finish, hostVars
<1>9. ASSUME NEW r \in Requests, AskSource(r), UNCHANGED hostVars
      PROVE  EngineTypeOK'
  BY <1>9 DEF AskSource, hostVars
<1>10. ASSUME NEW r \in Requests, Respond(r), UNCHANGED hostVars
      PROVE  EngineTypeOK'
  BY <1>10 DEF Respond, hostVars
<1>11. ASSUME NEW r \in Requests, Loop(r), UNCHANGED hostVars
      PROVE  EngineTypeOK'
  BY <1>11 DEF Loop, hostVars
<1> QED
  BY <1>1, <1>2, <1>3, <1>4, <1>5, <1>6, <1>7, <1>8, <1>9, <1>10, <1>11, Zenon
  DEF IsolateStep, IsolateNext, IsolateRuns

\* What Python's threads and coroutines do keeps them too.
LEMMA HostStepType == ASSUME EngineTypeOK, MessagesTypeOK', EngineNext PROVE EngineTypeOK'
<1> USE HostAssumption DEF EngineTypeOK, IsolateTypeOK, HostTypeOK, Closers, Failures, Signals, isolateVars
<1>1. ASSUME NEW r \in Requests, BeginCall(r)
      PROVE  EngineTypeOK'
  BY <1>1 DEF BeginCall
<1>2. ASSUME NEW r \in Requests, Register(r)
      PROVE  EngineTypeOK'
  BY <1>2 DEF Register, End
<1>3. ASSUME NEW r \in Requests, PreparationFailed(r)
      PROVE  EngineTypeOK'
  BY <1>3 DEF PreparationFailed, End
<1>4. ASSUME NEW r \in Requests, PreparationTimesOut(r)
      PROVE  EngineTypeOK'
  BY <1>4 DEF PreparationTimesOut
<1>5. ASSUME NEW r \in Requests, CancelPreparation(r)
      PROVE  EngineTypeOK'
  BY <1>5 DEF CancelPreparation
<1>6. ASSUME NEW r \in Requests, OrphanEnds(r)
      PROVE  EngineTypeOK'
  BY <1>6 DEF OrphanEnds
<1>7. ASSUME NEW r \in Requests, Send(r)
      PROVE  EngineTypeOK'
  BY <1>7 DEF Send, End, CanSend, Dropped
<1>8. ASSUME NEW r \in Requests, Complete(r)
      PROVE  EngineTypeOK'
  BY <1>8 DEF Complete, End
<1>9. ASSUME NEW r \in Requests, TimeOut(r)
      PROVE  EngineTypeOK'
  BY <1>9 DEF TimeOut, GivesUp
<1>10. ASSUME NEW r \in Requests, Cancel(r)
      PROVE  EngineTypeOK'
  BY <1>10 DEF Cancel, GivesUp
<1>11. ASSUME NEW r \in Requests, CallerCloses(r)
      PROVE  EngineTypeOK'
  BY <1>11 DEF CallerCloses, BeginClose
<1>12. ASSUME NEW r \in Requests, Report(r)
      PROVE  EngineTypeOK'
  BY <1>12 DEF Report, End
<1>13. ASSUME NEW r \in Requests, Resolve(r)
      PROVE  EngineTypeOK'
  BY <1>13 DEF Resolve, CanSend, Dropped
<1>14. ASSUME NEW c \in Closers, FailPending(c)
      PROVE  EngineTypeOK'
  BY <1>14 DEF FailPending, FailAll
<1>15. ASSUME NEW c \in Closers, StopMarks(c)
      PROVE  EngineTypeOK'
  BY <1>15 DEF StopMarks, MarkStopping
<1>16. ASSUME NEW c \in Closers, StopTerminates(c)
      PROVE  EngineTypeOK'
  BY <1>16 DEF StopTerminates, Terminate
<1>17. ASSUME NEW c \in Closers, Joined(c)
      PROVE  EngineTypeOK'
  BY <1>17 DEF Joined
<1>18. CASE OwnerCloses
  BY <1>18 DEF OwnerCloses, BeginClose
<1>19. CASE Deliver
  BY <1>19, Received DEF Deliver
<1>20. CASE Disconnect
  BY <1>20 DEF Disconnect, Disconnected
<1>21. CASE ReaderFails
  BY <1>21 DEF ReaderFails, FailAll
<1>22. CASE ReaderCloses
  BY <1>22 DEF ReaderCloses, BeginClose
<1>23. CASE IsolateStep
  BY <1>23, IsolateStepType, Zenon
<1> QED
  BY <1>1, <1>2, <1>3, <1>4, <1>5, <1>6, <1>7, <1>8, <1>9, <1>10, <1>11, <1>12,
     <1>13, <1>14, <1>15, <1>16, <1>17, <1>18, <1>19, <1>20, <1>21, <1>22, <1>23, Zenon
  DEF EngineNext, CallGoesOn, Closes, Reads

\* An error and an exit have their cause in the isolate, and only a closed host stops it.
LEMMA IsolateStepCauses == ASSUME EngineTypeOK, Causes, IsolateStep PROVE Causes'
<1> USE HostAssumption DEF EngineTypeOK, HostTypeOK, IsolateTypeOK, Causes, Closing, Reported, StopHasCause, CrashHasCause,
        Closers, Failures, Closed, Signals
<1>1. CASE Publish /\ UNCHANGED hostVars
  BY <1>1 DEF Publish, hostVars
<1>2. CASE CreationFails /\ UNCHANGED hostVars
  BY <1>2 DEF CreationFails, Leave, hostVars
<1>3. CASE CheckStopping /\ UNCHANGED hostVars
  BY <1>3 DEF CheckStopping, Leave, hostVars
<1>4. CASE Load /\ UNCHANGED hostVars
  BY <1>4 DEF Load, hostVars
<1>5. CASE Take /\ UNCHANGED hostVars
  BY <1>5 DEF Take, hostVars
<1>6. CASE ThreadFails /\ UNCHANGED hostVars
  BY <1>6 DEF ThreadFails, Leave, hostVars
<1>7. CASE Stopped /\ UNCHANGED hostVars
  BY <1>7 DEF Stopped, Leave, hostVars
<1>8. CASE Finish /\ UNCHANGED hostVars
  BY <1>8 DEF Finish, hostVars
<1>9. ASSUME NEW r \in Requests, AskSource(r), UNCHANGED hostVars
      PROVE  Causes'
  BY <1>9 DEF AskSource, hostVars
<1>10. ASSUME NEW r \in Requests, Respond(r), UNCHANGED hostVars
      PROVE  Causes'
  BY <1>10 DEF Respond, hostVars
<1>11. ASSUME NEW r \in Requests, Loop(r), UNCHANGED hostVars
      PROVE  Causes'
  BY <1>11 DEF Loop, hostVars
<1> QED
  BY <1>1, <1>2, <1>3, <1>4, <1>5, <1>6, <1>7, <1>8, <1>9, <1>10, <1>11, Zenon
  DEF IsolateStep, IsolateNext, IsolateRuns

\* What Python's threads and coroutines do has its cause too.
LEMMA HostStepCauses == ASSUME EngineTypeOK, Causes, EngineNext PROVE Causes'
<1> USE HostAssumption DEF EngineTypeOK, HostTypeOK, IsolateTypeOK, Causes, Closing, Reported, StopHasCause, CrashHasCause,
        Closers, Failures, Closed, Signals, isolateVars
<1>1. ASSUME NEW r \in Requests, BeginCall(r)
      PROVE  Causes'
  BY <1>1 DEF BeginCall
<1>2. ASSUME NEW r \in Requests, Register(r)
      PROVE  Causes'
  BY <1>2 DEF Register, End
<1>3. ASSUME NEW r \in Requests, PreparationFailed(r)
      PROVE  Causes'
  BY <1>3 DEF PreparationFailed, End
<1>4. ASSUME NEW r \in Requests, PreparationTimesOut(r)
      PROVE  Causes'
  BY <1>4 DEF PreparationTimesOut
<1>5. ASSUME NEW r \in Requests, CancelPreparation(r)
      PROVE  Causes'
  BY <1>5 DEF CancelPreparation
<1>6. ASSUME NEW r \in Requests, OrphanEnds(r)
      PROVE  Causes'
  BY <1>6 DEF OrphanEnds
<1>7. ASSUME NEW r \in Requests, Send(r)
      PROVE  Causes'
  BY <1>7 DEF Send, End, CanSend, Dropped
<1>8. ASSUME NEW r \in Requests, Complete(r)
      PROVE  Causes'
  BY <1>8 DEF Complete, End
<1>9. ASSUME NEW r \in Requests, TimeOut(r)
      PROVE  Causes'
  BY <1>9 DEF TimeOut, GivesUp
<1>10. ASSUME NEW r \in Requests, Cancel(r)
      PROVE  Causes'
  BY <1>10 DEF Cancel, GivesUp
<1>11. ASSUME NEW r \in Requests, CallerCloses(r)
      PROVE  Causes'
  BY <1>11 DEF CallerCloses, BeginClose
<1>12. ASSUME NEW r \in Requests, Report(r)
      PROVE  Causes'
  BY <1>12 DEF Report, End
<1>13. ASSUME NEW r \in Requests, Resolve(r)
      PROVE  Causes'
  BY <1>13 DEF Resolve, CanSend, Dropped
<1>14. ASSUME NEW c \in Closers, FailPending(c)
      PROVE  Causes'
  BY <1>14 DEF FailPending, FailAll
<1>15. ASSUME NEW c \in Closers, StopMarks(c)
      PROVE  Causes'
  BY <1>15 DEF StopMarks, MarkStopping
<1>16. ASSUME NEW c \in Closers, StopTerminates(c)
      PROVE  Causes'
  BY <1>16 DEF StopTerminates, Terminate
<1>17. ASSUME NEW c \in Closers, Joined(c)
      PROVE  Causes'
  BY <1>17 DEF Joined
<1>18. CASE OwnerCloses
  BY <1>18 DEF OwnerCloses, BeginClose
<1>19. CASE Deliver
  BY <1>19, Received DEF Deliver
<1>20. CASE Disconnect
  BY <1>20 DEF Disconnect, Disconnected
<1>21. CASE ReaderFails
  BY <1>21 DEF ReaderFails, FailAll
<1>22. CASE ReaderCloses
  BY <1>22 DEF ReaderCloses, BeginClose
<1>23. CASE IsolateStep
  BY <1>23, IsolateStepCauses, Zenon
<1> QED
  BY <1>1, <1>2, <1>3, <1>4, <1>5, <1>6, <1>7, <1>8, <1>9, <1>10, <1>11, <1>12,
     <1>13, <1>14, <1>15, <1>16, <1>17, <1>18, <1>19, <1>20, <1>21, <1>22, <1>23, Zenon
  DEF EngineNext, CallGoesOn, Closes, Reads

\* A waiter is in the table until it is answered or failed.
LEMMA StepForgetsNobody == ASSUME EngineInv, EngineNext PROVE NoWaiterIsForgotten'
<1> USE HostAssumption DEF EngineInv, EngineTypeOK, HostTypeOK, Causes, Closing, NoWaiterIsForgotten, Closers, Failures, Closed
<1>1. ASSUME NEW r \in Requests, BeginCall(r)
      PROVE  NoWaiterIsForgotten'
  BY <1>1 DEF BeginCall
<1>2. ASSUME NEW r \in Requests, Register(r)
      PROVE  NoWaiterIsForgotten'
  BY <1>2 DEF Register, End
<1>3. ASSUME NEW r \in Requests, PreparationFailed(r)
      PROVE  NoWaiterIsForgotten'
  BY <1>3 DEF PreparationFailed, End
<1>4. ASSUME NEW r \in Requests, PreparationTimesOut(r)
      PROVE  NoWaiterIsForgotten'
  BY <1>4 DEF PreparationTimesOut
<1>5. ASSUME NEW r \in Requests, CancelPreparation(r)
      PROVE  NoWaiterIsForgotten'
  BY <1>5 DEF CancelPreparation
<1>6. ASSUME NEW r \in Requests, OrphanEnds(r)
      PROVE  NoWaiterIsForgotten'
  BY <1>6 DEF OrphanEnds
<1>7. ASSUME NEW r \in Requests, Send(r)
      PROVE  NoWaiterIsForgotten'
  BY <1>7 DEF Send, End, CanSend, Dropped
<1>8. ASSUME NEW r \in Requests, Complete(r)
      PROVE  NoWaiterIsForgotten'
  BY <1>8 DEF Complete, End
<1>9. ASSUME NEW r \in Requests, TimeOut(r)
      PROVE  NoWaiterIsForgotten'
  BY <1>9 DEF TimeOut, GivesUp
<1>10. ASSUME NEW r \in Requests, Cancel(r)
      PROVE  NoWaiterIsForgotten'
  BY <1>10 DEF Cancel, GivesUp
<1>11. ASSUME NEW r \in Requests, CallerCloses(r)
      PROVE  NoWaiterIsForgotten'
  BY <1>11 DEF CallerCloses, BeginClose
<1>12. ASSUME NEW r \in Requests, Report(r)
      PROVE  NoWaiterIsForgotten'
  BY <1>12 DEF Report, End
<1>13. ASSUME NEW r \in Requests, Resolve(r)
      PROVE  NoWaiterIsForgotten'
  BY <1>13 DEF Resolve, CanSend, Dropped
<1>14. ASSUME NEW c \in Closers, FailPending(c)
      PROVE  NoWaiterIsForgotten'
  BY <1>14 DEF FailPending, FailAll
<1>15. ASSUME NEW c \in Closers, StopMarks(c)
      PROVE  NoWaiterIsForgotten'
  BY <1>15 DEF StopMarks, MarkStopping
<1>16. ASSUME NEW c \in Closers, StopTerminates(c)
      PROVE  NoWaiterIsForgotten'
  BY <1>16 DEF StopTerminates, Terminate
<1>17. ASSUME NEW c \in Closers, Joined(c)
      PROVE  NoWaiterIsForgotten'
  BY <1>17 DEF Joined
<1>18. CASE OwnerCloses
  BY <1>18 DEF OwnerCloses, BeginClose
<1>19. CASE Deliver
  BY <1>19, Received DEF Deliver
<1>20. CASE Disconnect
  BY <1>20 DEF Disconnect, Disconnected
<1>21. CASE ReaderFails
  BY <1>21 DEF ReaderFails, FailAll
<1>22. CASE ReaderCloses
  BY <1>22 DEF ReaderCloses, BeginClose
<1>23. CASE IsolateStep
  BY <1>23 DEF IsolateStep, hostVars
<1> QED
  BY <1>1, <1>2, <1>3, <1>4, <1>5, <1>6, <1>7, <1>8, <1>9, <1>10, <1>11, <1>12,
     <1>13, <1>14, <1>15, <1>16, <1>17, <1>18, <1>19, <1>20, <1>21, <1>22, <1>23, Zenon
  DEF EngineNext, CallGoesOn, Closes, Reads

\* No step breaks it.
LEMMA EngineNextInv == EngineInv /\ [EngineNext]_engineVars => EngineInv'
<1> SUFFICES ASSUME EngineInv, [EngineNext]_engineVars
             PROVE  EngineInv'
  OBVIOUS
<1>1. MessagesTypeOK'
  BY MessagesStep DEF EngineInv, EngineTypeOK
<1>2. CASE EngineNext
  BY <1>1, <1>2, HostStepType, HostStepCauses, StepForgetsNobody DEF EngineInv
<1>3. CASE UNCHANGED engineVars
  <2> USE <1>3 DEF engineVars, hostVars, isolateVars, EngineInv, Causes
  <2>1. EngineTypeOK'
    BY <1>1 DEF EngineTypeOK, IsolateTypeOK, HostTypeOK
  <2>2. (Closing /\ Reported /\ StopHasCause)'
    BY DEF Closing, Reported, StopHasCause, Closed
  <2>3. (CrashHasCause /\ NoWaiterIsForgotten)'
    BY DEF CrashHasCause, NoWaiterIsForgotten, Closed
  <2> QED
    BY <2>1, <2>2, <2>3
<1> QED
  BY <1>2, <1>3

\* Every reachable state satisfies the invariant.
THEOREM EngineInvHolds == EngineSpec => []EngineInv
BY EngineInitInv, EngineNextInv, PTL DEF EngineSpec

-----------------------------------------------------------------------------
(* What it implies *)

\* Every variable keeps its type: what a caller, the reader and the isolate pass to each other
\* is what the other side can receive.
THEOREM EngineTypes == EngineSpec => []EngineTypeOK
<1>1. EngineInv => EngineTypeOK
  BY DEF EngineInv
<1> QED
  BY EngineInvHolds, <1>1, PTL

\* However many requests there are and whoever closes the engine while they are made, nobody
\* waits for an answer that cannot come.
THEOREM NobodyIsForgotten == EngineSpec => []NoWaiterIsForgotten
<1>1. EngineInv => NoWaiterIsForgotten
  BY DEF EngineInv
<1> QED
  BY EngineInvHolds, <1>1, PTL

\* A reported timeout has closed the engine, and the isolate is told to stop or about to be.
THEOREM TimeoutsStop == EngineSpec => []TimeoutStopsTheEngine
<1>1. EngineInv => TimeoutStopsTheEngine
  BY DEF EngineInv, Causes, Reported, Closing, TimeoutStopsTheEngine
<1> QED
  BY EngineInvHolds, <1>1, PTL

\* A caller is told of a failed engine only after the isolate recorded an error: the news runs
\* from the isolate's exit over the reader thread to the futures, and a stop starts none.
THEOREM FailuresHaveCauses == EngineSpec => []FailureHasCause
<1>1. EngineInv => FailureHasCause
  BY DEF EngineInv, Causes, CrashHasCause, FailureHasCause
<1> QED
  BY EngineInvHolds, <1>1, PTL

-----------------------------------------------------------------------------
(* Attachments *)

Status == {"idle", "reads", "made", "waits", "answered"}
Results == {Nothing, Original, Failed} \cup {Blob(c) : c \in Calls}
MaybeCall == Calls \cup {NoCall}

AttachmentsTypeOK ==
  /\ registry \in [disposed : BOOLEAN, supported : BOOLEAN, urls : [Keys -> MaybeCall]]
  /\ promises \in [Keys -> MaybeCall]
  /\ doing \in [Calls -> [status : Status, on : MaybeCall, result : Results]]
  /\ objects \subseteq Calls

\* A call's promise is in the registry as long as it reads, and its file has no URL.
Reading ==
  ~registry.disposed => \A c \in Calls : doing[c].status = "reads" =>
    promises[File(c)] = c /\ registry.urls[File(c)] = NoCall

\* Calls share promises of their file only.
Sharing ==
  /\ \A k \in Keys : promises[k] # NoCall => File(promises[k]) = k
  /\ \A c \in Calls : doing[c].status # "idle" =>
       doing[c].on \in Calls /\ File(doing[c].on) = File(c)
  /\ \A c \in Calls : doing[c].status = "made" => doing[c].on = c

\* While the registry lives, what calls answered are the URLs it knows.
Known ==
  ~registry.disposed => \A c, d \in Calls :
    doing[c].result = Blob(d) => registry.urls[File(c)] = d

AttachmentsInv == AttachmentsTypeOK /\ Reading /\ Sharing /\ Known /\ UrlsEndWithRegistry /\ OneUrlPerFile

LEMMA FileIsKey == ASSUME AttachmentsAssumption, NEW c \in Calls PROVE File(c) \in Keys
BY DEF AttachmentsAssumption, File, Resolved

\* The calls of the database are for files of their own.
LEMMA DbCallsDistinct ==
  ASSUME AttachmentsAssumption, NEW c \in DbCalls, NEW d \in DbCalls, File(c) = File(d)
  PROVE  c = d
<1>1. PICK n \in Names : c = DbCall[n]
  BY DEF DbCalls
<1>2. PICK m \in Names : d = DbCall[m]
  BY DEF DbCalls
<1>3. File(c) = n /\ File(d) = m
  BY <1>1, <1>2 DEF AttachmentsAssumption, File, Resolved
<1> QED
  BY <1>1, <1>2, <1>3

\* What registeredBlobUrl does with a call that asks.
LEMMA AskedIs ==
  ASSUME AttachmentsAssumption, AttachmentsTypeOK, NEW c \in Calls
  PROVE  \/ registry.disposed /\ Asked(c) = Doing("answered", c, Original)
         \/ /\ ~registry.disposed /\ registry.urls[File(c)] \in Calls
            /\ Asked(c) = Doing("answered", c, Blob(registry.urls[File(c)]))
         \/ Makes(c) /\ Asked(c) = Doing("reads", c, Nothing)
         \/ Makes(c) /\ Asked(c) = Doing("made", c, Original)
         \/ /\ ~registry.disposed /\ promises[File(c)] \in Calls
            /\ Asked(c) = Doing("waits", promises[File(c)], Nothing)
<1>1. registry.urls[File(c)] \in MaybeCall /\ promises[File(c)] \in MaybeCall
  BY FileIsKey DEF AttachmentsTypeOK
<1>2. registry.disposed \in BOOLEAN /\ registry.supported \in BOOLEAN
  BY DEF AttachmentsTypeOK
<1>3. CASE registry.disposed
  BY <1>3 DEF Asked, Makes
<1>4. CASE ~registry.disposed /\ registry.urls[File(c)] # NoCall
  BY <1>1, <1>4 DEF Asked, Makes, MaybeCall
<1>5. CASE Makes(c)
  BY <1>2, <1>5 DEF Asked, Makes
<1>6. CASE ~registry.disposed /\ registry.urls[File(c)] = NoCall /\ ~Makes(c)
  BY <1>1, <1>6 DEF Asked, Makes, MaybeCall
<1> QED
  BY <1>3, <1>4, <1>5, <1>6

\* Calls for files of their own keep the invariant.
LEMMA AskAllInv ==
  ASSUME AttachmentsAssumption, AttachmentsInv, NEW cs \in SUBSET Calls, AskAll(cs),
         \A c, d \in cs : File(c) = File(d) => c = d, UNCHANGED <<registry, objects>>
  PROVE  AttachmentsInv'
<1> USE DEF AttachmentsInv
<1>1. \A c \in cs : doing'[c] = Asked(c) /\ doing[c].status = "idle"
  BY DEF AskAll
<1>2. \A c \in Calls \ cs : doing'[c] = doing[c]
  BY DEF AskAll
<1>3. \A c \in cs : Makes(c) => promises'[File(c)] = c
  <2> SUFFICES ASSUME NEW c \in cs, Makes(c) PROVE promises'[File(c)] = c
    OBVIOUS
  <2>1. File(c) \in Keys
    BY FileIsKey
  <2>2. c = CHOOSE d \in cs : File(d) = File(c)
    OBVIOUS
  <2> QED
    BY <2>1, <2>2 DEF AskAll
<1>4. \A k \in Keys : promises'[k] = promises[k] \/ \E c \in cs : Makes(c) /\ File(c) = k /\ promises'[k] = c
  <2> SUFFICES ASSUME NEW k \in Keys, promises'[k] # promises[k]
               PROVE  \E c \in cs : Makes(c) /\ File(c) = k /\ promises'[k] = c
    OBVIOUS
  <2>1. PICK c \in cs : Makes(c) /\ File(c) = k
    BY DEF AskAll
  <2> QED
    BY <2>1, <1>3
<1>5. \A c \in Calls : promises[File(c)] # NoCall => promises'[File(c)] = promises[File(c)]
  BY <1>4, FileIsKey DEF Makes
<1>6. AttachmentsTypeOK'
  <2>1. \A c \in cs : Asked(c) \in [status : Status, on : MaybeCall, result : Results]
    BY AskedIs DEF Doing, Status, MaybeCall, Results
  <2>2. doing' \in [Calls -> [status : Status, on : MaybeCall, result : Results]]
    BY <2>1 DEF AskAll, AttachmentsTypeOK
  <2>3. promises' \in [Keys -> MaybeCall]
    BY <1>4 DEF AskAll, AttachmentsTypeOK, MaybeCall
  <2> QED
    BY <2>2, <2>3 DEF AttachmentsTypeOK
<1>7. Reading'
  <2> SUFFICES ASSUME ~registry.disposed, NEW c \in Calls, doing'[c].status = "reads"
               PROVE  promises'[File(c)] = c /\ registry.urls[File(c)] = NoCall
    BY DEF Reading
  <2>1. CASE c \in cs
    <3>1. Makes(c)
      BY <1>1, <2>1, AskedIs DEF Doing
    <3> QED
      BY <1>3, <2>1, <3>1 DEF Makes
  <2>2. CASE c \notin cs
    <3>1. promises[File(c)] = c /\ registry.urls[File(c)] = NoCall
      BY <1>2, <2>2 DEF Reading
    <3> QED
      BY <1>5, <3>1 DEF AttachmentsAssumption
  <2> QED
    BY <2>1, <2>2
<1>8. Sharing'
  <2>1. \A k \in Keys : promises'[k] # NoCall => File(promises'[k]) = k
    BY <1>4 DEF Sharing
  <2>2. ASSUME NEW c \in Calls, doing'[c].status # "idle"
        PROVE  /\ doing'[c].on \in Calls /\ File(doing'[c].on) = File(c)
               /\ doing'[c].status = "made" => doing'[c].on = c
    <3>1. CASE c \in cs
      BY <1>1, <3>1, AskedIs, FileIsKey DEF Doing, Sharing, AttachmentsAssumption
    <3>2. CASE c \notin cs
      BY <1>2, <2>2, <3>2 DEF Sharing
    <3> QED
      BY <3>1, <3>2
  <2> QED
    BY <2>1, <2>2 DEF Sharing
<1>9. \A c \in cs, d \in Calls : doing'[c].result = Blob(d) =>
        ~registry.disposed /\ d = registry.urls[File(c)]
  BY <1>1, AskedIs DEF Doing, Blob, Nothing, Original
<1>10. Known'
  BY <1>2, <1>9 DEF Known
<1>11. OneUrlPerFile'
  <2> SUFFICES ASSUME NEW c \in Calls, NEW d \in Calls, File(c) = File(d),
                      doing'[c].result.kind = "blob", doing'[d].result.kind = "blob"
               PROVE  doing'[c].result = doing'[d].result
    BY DEF OneUrlPerFile
  <2>1. PICK x \in Calls, y \in Calls : doing'[c].result = Blob(x) /\ doing'[d].result = Blob(y)
    BY <1>6 DEF AttachmentsTypeOK, Results, Nothing, Original, Failed
  <2>2. CASE c \in cs \/ d \in cs
    <3>1. ~registry.disposed
      BY <1>9, <2>1, <2>2
    <3>2. registry.urls[File(c)] = x /\ registry.urls[File(d)] = y
      BY <1>10, <2>1, <3>1 DEF Known
    <3> QED
      BY <2>1, <3>2
  <2>3. CASE c \notin cs /\ d \notin cs
    BY <1>2, <2>3 DEF OneUrlPerFile
  <2> QED
    BY <2>2, <2>3
<1>12. UrlsEndWithRegistry'
  BY DEF UrlsEndWithRegistry
<1> QED
  BY <1>6, <1>7, <1>8, <1>10, <1>11, <1>12

LEMMA AttachmentsInitInv == ASSUME AttachmentsAssumption, AttachmentsInit PROVE AttachmentsInv
<1>1. registry.urls = [k \in Keys |-> NoCall] /\ registry.disposed = FALSE
  BY DEF AttachmentsInit
<1>2. AttachmentsTypeOK
  BY DEF AttachmentsInit, AttachmentsTypeOK, MaybeCall, Doing, Status, Results
<1>3. Reading /\ Sharing /\ Known /\ OneUrlPerFile
  BY DEF AttachmentsInit, Reading, Sharing, Known, OneUrlPerFile, Doing, Nothing, Blob
<1>4. UrlsEndWithRegistry
  BY <1>1 DEF AttachmentsInit, UrlsEndWithRegistry, Range
<1> QED
  BY <1>2, <1>3, <1>4 DEF AttachmentsInv

\* A settled promise without a URL.
LEMMA MadeInv ==
  ASSUME AttachmentsAssumption, AttachmentsInv, NEW c \in Calls, doing[c].status = "reads",
         NEW result \in {Original, Failed}, Made(c, result), UNCHANGED <<registry, promises, objects>>
  PROVE  AttachmentsInv'
<1> USE DEF AttachmentsInv
<1>1. doing'[c] = Doing("made", c, result) /\ \A d \in Calls \ {c} : doing'[d] = doing[d]
  BY DEF Made, AttachmentsTypeOK
<1>2. AttachmentsTypeOK'
  BY DEF Made, AttachmentsTypeOK, Doing, Status, Results, MaybeCall
<1>3. Reading' /\ Sharing'
  BY <1>1 DEF Doing, Reading, Sharing
<1>4. Known' /\ OneUrlPerFile'
  BY <1>1 DEF Doing, Original, Failed, Blob, Known, OneUrlPerFile
<1>5. UrlsEndWithRegistry'
  BY DEF UrlsEndWithRegistry
<1> QED
  BY <1>2, <1>3, <1>4, <1>5

\* The URL of a file that had none.
LEMMA CreateUrlInv ==
  ASSUME AttachmentsAssumption, AttachmentsInv, NEW c \in Calls, CreateUrl(c)
  PROVE  AttachmentsInv'
<1> USE DEF AttachmentsInv, CreateUrl
<1>1. doing'[c] = Doing("made", c, Blob(c)) /\ \A d \in Calls \ {c} : doing'[d] = doing[d]
  BY DEF Made, AttachmentsTypeOK
<1>2. /\ registry'.urls = [registry.urls EXCEPT ![File(c)] = c]
      /\ registry'.disposed = registry.disposed /\ ~registry.disposed
      /\ registry' \in [disposed : BOOLEAN, supported : BOOLEAN, urls : [Keys -> MaybeCall]]
  BY FileIsKey DEF AttachmentsTypeOK, MaybeCall
<1>3. /\ registry'.urls[File(c)] = c /\ registry.urls[File(c)] = NoCall
      /\ \A k \in Keys \ {File(c)} : registry'.urls[k] = registry.urls[k]
  BY <1>2, FileIsKey DEF AttachmentsTypeOK, Reading
<1>4. AttachmentsTypeOK'
  BY <1>2 DEF Made, AttachmentsTypeOK, Doing, Status, Results, MaybeCall
<1>5. Reading'
  <2> SUFFICES ASSUME NEW d \in Calls, doing'[d].status = "reads"
               PROVE  promises[File(d)] = d /\ registry'.urls[File(d)] = NoCall
    BY DEF Reading
  <2>1. d # c /\ doing[d].status = "reads"
    BY <1>1 DEF Doing
  <2>2. promises[File(d)] = d /\ registry.urls[File(d)] = NoCall /\ promises[File(c)] = c
    BY <2>1 DEF Reading
  <2> QED
    BY <1>3, <2>1, <2>2, FileIsKey
<1>6. Sharing'
  BY <1>1 DEF Doing, Sharing
<1>7. \A d \in Calls : File(d) = File(c) /\ d # c => doing[d].result.kind # "blob"
  <2> SUFFICES ASSUME NEW d \in Calls, File(d) = File(c), doing[d].result.kind = "blob" PROVE FALSE
    OBVIOUS
  <2>1. PICK x \in Calls : doing[d].result = Blob(x)
    BY DEF AttachmentsTypeOK, Results, Nothing, Original, Failed
  <2> QED
    BY <1>3, <2>1 DEF Known, AttachmentsAssumption
<1>8. Known'
  <2> SUFFICES ASSUME NEW d \in Calls, NEW x \in Calls, doing'[d].result = Blob(x)
               PROVE  registry'.urls[File(d)] = x
    BY DEF Known
  <2>1. CASE d = c
    BY <1>1, <1>3, <2>1 DEF Doing, Blob
  <2>2. CASE d # c
    <3>1. doing[d].result = Blob(x) /\ File(d) # File(c)
      BY <1>1, <1>7, <2>2 DEF Blob
    <3> QED
      BY <1>3, <3>1, FileIsKey DEF Known
  <2> QED
    BY <2>1, <2>2
<1>9. OneUrlPerFile'
  BY <1>1, <1>7 DEF OneUrlPerFile
<1>10. UrlsEndWithRegistry'
  <2>1. \A k \in Keys : registry'.urls[k] = IF k = File(c) THEN c ELSE registry.urls[k]
    BY <1>3
  <2>2. DOMAIN registry.urls = Keys /\ DOMAIN registry'.urls = Keys
    BY <1>2 DEF AttachmentsTypeOK
  <2>3. Range(registry'.urls) \ {NoCall} = (Range(registry.urls) \ {NoCall}) \cup {c}
    BY <1>3, <2>1, <2>2, FileIsKey DEF Range, AttachmentsAssumption
  <2> QED
    BY <1>2, <2>3 DEF UrlsEndWithRegistry
<1> QED
  BY <1>4, <1>5, <1>6, <1>8, <1>9, <1>10

\* An answer is that of the promise, which is of the same file.
LEMMA AnswerInv ==
  ASSUME AttachmentsAssumption, AttachmentsInv, NEW c \in Calls, Answer(c)
  PROVE  AttachmentsInv'
<1> USE DEF AttachmentsInv, Answer
<1>1. doing[c].on \in Calls /\ File(doing[c].on) = File(c)
  BY DEF Sharing
<1>2. /\ doing'[c].status = "answered" /\ doing'[c].on = doing[c].on
      /\ doing'[c].result = doing[doing[c].on].result
      /\ \A d \in Calls \ {c} : doing'[d] = doing[d]
  BY DEF AttachmentsTypeOK
<1>3. AttachmentsTypeOK'
  <2>1. doing[doing[c].on].result \in Results
    BY <1>1 DEF AttachmentsTypeOK
  <2>2. doing' \in [Calls -> [status : Status, on : MaybeCall, result : Results]]
    BY <2>1 DEF AttachmentsTypeOK, Status
  <2>3. promises' \in [Keys -> MaybeCall]
    BY DEF AttachmentsTypeOK, MaybeCall
  <2> QED
    BY <2>2, <2>3 DEF AttachmentsTypeOK
<1>4. Reading'
  <2> SUFFICES ASSUME ~registry.disposed, NEW d \in Calls, doing'[d].status = "reads"
               PROVE  promises'[File(d)] = d /\ registry.urls[File(d)] = NoCall
    BY DEF Reading
  <2>1. d # c /\ doing[d].status = "reads"
    BY <1>2
  <2>2. promises[File(d)] = d /\ registry.urls[File(d)] = NoCall
    BY <2>1 DEF Reading
  <2> QED
    BY <2>1, <2>2, FileIsKey
<1>5. Sharing'
  <2>1. \A k \in Keys : promises'[k] # NoCall => promises'[k] = promises[k]
    OBVIOUS
  <2>2. \A k \in Keys : promises'[k] # NoCall => File(promises'[k]) = k
    BY <2>1 DEF Sharing
  <2>3. ASSUME NEW d \in Calls, doing'[d].status # "idle"
        PROVE  /\ doing'[d].on \in Calls /\ File(doing'[d].on) = File(d)
               /\ doing'[d].status = "made" => doing'[d].on = d
    <3>1. CASE d = c
      BY <1>1, <1>2, <3>1
    <3>2. CASE d # c
      BY <1>2, <2>3, <3>2 DEF Sharing
    <3> QED
      BY <3>1, <3>2
  <2> QED
    BY <2>2, <2>3 DEF Sharing
<1>6. \A d \in Calls : \E e \in Calls : File(e) = File(d) /\ doing'[d].result = doing[e].result
  BY <1>1, <1>2
<1>7. Known'
  BY <1>6 DEF Known
<1>8. OneUrlPerFile'
  <2> SUFFICES ASSUME NEW d \in Calls, NEW e \in Calls, File(d) = File(e),
                      doing'[d].result.kind = "blob", doing'[e].result.kind = "blob"
               PROVE  doing'[d].result = doing'[e].result
    BY DEF OneUrlPerFile
  <2>1. PICK x \in Calls : File(x) = File(d) /\ doing'[d].result = doing[x].result
    BY <1>6
  <2>2. PICK y \in Calls : File(y) = File(e) /\ doing'[e].result = doing[y].result
    BY <1>6
  <2> QED
    BY <2>1, <2>2 DEF OneUrlPerFile
<1>9. UrlsEndWithRegistry'
  BY DEF UrlsEndWithRegistry
<1> QED
  BY <1>3, <1>4, <1>5, <1>7, <1>8, <1>9

\* Cleanup, during which one call may settle with the original URL.
LEMMA CleanUpInv ==
  ASSUME AttachmentsAssumption, AttachmentsInv, CleanUp,
         \/ UNCHANGED doing
         \/ \E c \in Calls : doing[c].status = "reads" /\ Made(c, Original)
  PROVE  AttachmentsInv'
<1> USE DEF AttachmentsInv, CleanUp
<1>1. /\ registry'.urls = [k \in Keys |-> NoCall] /\ registry'.disposed = TRUE
      /\ registry' \in [disposed : BOOLEAN, supported : BOOLEAN, urls : [Keys -> MaybeCall]]
  BY DEF AttachmentsTypeOK, MaybeCall
<1>2. AttachmentsTypeOK'
  BY <1>1 DEF Made, AttachmentsTypeOK, Doing, Status, Results, MaybeCall
<1>3. Reading' /\ Known'
  BY <1>1 DEF Reading, Known
<1>4. \A d \in Calls : \/ doing'[d] = doing[d]
                       \/ doing'[d] = Doing("made", d, Original)
  BY DEF Made, AttachmentsTypeOK
<1>5. Sharing'
  <2>1. \A k \in Keys : promises'[k] = NoCall
    OBVIOUS
  <2>2. ASSUME NEW d \in Calls, doing'[d].status # "idle"
        PROVE  /\ doing'[d].on \in Calls /\ File(doing'[d].on) = File(d)
               /\ doing'[d].status = "made" => doing'[d].on = d
    <3> HIDE DEF AttachmentsInv, CleanUp
    <3>1. CASE doing'[d] = doing[d]
      BY <2>2, <3>1 DEF AttachmentsInv, Sharing
    <3>2. CASE doing'[d] = Doing("made", d, Original)
      BY <3>2 DEF Doing
    <3> QED
      BY <1>4, <3>1, <3>2
  <2> QED
    BY <2>1, <2>2 DEF Sharing
<1>6. OneUrlPerFile'
  <2>1. \A d \in Calls : doing'[d].result.kind = "blob" => doing'[d].result = doing[d].result
    <3> HIDE DEF AttachmentsInv, CleanUp
    <3>1. ASSUME NEW d \in Calls, doing'[d] = Doing("made", d, Original)
          PROVE  doing'[d].result.kind # "blob"
      BY <3>1 DEF Doing, Original
    <3> QED
      BY <1>4, <3>1
  <2> QED
    BY <2>1 DEF OneUrlPerFile
<1>7. UrlsEndWithRegistry'
  BY <1>1 DEF UrlsEndWithRegistry, Range
<1> QED
  BY <1>2, <1>3, <1>5, <1>6, <1>7

LEMMA AttachmentsStepInv ==
  ASSUME AttachmentsAssumption, AttachmentsInv, [AttachmentsNext]_attachmentVars PROVE AttachmentsInv'
<1>1. ASSUME NEW c \in Calls, Ask(c) PROVE AttachmentsInv'
  BY <1>1, AskAllInv DEF Ask
<1>2. ASSUME NEW c \in Calls, CreateUrl(c) PROVE AttachmentsInv'
  BY <1>2, CreateUrlInv
<1>3. ASSUME NEW c \in Calls, BlobLate(c) PROVE AttachmentsInv'
  BY <1>3, MadeInv DEF BlobLate
<1>4. ASSUME NEW c \in Calls, BlobFails(c) PROVE AttachmentsInv'
  BY <1>4, MadeInv DEF BlobFails
<1>5. ASSUME NEW c \in Calls, Answer(c) PROVE AttachmentsInv'
  BY <1>5, AnswerInv
<1>6. ASSUME NEW c \in Calls, Interrupted(c) PROVE AttachmentsInv'
  BY <1>6, CleanUpInv DEF Interrupted
<1>7. CASE DisposeRegistry
  BY <1>7, CleanUpInv DEF DisposeRegistry
<1>8. CASE OpenDb
  <2>1. DbCalls \subseteq Calls
    BY DEF AttachmentsAssumption, DbCalls
  <2> QED
    BY <1>8, <2>1, AskAllInv, DbCallsDistinct DEF OpenDb
<1>9. ASSUME UNCHANGED <<registry, promises, doing, objects>> PROVE AttachmentsInv'
  BY <1>9
  DEF AttachmentsInv, AttachmentsTypeOK, Reading, Sharing, Known, UrlsEndWithRegistry, OneUrlPerFile
<1> QED
  BY <1>1, <1>2, <1>3, <1>4, <1>5, <1>6, <1>7, <1>8, <1>9
  DEF AttachmentsNext, DbFiles, DbOpens, DbFails, LoadSqlite, SqliteLoaded, SqliteFails, attachmentVars

\* No object URL outlives the registry, and none is lost while it lives
\* (attachments.ts:260-275, 316-323).
THEOREM UrlsEnd == ASSUME AttachmentsAssumption PROVE AttachmentsSpec => []UrlsEndWithRegistry
<1>1. AttachmentsInit => AttachmentsInv
  BY AttachmentsInitInv
<1>2. AttachmentsInv /\ [AttachmentsNext]_attachmentVars => AttachmentsInv'
  BY AttachmentsStepInv
<1>3. AttachmentsInv => UrlsEndWithRegistry
  BY DEF AttachmentsInv
<1> QED
  BY <1>1, <1>2, <1>3, PTL DEF AttachmentsSpec

\* Everyone who asks for a file gets the same object URL (attachments.ts:235-250).
THEOREM OneUrl == ASSUME AttachmentsAssumption PROVE AttachmentsSpec => []OneUrlPerFile
<1>1. AttachmentsInit => AttachmentsInv
  BY AttachmentsInitInv
<1>2. AttachmentsInv /\ [AttachmentsNext]_attachmentVars => AttachmentsInv'
  BY AttachmentsStepInv
<1>3. AttachmentsInv => OneUrlPerFile
  BY DEF AttachmentsInv
<1> QED
  BY <1>1, <1>2, <1>3, PTL DEF AttachmentsSpec

-----------------------------------------------------------------------------
(* The database over the files, and SQLite *)

Loading == {"running", "loaded", "failed"}

SqliteTypeOK == sqlite \in [module : Nat, loads : Seq(Loading), got : [Openers -> Nat]]

\* A promise in the registry has not been answered.
Unanswered == \A k \in Keys : promises[k] # NoCall => doing[promises[k]].status \in {"reads", "made"}

\* Every load but the module of the page has failed, and that one has not.
OneLoad ==
  /\ sqlite.module # 0 => sqlite.module \in DOMAIN sqlite.loads
  /\ \A n \in DOMAIN sqlite.loads : sqlite.loads[n] # "failed" <=> n = sqlite.module

\* No database is open in a runtime that has ended.
DbEnds == db = "open" => ~registry.disposed

FilesInv == AttachmentsInv /\ SqliteTypeOK /\ Unanswered /\ OneLoad /\ DbEnds

\* A promise enters the registry with the call that makes it and leaves it with its answer.
LEMMA UnansweredStep ==
  ASSUME AttachmentsAssumption, AttachmentsInv, Unanswered, AttachmentsNext PROVE Unanswered'
<1> SUFFICES ASSUME NEW k \in Keys, promises'[k] # NoCall
             PROVE  doing'[promises'[k]].status \in {"reads", "made"}
  BY DEF Unanswered
<1>1. /\ \A j \in Keys : promises[j] \in MaybeCall
      /\ doing \in [Calls -> [status : Status, on : MaybeCall, result : Results]]
  BY DEF AttachmentsInv, AttachmentsTypeOK
<1>2. ASSUME NEW cs \in SUBSET Calls, AskAll(cs), \A c, d \in cs : File(c) = File(d) => c = d
      PROVE  doing'[promises'[k]].status \in {"reads", "made"}
  <2>1. CASE \E c \in cs : Makes(c) /\ File(c) = k
    <3>1. PICK c \in cs : Makes(c) /\ File(c) = k
      BY <2>1
    <3>2. c = CHOOSE d \in cs : File(d) = k
      BY <1>2, <3>1
    <3>3. promises'[k] = c
      BY <1>2, <3>1, <3>2 DEF AskAll
    <3>4. doing'[c] = Asked(c)
      BY <1>2 DEF AskAll
    <3>5. Asked(c).status \in {"reads", "made"}
      BY <3>1 DEF Asked, Makes, Doing
    <3> QED
      BY <3>3, <3>4, <3>5
  <2>2. CASE ~\E c \in cs : Makes(c) /\ File(c) = k
    <3>1. promises'[k] = promises[k]
      BY <1>2, <2>2 DEF AskAll
    <3>2. promises[k] \in Calls /\ doing[promises[k]].status \in {"reads", "made"}
      BY <1>1, <3>1 DEF Unanswered, MaybeCall
    <3>3. promises[k] \notin cs
      BY <1>2, <3>2 DEF AskAll
    <3> QED
      BY <1>2, <3>1, <3>2, <3>3 DEF AskAll
  <2> QED
    BY <2>1, <2>2
<1>3. ASSUME NEW c \in Calls, Ask(c) PROVE doing'[promises'[k]].status \in {"reads", "made"}
  BY <1>2, <1>3 DEF Ask
<1>4. CASE OpenDb
  <2>1. DbCalls \subseteq Calls
    BY DEF AttachmentsAssumption, DbCalls
  <2> QED
    BY <1>2, <1>4, <2>1, DbCallsDistinct DEF OpenDb
<1>5. ASSUME NEW c \in Calls, CreateUrl(c) \/ BlobLate(c) \/ BlobFails(c)
      PROVE  doing'[promises'[k]].status \in {"reads", "made"}
  <2>1. promises' = promises
    BY <1>5 DEF CreateUrl, BlobLate, BlobFails
  <2>2. promises[k] \in Calls /\ doing[promises[k]].status \in {"reads", "made"}
    BY <1>1, <2>1 DEF Unanswered, MaybeCall
  <2>3. PICK result : doing' = [doing EXCEPT ![c] = Doing("made", c, result)]
    BY <1>5 DEF CreateUrl, BlobLate, BlobFails, Made
  <2> QED
    BY <1>1, <2>1, <2>2, <2>3 DEF Doing
<1>6. ASSUME NEW c \in Calls, Answer(c) PROVE doing'[promises'[k]].status \in {"reads", "made"}
  <2>1. promises'[k] = promises[k] /\ promises[k] # c
    BY <1>6 DEF Answer
  <2>2. promises[k] \in Calls /\ doing[promises[k]].status \in {"reads", "made"}
    BY <1>1, <2>1 DEF Unanswered, MaybeCall
  <2>3. doing'[promises[k]] = doing[promises[k]]
    BY <1>1, <1>6, <2>1, <2>2 DEF Answer
  <2> QED
    BY <2>1, <2>2, <2>3
<1>7. CASE DisposeRegistry \/ \E c \in Calls : Interrupted(c)
  BY <1>7 DEF DisposeRegistry, Interrupted, CleanUp
<1>8. CASE UNCHANGED <<promises, doing>>
  BY <1>8 DEF Unanswered
<1> QED
  BY <1>3, <1>4, <1>5, <1>6, <1>7, <1>8
  DEF AttachmentsNext, DbFiles, DbOpens, DbFails, LoadSqlite, SqliteLoaded, SqliteFails

\* A new load begins only when all before it have failed.
LEMMA SqliteStep ==
  ASSUME AttachmentsAssumption, SqliteTypeOK, OneLoad, AttachmentsNext PROVE SqliteTypeOK' /\ OneLoad'
<1> USE DEF SqliteTypeOK, Loading
<1>1. ASSUME NEW o \in Openers, LoadSqlite(o) PROVE SqliteTypeOK' /\ OneLoad'
  <2>1. CASE sqlite.module # 0 /\ sqlite' = [sqlite EXCEPT !.got[o] = sqlite.module]
    BY <1>1, <2>1 DEF LoadSqlite, OneLoad
  <2>2. CASE sqlite.module = 0 /\ sqlite' = [module |-> Len(sqlite.loads) + 1,
                loads |-> Append(sqlite.loads, "running"),
                got |-> [sqlite.got EXCEPT ![o] = Len(sqlite.loads) + 1]]
    BY <1>1, <2>2 DEF LoadSqlite, OneLoad
  <2> QED
    BY <1>1, <2>1, <2>2 DEF LoadSqlite
<1>2. ASSUME NEW n \in DOMAIN sqlite.loads, SqliteLoaded(n) PROVE SqliteTypeOK' /\ OneLoad'
  <2>1. /\ sqlite'.loads = [sqlite.loads EXCEPT ![n] = "loaded"] /\ sqlite.loads[n] = "running"
        /\ sqlite'.module = sqlite.module /\ sqlite'.got = sqlite.got
    BY <1>2 DEF SqliteLoaded, Running
  <2>2. sqlite'.loads \in Seq(Loading) /\ DOMAIN sqlite'.loads = DOMAIN sqlite.loads
    BY <2>1
  <2>3. SqliteTypeOK'
    BY <1>2, <2>2 DEF SqliteLoaded
  <2> QED
    BY <2>1, <2>2, <2>3 DEF OneLoad
<1>3. ASSUME NEW n \in DOMAIN sqlite.loads, SqliteFails(n) PROVE SqliteTypeOK' /\ OneLoad'
  <2>1. /\ sqlite'.loads = [sqlite.loads EXCEPT ![n] = "failed"] /\ sqlite.loads[n] = "running"
        /\ sqlite'.module = IF sqlite.module = n THEN 0 ELSE sqlite.module
        /\ sqlite'.got = sqlite.got
    BY <1>3 DEF SqliteFails, Running
  <2>2. sqlite'.loads \in Seq(Loading) /\ DOMAIN sqlite'.loads = DOMAIN sqlite.loads
    BY <2>1
  <2>3. SqliteTypeOK'
    BY <1>3, <2>1, <2>2 DEF SqliteFails
  <2>4. n = sqlite.module
    BY <2>1 DEF OneLoad
  <2> QED
    BY <2>1, <2>2, <2>3, <2>4 DEF OneLoad
<1>4. ASSUME UNCHANGED sqlite PROVE SqliteTypeOK' /\ OneLoad'
  BY <1>4 DEF OneLoad
<1> QED
  BY <1>1, <1>2, <1>3, <1>4 DEF AttachmentsNext, Ask, CreateUrl, BlobLate, BlobFails, Answer, Interrupted,
    DisposeRegistry, OpenDb, DbFiles, DbOpens, DbFails

\* Files of a runtime: one URL each while it lives and none afterwards, failures that do
\* not stick, a database that reads URLs that exist and ends with its runtime, and one
\* SQLite module (runtime/src/attachments.ts).
THEOREM FilesServed == ASSUME AttachmentsAssumption PROVE AttachmentsSpec => []FilesAreServed
<1>1. AttachmentsInit => FilesInv
  <2> SUFFICES ASSUME AttachmentsInit PROVE FilesInv
    OBVIOUS
  <2>1. AttachmentsInv
    BY AttachmentsInitInv
  <2> QED
    BY <2>1 DEF AttachmentsInit, FilesInv, SqliteTypeOK, Loading, Unanswered, OneLoad, DbEnds
<1>2. FilesInv /\ [AttachmentsNext]_attachmentVars => FilesInv'
  <2> SUFFICES ASSUME FilesInv, [AttachmentsNext]_attachmentVars PROVE FilesInv'
    OBVIOUS
  <2>1. AttachmentsInv'
    BY AttachmentsStepInv DEF FilesInv
  <2>2. CASE AttachmentsNext
    <3>1. Unanswered' /\ SqliteTypeOK' /\ OneLoad'
      BY <2>2, UnansweredStep, SqliteStep DEF FilesInv
    <3>2. DbEnds'
      BY <2>2 DEF FilesInv, DbEnds, AttachmentsInv, AttachmentsTypeOK, AttachmentsNext, Ask, CreateUrl, BlobLate, BlobFails, Answer, Interrupted,
        CleanUp, DisposeRegistry, OpenDb, DbFiles, DbOpens, DbFails, LoadSqlite, SqliteLoaded, SqliteFails
    <3> QED
      BY <2>1, <3>1, <3>2 DEF FilesInv
  <2>3. CASE UNCHANGED attachmentVars
    BY <2>1, <2>3 DEF attachmentVars, FilesInv, SqliteTypeOK, Unanswered, OneLoad, DbEnds
  <2> QED
    BY <2>2, <2>3
<1>3. FilesInv => FilesAreServed
  <2> SUFFICES ASSUME FilesInv PROVE FilesAreServed
    OBVIOUS
  <2>1. DatabaseIsServed
    <3> SUFFICES ASSUME db = "open", NEW c \in DbCalls, doing[c].result.kind = "blob"
                 PROVE  doing[c].result.by \in objects
      BY DEF DatabaseIsServed, FilesInv, DbEnds
    <3>1. c \in Calls /\ File(c) \in Keys
      BY FileIsKey DEF DbCalls, AttachmentsAssumption
    <3>2. PICK d \in Calls : doing[c].result = Blob(d)
      BY <3>1 DEF FilesInv, AttachmentsInv, AttachmentsTypeOK, Results, Nothing, Original, Failed
    <3>3. registry.urls[File(c)] = d /\ d # NoCall
      BY <3>1, <3>2 DEF FilesInv, DbEnds, AttachmentsInv, Known, AttachmentsAssumption
    <3>4. d \in Range(registry.urls)
      BY <3>1, <3>3 DEF FilesInv, AttachmentsInv, AttachmentsTypeOK, Range
    <3> QED
      BY <3>2, <3>3, <3>4 DEF FilesInv, AttachmentsInv, UrlsEndWithRegistry, Blob
  <2>2. OneSqliteModule
    <3> DEFINE loads == {n \in DOMAIN sqlite.loads : sqlite.loads[n] \in {"running", "loaded"}}
    <3>1. loads \subseteq {sqlite.module}
      BY DEF FilesInv, OneLoad
    <3>2. Cardinality({sqlite.module}) = 1 /\ IsFiniteSet({sqlite.module})
      BY FS_Singleton
    <3>3. Cardinality(loads) <= 1
      BY <3>1, <3>2, FS_Subset
    <3> QED
      BY <3>3 DEF OneSqliteModule
  <2> QED
    BY <2>1, <2>2 DEF FilesInv, AttachmentsInv, Unanswered, OneLoad, SqliteTypeOK, FailuresAreRetried, FilesAreServed
<1> QED
  BY <1>1, <1>2, <1>3, PTL DEF AttachmentsSpec

-----------------------------------------------------------------------------
(* Inspector *)

Leasing == {c \in Callers : caller[c].pc # "idle"}

Engine == 0..launched.count

InspectorTypeOK ==
  /\ shared \in [engine : Nat, leases : Nat, timer : BOOLEAN]
  /\ shared.engine \in Engine
  /\ expiring \cup closed \subseteq Engine \ {0}
  /\ caller \in [Callers -> [pc : {"idle", "inspecting", "done"}, engine : Nat]]
  /\ \A c \in Callers : caller[c].engine \in Engine
  /\ launched \in [count : Nat, given_up : SUBSET Nat]

\* The number that _Inspector keeps is that of its leases.
LeasesCounted == shared.leases = Cardinality(Leasing)

\* What the timer closes, or has closed, is the shared engine no longer.
TimerForgets == shared.engine \notin (expiring \cup closed) \ launched.given_up

\* A caller inspects with the shared engine, or with one that an inspection closed.
LeasesShared ==
  \A c \in Callers : caller[c].pc = "inspecting" =>
    caller[c].engine # 0 /\ caller[c].engine \in launched.given_up \cup {shared.engine}

InspectorInv == InspectorTypeOK /\ LeasesCounted /\ TimerForgets /\ LeasesShared

\* Leases stay finite in number.
LEMMA LeasingFinite ==
  ASSUME InspectorAssumption
  PROVE  IsFiniteSet(Leasing) /\ Cardinality(Leasing) \in Nat
<1>1. Leasing \subseteq Callers
  BY DEF Leasing
<1>2. IsFiniteSet(Callers)
  BY DEF InspectorAssumption
<1> QED
  BY <1>1, <1>2, FS_Subset, FS_CardinalityType

\* One more lease.
LEMMA LeaseTaken ==
  ASSUME InspectorAssumption, InspectorTypeOK, NEW c \in Callers, caller[c].pc = "idle",
         NEW pc \in {"inspecting", "done"}, NEW e, Become(c, pc, e)
  PROVE  Cardinality(Leasing)' = Cardinality(Leasing) + 1
<1>1. Leasing' = Leasing \cup {c} /\ c \notin Leasing
  BY DEF Leasing, Become, InspectorTypeOK
<1> QED
  BY <1>1, LeasingFinite, FS_AddElement

\* One lease less.
LEMMA LeaseReturned ==
  ASSUME InspectorAssumption, InspectorTypeOK, NEW c \in Callers, caller[c].pc # "idle",
         NEW e, Become(c, "idle", e)
  PROVE  Cardinality(Leasing)' = Cardinality(Leasing) - 1 /\ Cardinality(Leasing) # 0
<1>1. Leasing' = Leasing \ {c} /\ c \in Leasing
  BY DEF Leasing, Become, InspectorTypeOK
<1>2. Cardinality(Leasing)' = Cardinality(Leasing) - 1
  BY <1>1, LeasingFinite, FS_RemoveElement
<1>3. Cardinality(Leasing) # 0
  BY <1>1, LeasingFinite, FS_EmptySet
<1> QED
  BY <1>2, <1>3

\* Leases as before.
LEMMA LeaseKept ==
  ASSUME InspectorTypeOK, NEW c \in Callers, caller[c].pc # "idle", NEW e, Become(c, "done", e)
  PROVE  Leasing' = Leasing
BY DEF Leasing, Become, InspectorTypeOK

LEMMA InspectorInitInv == ASSUME InspectorAssumption, InspectorInit PROVE InspectorInv
<1>1. Leasing = {}
  BY DEF InspectorInit, Leasing
<1>2. LeasesCounted
  BY <1>1, FS_EmptySet DEF LeasesCounted, InspectorInit
<1>3. InspectorTypeOK /\ TimerForgets /\ LeasesShared
  BY DEF InspectorInit, InspectorTypeOK, Engine, TimerForgets, LeasesShared
<1> QED
  BY <1>2, <1>3 DEF InspectorInv

LEMMA InspectorStepInv ==
  ASSUME InspectorAssumption, InspectorInv, [InspectorNext]_inspectorVars
  PROVE  InspectorInv'
<1> USE DEF InspectorInv
<1>1. ASSUME NEW c \in Callers, Acquire(c) PROVE InspectorInv'
  <2>1. Become(c, "inspecting", IF Usable THEN shared.engine ELSE launched.count + 1)
    BY <1>1 DEF Acquire
  <2>2. LeasesCounted'
    <3>1. Cardinality(Leasing)' = Cardinality(Leasing) + 1
      BY <1>1, <2>1, LeaseTaken DEF Acquire
    <3> QED
      BY <1>1, <3>1 DEF LeasesCounted, Acquire, InspectorTypeOK
  <2>3. CASE Usable
    <3>1. launched' = launched /\ shared'.engine = shared.engine
      BY <1>1, <2>3 DEF Acquire, InspectorTypeOK
    <3>2. Become(c, "inspecting", shared.engine) /\ shared.engine # 0
      BY <2>1, <2>3 DEF Usable
    <3>3. InspectorTypeOK'
      BY <1>1, <3>1, <3>2 DEF Acquire, InspectorTypeOK, Engine, Become
    <3>4. TimerForgets' /\ LeasesShared'
      BY <1>1, <3>1, <3>2 DEF Acquire, InspectorTypeOK, TimerForgets, LeasesShared, Become
    <3> QED
      BY <2>2, <3>3, <3>4
  <2>4. CASE ~Usable
    <3>1. /\ launched' = [launched EXCEPT !.count = launched.count + 1]
          /\ shared'.engine = launched.count + 1
      BY <1>1, <2>4 DEF Acquire, InspectorTypeOK
    <3>2. Become(c, "inspecting", launched.count + 1)
      BY <2>1, <2>4
    <3>3. InspectorTypeOK'
      BY <1>1, <3>1, <3>2 DEF Acquire, InspectorTypeOK, Engine, Become
    <3>4. TimerForgets'
      BY <1>1, <3>1 DEF Acquire, InspectorTypeOK, Engine, TimerForgets
    <3>5. \A d \in Callers : caller[d].pc = "inspecting" => caller[d].engine \in launched.given_up
      BY <2>4 DEF Usable, LeasesShared, TimerForgets
    <3>6. LeasesShared'
      BY <1>1, <3>1, <3>2, <3>5 DEF InspectorTypeOK, LeasesShared, Become
    <3> QED
      BY <2>2, <3>3, <3>4, <3>6
  <2> QED
    BY <2>3, <2>4
<1>2. ASSUME NEW c \in Callers, Answered(c) PROVE InspectorInv'
  <2>1. Leasing' = Leasing
    BY <1>2, LeaseKept DEF Answered
  <2> QED
    BY <1>2, <2>1
    DEF Answered, InspectorTypeOK, Engine, LeasesCounted, TimerForgets, LeasesShared, Become
<1>3. ASSUME NEW c \in Callers, GiveUp(c) PROVE InspectorInv'
  <2>1. Leasing' = Leasing
    BY <1>3, LeaseKept DEF GiveUp
  <2>2. InspectorTypeOK'
    BY <1>3 DEF GiveUp, InspectorTypeOK, Engine, LeasesShared, Become
  <2> QED
    BY <1>3, <2>1, <2>2
    DEF GiveUp, InspectorTypeOK, LeasesCounted, TimerForgets, LeasesShared, Become
<1>4. ASSUME NEW c \in Callers, Release(c) PROVE InspectorInv'
  <2>1. Cardinality(Leasing)' = Cardinality(Leasing) - 1 /\ Cardinality(Leasing) # 0
    BY <1>4, LeaseReturned DEF Release
  <2>2. shared' \in [engine : {shared.engine}, leases : {shared.leases - 1}, timer : BOOLEAN]
    BY <1>4 DEF Release, InspectorTypeOK
  <2>3. shared.leases - 1 \in Nat
    BY <2>1 DEF InspectorTypeOK, LeasesCounted
  <2>4. shared' \in [engine : Nat, leases : Nat, timer : BOOLEAN]
        /\ shared'.engine = shared.engine /\ shared'.leases = shared.leases - 1
    BY <2>2, <2>3 DEF InspectorTypeOK
  <2>5. caller' \in [Callers -> [pc : {"idle", "inspecting", "done"}, engine : Nat]]
        /\ \A d \in Callers : caller'[d].engine \in Engine
    BY <1>4 DEF Release, Become, InspectorTypeOK, Engine
  <2>6. InspectorTypeOK'
    BY <1>4, <2>4, <2>5 DEF Release, InspectorTypeOK, Engine
  <2> QED
    BY <1>4, <2>1, <2>4, <2>6
    DEF Release, InspectorTypeOK, LeasesCounted, TimerForgets, LeasesShared, Become
<1>5. CASE Fire
  <2>1. Leasing' = Leasing
    BY <1>5 DEF Fire, Leasing
  <2> QED
    BY <1>5, <2>1 DEF Fire, InspectorTypeOK, Engine, LeasesCounted, TimerForgets, LeasesShared
<1>6. ASSUME NEW e \in 1..MaxEngines, Expire(e) PROVE InspectorInv'
  <2>1. Leasing' = Leasing
    BY <1>6 DEF Expire, Leasing
  <2>2. CASE Kept(e)
    BY <1>6, <2>1, <2>2
    DEF Expire, InspectorTypeOK, Engine, LeasesCounted, TimerForgets, LeasesShared
  <2>3. CASE ~Kept(e)
    <3>1. Leasing = {}
      BY <2>3, LeasingFinite, FS_EmptySet DEF Kept, LeasesCounted
    <3>2. \A c \in Callers : caller[c].pc # "inspecting"
      BY <3>1 DEF Leasing
    <3>3. 0 \notin expiring /\ 0 \notin closed
      BY DEF InspectorTypeOK
    <3> QED
      BY <1>6, <2>1, <2>3, <3>2, <3>3
      DEF Expire, Kept, InspectorTypeOK, Engine, LeasesCounted, TimerForgets, LeasesShared
  <2> QED
    BY <2>2, <2>3
<1>7. ASSUME NEW e \in 1..MaxEngines, CloseIdle(e) PROVE InspectorInv'
  <2>1. Leasing' = Leasing
    BY <1>7 DEF CloseIdle, Leasing
  <2> QED
    BY <1>7, <2>1 DEF CloseIdle, InspectorTypeOK, Engine, LeasesCounted, TimerForgets, LeasesShared
<1>8. CASE UNCHANGED inspectorVars
  <2>1. Leasing' = Leasing
    BY <1>8 DEF inspectorVars, Leasing
  <2> QED
    BY <1>8, <2>1
    DEF inspectorVars, InspectorTypeOK, Engine, LeasesCounted, TimerForgets, LeasesShared
<1> QED
  BY <1>1, <1>2, <1>3, <1>4, <1>5, <1>6, <1>7, <1>8 DEF InspectorNext

\* The idle timer takes an engine from nobody (_execution.py:494-500).
THEOREM LeasesKeepEngines ==
  ASSUME InspectorAssumption PROVE InspectorSpec => []LeaseKeepsEngine
<1>1. InspectorInv => LeaseKeepsEngine
  BY DEF InspectorInv, TimerForgets, LeasesShared, LeaseKeepsEngine
<1>2. InspectorInit => InspectorInv
  BY InspectorInitInv
<1>3. InspectorInv /\ [InspectorNext]_inspectorVars => InspectorInv'
  BY InspectorStepInv
<1> QED
  BY <1>1, <1>2, <1>3, PTL DEF InspectorSpec

-----------------------------------------------------------------------------
(* ModuleCache *)

Working == {"reading", "sending", "creating", "writing", "loaded", "served"}

Freshnesses == [kind : {"never", "process", "until"}, until : Nat]

Requesters == [load : Loads, process : Processes, life : Nat]

Modules == [url : Urls, source : Nat, whole : BOOLEAN, freshness : Freshnesses, by : Requesters]

MaybeModule == Modules \cup {NoModule}

Imported ==
  [pc : Working \cup {"idle", "refused", "failed"}, url : Urls \cup {"none"},
   at : Urls \cup {"none"}, hops : Nat, module : MaybeModule, looked : Nat]

CacheTypeOK ==
  /\ now \in Nat /\ life \in [Processes -> Nat]
  /\ memory \in [Processes -> [Urls -> MaybeModule]]
  /\ disk \in [Urls -> MaybeModule]
  /\ load \in [Loads -> Imported]

\* An import whose URL the policy forbids gets no further.
Permitted ==
  \A l \in Loads :
    /\ load[l].pc \in Working => load[l].url \in Allowed[l]
    /\ load[l].pc = "served" => load[l].module.url \in Allowed[l]

KeptWhole(m) == m \in Modules /\ m.whole

\* What other engines of the process, in its present life, may use.
OfProcess(m, p) == m.by.process = p /\ m.by.life = life[p]

Remembers ==
  \A p \in Processes, u \in Urls : memory[p][u] # NoModule =>
    /\ KeptWhole(memory[p][u])
    /\ memory[p][u].freshness.kind # "never"
    /\ memory[p][u].freshness.kind = "process" => OfProcess(memory[p][u], p)

\* Files are whole and have a lifetime.
Stored ==
  \A u \in Urls : disk[u] # NoModule => KeptWhole(disk[u]) /\ disk[u].freshness.kind = "until"

\* What an import has is its own, or what the caches may give it.
Obtained ==
  \A l \in Loads : load[l].pc \in {"creating", "writing", "loaded", "served"} =>
    LET m == load[l].module
    IN /\ KeptWhole(m)
       /\ load[l].pc \in {"creating", "writing"} => m.freshness.kind = "until"
       /\ m.freshness.kind = "process" => OfProcess(m, Process[l])
       /\ \/ m.by.load = l
          \/ m.freshness.kind = "until" /\ load[l].looked < m.freshness.until
          \/ m.freshness.kind = "process"

CacheInv == CacheTypeOK /\ Permitted /\ Remembers /\ Stored /\ Obtained

\* A step of one import that leaves the caches alone.
LEMMA ImportInv ==
  ASSUME CacheAssumption, CacheInv, NEW l \in Loads, NEW entry \in Imported,
         load' = [load EXCEPT ![l] = entry], UNCHANGED <<now, memory, disk, life>>,
         entry.pc \in Working => entry.url \in Allowed[l],
         entry.pc = "served" => entry.module.url \in Allowed[l],
         entry.pc \in {"creating", "writing", "loaded", "served"} =>
           /\ KeptWhole(entry.module)
           /\ entry.pc \in {"creating", "writing"} => entry.module.freshness.kind = "until"
           /\ entry.module.freshness.kind = "process" => OfProcess(entry.module, Process[l])
           /\ \/ entry.module.by.load = l
              \/ entry.module.freshness.kind = "until" /\ entry.looked < entry.module.freshness.until
              \/ entry.module.freshness.kind = "process"
  PROVE  CacheInv'
<1>1. load'[l] = entry /\ \A k \in Loads \ {l} : load'[k] = load[k]
  BY DEF CacheInv, CacheTypeOK
<1>2. CacheTypeOK'
  BY DEF CacheInv, CacheTypeOK
<1>3. Permitted'
  BY <1>1 DEF CacheInv, Permitted
<1>4. Remembers' /\ Stored'
  BY DEF CacheInv, Remembers, Stored, KeptWhole, OfProcess
<1>5. Obtained'
  BY <1>1 DEF CacheInv, Obtained, KeptWhole, OfProcess
<1> QED
  BY <1>2, <1>3, <1>4, <1>5 DEF CacheInv

LEMMA CacheInitInv == ASSUME CacheAssumption, CacheInit PROVE CacheInv
<1>1. CacheTypeOK
  BY DEF CacheInit, CacheTypeOK, Imported, MaybeModule
<1> QED
  BY <1>1 DEF CacheInit, CacheInv, Permitted, Remembers, Stored, Obtained, Working

\* The invariant survives every operation of an import, the death of a process and time.
LEMMA CacheStepInv ==
  ASSUME CacheAssumption, CacheInv, [CacheNext]_cacheVars PROVE CacheInv'
<1>1. /\ now \in Nat /\ life \in [Processes -> Nat]
      /\ \A l \in Loads : load[l] \in Imported /\ Process[l] \in Processes /\ Allowed[l] \subseteq Urls
  BY DEF CacheInv, CacheTypeOK, CacheAssumption
<1>2. ASSUME NEW l \in Loads, NEW url \in Urls, Import(l, url) PROVE CacheInv'
  <2> DEFINE m == memory[Process[l]][url]
             entry == [load[l] EXCEPT !.url = url, !.at = url]
             served == [entry EXCEPT !.module = m, !.looked = now]
  <2>1. m \in MaybeModule
    BY <1>1 DEF CacheInv, CacheTypeOK
  <2>2. UNCHANGED <<now, memory, disk, life>>
    BY <1>2 DEF Import
  <2>3. CASE url \notin Allowed[l] \/ (Fresh(m) /\ m.url \notin Allowed[l])
    <3>1. \E e \in {entry, served} : load' = [load EXCEPT ![l] = [e EXCEPT !.pc = "refused"]]
      BY <1>2, <2>3 DEF Import, Checked
    <3>2. entry \in Imported
      BY <1>1 DEF Imported
    <3> HIDE DEF entry, m
    <3>3. served \in Imported
      BY <1>1, <2>1, <3>2 DEF Imported
    <3>4. ASSUME NEW e \in Imported
          PROVE  [e EXCEPT !.pc = "refused"] \in Imported /\ [e EXCEPT !.pc = "refused"].pc = "refused"
      BY DEF Imported
    <3> HIDE DEF served
    <3> QED
      BY <2>2, <3>1, <3>2, <3>3, <3>4, ImportInv DEF Working
  <2>4. CASE url \in Allowed[l] /\ ~Fresh(m)
    <3> DEFINE read == [entry EXCEPT !.pc = "reading"]
    <3>1. load' = [load EXCEPT ![l] = read]
      BY <1>2, <2>4 DEF Import, Checked
    <3>2. read \in Imported /\ read.pc = "reading" /\ read.url = url
      BY <1>1 DEF Imported, Working
    <3> HIDE DEF read
    <3> QED
      BY <2>2, <2>4, <3>1, <3>2, ImportInv
  <2>5. CASE url \in Allowed[l] /\ Fresh(m) /\ m.url \in Allowed[l]
    <3> DEFINE got == [served EXCEPT !.pc = "served"]
    <3>1. load' = [load EXCEPT ![l] = got]
      BY <1>2, <2>5 DEF Import, Checked
    <3>2. /\ got \in Imported /\ got.pc = "served" /\ got.url = url
          /\ got.module = m /\ got.looked = now
      BY <1>1, <2>1 DEF Imported, Working
    <3>3. /\ KeptWhole(m) /\ (m.freshness.kind = "process" => OfProcess(m, Process[l]))
          /\ \/ m.freshness.kind = "process"
             \/ m.freshness.kind = "until" /\ now < m.freshness.until
      BY <1>1, <2>5 DEF Fresh, CacheInv, Remembers
    <3> HIDE DEF got, m
    <3> QED
      BY <2>2, <2>5, <3>1, <3>2, <3>3, ImportInv DEF m
  <2> HIDE DEF m
  <2> QED
    BY <2>3, <2>4, <2>5
<1>3. ASSUME NEW l \in Loads, Read(l) PROVE CacheInv'
  <2>1. load[l].url \in Allowed[l] /\ load[l].url \in Urls
    BY <1>1, <1>3 DEF Read, CacheInv, Permitted, Working
  <2>2. CASE Fresh(disk[load[l].url])
    <3> DEFINE m == disk[load[l].url]
               entry == [load[l] EXCEPT !.pc = "loaded", !.module = m, !.looked = now]
    <3>1. KeptWhole(m) /\ m.freshness.kind = "until" /\ now < m.freshness.until
      BY <2>1, <2>2 DEF Fresh, CacheInv, Stored
    <3>2. entry \in Imported /\ load' = [load EXCEPT ![l] = entry]
      BY <1>1, <1>3, <2>2, <3>1 DEF Read, Has, Imported, Working, MaybeModule, KeptWhole
    <3>3. entry.pc = "loaded" /\ entry.url = load[l].url /\ entry.module = m /\ entry.looked = now
      BY <1>1 DEF Imported
    <3> HIDE DEF entry, m
    <3> QED
      BY <1>3, <2>1, <3>1, <3>2, <3>3, ImportInv DEF Read
  <2>3. CASE ~Fresh(disk[load[l].url])
    <3> DEFINE entry == [load[l] EXCEPT !.pc = "sending"]
    <3>1. entry \in Imported /\ load' = [load EXCEPT ![l] = entry]
      BY <1>1, <1>3, <2>3 DEF Read, Goto, Imported, Working
    <3>2. entry.pc = "sending" /\ entry.url = load[l].url
      BY <1>1 DEF Imported
    <3> HIDE DEF entry
    <3> QED
      BY <1>3, <2>1, <3>1, <3>2, ImportInv DEF Read
  <2> QED
    BY <2>2, <2>3
<1>4. ASSUME NEW l \in Loads, Redirected(l) PROVE CacheInv'
  <2> DEFINE further == [load[l] EXCEPT !.at = Redirects[load[l].at], !.hops = @ + 1]
             failed == [load[l] EXCEPT !.pc = "failed"]
  <2>1. load[l].pc = "sending" /\ load[l].url \in Allowed[l]
    BY <1>4 DEF Redirected, CacheInv, Permitted, Working
  <2>2. CASE load[l].hops < MaxHops
    <3>1. Redirects[load[l].at] \in Urls
      BY <1>4 DEF Redirected, CacheAssumption
    <3>2. further \in Imported
      <4>1. load[l] \in Imported /\ load[l].hops + 1 \in Nat
        BY <1>1 DEF Imported
      <4> QED
        BY <3>1, <4>1 DEF Imported
    <3>3. load' = [load EXCEPT ![l] = further]
      BY <1>1, <1>4, <2>2 DEF Redirected, Imported
    <3>4. further.pc = "sending" /\ further.url = load[l].url
      BY <1>1, <2>1 DEF Imported
    <3> HIDE DEF further
    <3> QED
      BY <1>4, <2>1, <3>2, <3>3, <3>4, ImportInv DEF Redirected
  <2>3. CASE ~(load[l].hops < MaxHops)
    <3>1. failed \in Imported /\ load' = [load EXCEPT ![l] = failed] /\ failed.pc = "failed"
      BY <1>1, <1>4, <2>3 DEF Redirected, Goto, Imported
    <3> HIDE DEF failed
    <3> QED
      BY <1>4, <3>1, ImportInv DEF Redirected, Working
  <2> QED
    BY <2>2, <2>3
<1>5. ASSUME NEW l \in Loads, NEW pc \in {"failed", "refused"}, Goto(l, pc),
             UNCHANGED <<now, memory, disk, life>>
      PROVE  CacheInv'
  <2> DEFINE entry == [load[l] EXCEPT !.pc = pc]
  <2>1. entry \in Imported /\ load' = [load EXCEPT ![l] = entry] /\ entry.pc = pc
    BY <1>1, <1>5 DEF Goto, Imported
  <2> HIDE DEF entry
  <2> QED
    BY <1>5, <2>1, ImportInv DEF Working
<1>6. ASSUME NEW l \in Loads, NEW freshness \in Freshnesses, Receive(l, freshness) PROVE CacheInv'
  <2> DEFINE m == Module(load[l].at, freshness, Self(l))
             pc == IF Persistent(freshness) THEN "creating" ELSE "loaded"
             entry == [load[l] EXCEPT !.pc = pc, !.module = m, !.looked = now]
  <2>1. load[l].url \in Allowed[l] /\ load[l].at \in Urls
    BY <1>1, <1>6 DEF Receive, CacheInv, Permitted, Working
  <2>2. /\ KeptWhole(m) /\ m.by.load = l /\ OfProcess(m, Process[l]) /\ m.freshness = freshness
    BY <1>1, <2>1 DEF Module, Self, KeptWhole, Modules, Requesters, OfProcess
  <2>3. load' = [load EXCEPT ![l] = entry]
    BY <1>6 DEF Receive, Has
  <2>4. m \in MaybeModule /\ pc \in Working
    BY <2>2 DEF MaybeModule, KeptWhole, Working
  <2>5. pc \in {"creating", "loaded"} /\ (pc = "creating" => freshness.kind = "until")
    BY DEF Persistent
  <2> HIDE DEF m, pc
  <2>6. /\ entry \in Imported /\ entry.pc = pc /\ entry.url = load[l].url /\ entry.module = m
    BY <1>1, <2>4 DEF Imported
  <2> HIDE DEF entry
  <2> QED
    BY <1>6, <2>1, <2>2, <2>3, <2>5, <2>6, ImportInv DEF Receive
<1>7. ASSUME NEW l \in Loads, NEW pc \in {"writing", "loaded"}, Goto(l, pc),
             load[l].pc \in {"creating", "writing"}, UNCHANGED <<now, memory, disk, life>>
      PROVE  CacheInv'
  <2> DEFINE entry == [load[l] EXCEPT !.pc = pc]
  <2>1. /\ entry \in Imported /\ load' = [load EXCEPT ![l] = entry]
        /\ entry.pc = pc /\ entry.url = load[l].url /\ entry.module = load[l].module
        /\ entry.looked = load[l].looked
    BY <1>1, <1>7 DEF Goto, Imported, Working
  <2> HIDE DEF entry
  <2> QED
    BY <1>7, <2>1, ImportInv DEF CacheInv, Permitted, Working, Obtained
<1>8. ASSUME NEW l \in Loads, Rename(l) PROVE CacheInv'
  <2> DEFINE m == load[l].module
             entry == [load[l] EXCEPT !.pc = "loaded"]
  <2>1. KeptWhole(m) /\ m.freshness.kind = "until"
    BY <1>8 DEF Rename, CacheInv, Obtained
  <2>2. disk' = [disk EXCEPT ![load[l].url] = m]
    BY <1>8 DEF Rename
  <2>3. disk' \in [Urls -> MaybeModule] /\ \A u \in Urls : disk'[u] \in {disk[u], m}
    BY <2>1, <2>2 DEF CacheInv, CacheTypeOK, KeptWhole, MaybeModule
  <2>4. Stored'
    BY <2>1, <2>3 DEF CacheInv, Stored, KeptWhole
  <2>5. /\ entry \in Imported /\ load' = [load EXCEPT ![l] = entry]
        /\ entry.pc = "loaded" /\ entry.url = load[l].url /\ entry.module = m
        /\ entry.looked = load[l].looked
    BY <1>1, <1>8 DEF Rename, Goto, Imported, Working
  <2> HIDE DEF entry, m
  <2>6. load'[l] = entry /\ \A k \in Loads \ {l} : load'[k] = load[k]
    BY <2>5 DEF CacheInv, CacheTypeOK
  <2>7. CacheTypeOK'
    BY <1>8, <2>3, <2>5 DEF Rename, CacheInv, CacheTypeOK
  <2>8. Permitted'
    BY <1>8, <2>5, <2>6 DEF Rename, CacheInv, Permitted, Working
  <2>9. Remembers'
    BY <1>8 DEF Rename, CacheInv, Remembers, KeptWhole, OfProcess
  <2>10. Obtained'
    BY <1>8, <2>5, <2>6 DEF Rename, CacheInv, Obtained, KeptWhole, OfProcess, m
  <2> QED
    BY <2>4, <2>7, <2>8, <2>9, <2>10 DEF CacheInv
<1>9. ASSUME NEW l \in Loads, Serve(l), FinalAllowed(l) PROVE CacheInv'
  <2> DEFINE m == load[l].module
             entry == [load[l] EXCEPT !.pc = "served"]
  <2>1. /\ KeptWhole(m) /\ (m.freshness.kind = "process" => OfProcess(m, Process[l]))
        /\ load[l].pc = "loaded"
    BY <1>9 DEF Serve, CacheInv, Obtained
  <2>2. memory' = [memory EXCEPT ![Process[l]] = Remembered(load[l].url, m, memory[Process[l]])]
    BY <1>1, <1>9 DEF Serve, CacheInv, CacheTypeOK
  <2>3. /\ memory' \in [Processes -> [Urls -> MaybeModule]]
        /\ \A p \in Processes, u \in Urls :
             \/ memory'[p][u] = memory[p][u]
             \/ p = Process[l] /\ m.freshness.kind # "never" /\ memory'[p][u] = m
    BY <1>1, <2>1, <2>2 DEF Remembered, CacheInv, CacheTypeOK, KeptWhole, MaybeModule
  <2>4. /\ entry \in Imported /\ load' = [load EXCEPT ![l] = entry]
        /\ entry.pc = "served" /\ entry.url = load[l].url /\ entry.module = m
        /\ entry.looked = load[l].looked
    BY <1>1, <1>9 DEF Serve, Goto, Imported, Working
  <2>5. m.url \in Allowed[l]
    BY <1>9 DEF FinalAllowed
  <2> HIDE DEF entry, m
  <2>6. load'[l] = entry /\ \A k \in Loads \ {l} : load'[k] = load[k]
    BY <2>4 DEF CacheInv, CacheTypeOK
  <2>7. CacheTypeOK'
    BY <1>9, <2>3, <2>4 DEF Serve, CacheInv, CacheTypeOK
  <2>8. Permitted'
    BY <2>1, <2>4, <2>5, <2>6 DEF CacheInv, Permitted, Working
  <2>9. Remembers'
    BY <1>9, <2>1, <2>3 DEF Serve, CacheInv, Remembers, KeptWhole, OfProcess
  <2>10. Stored'
    BY <1>9 DEF Serve, CacheInv, Stored, KeptWhole
  <2>11. Obtained'
    BY <1>9, <2>1, <2>4, <2>6 DEF Serve, CacheInv, Obtained, KeptWhole, OfProcess, m
  <2> QED
    BY <2>7, <2>8, <2>9, <2>10, <2>11 DEF CacheInv
<1>10. ASSUME NEW p \in Processes, Crash(p) PROVE CacheInv'
  <2>1. \A l \in Loads : \/ load'[l] = load[l] /\ (load[l].pc = "idle" \/ Process[l] # p)
                         \/ load'[l].pc = "failed"
    BY <1>1, <1>10 DEF Crash, Imported
  <2>2. CacheTypeOK'
    <3>1. memory' \in [Processes -> [Urls -> MaybeModule]]
      BY <1>10 DEF Crash, CacheInv, CacheTypeOK, MaybeModule
    <3>2. load' \in [Loads -> Imported]
      BY <1>1, <1>10 DEF Crash, Imported
    <3> QED
      BY <1>10, <3>1, <3>2 DEF Crash, CacheInv, CacheTypeOK
  <2>3. Permitted'
    BY <2>1 DEF CacheInv, Permitted, Working
  <2>4. \A q \in Processes \ {p} : life'[q] = life[q] /\ memory'[q] = memory[q]
    BY <1>1, <1>10 DEF Crash, CacheInv, CacheTypeOK
  <2>5. \A u \in Urls : memory'[p][u] = NoModule
    BY <1>10 DEF Crash, CacheInv, CacheTypeOK
  <2>6. Remembers'
    BY <2>4, <2>5 DEF CacheInv, Remembers, KeptWhole, OfProcess
  <2>7. Stored'
    BY <1>10 DEF Crash, CacheInv, Stored, KeptWhole
  <2>8. Obtained'
    BY <1>1, <2>1, <2>4 DEF CacheInv, Obtained, KeptWhole, OfProcess
  <2> QED
    BY <2>2, <2>3, <2>6, <2>7, <2>8 DEF CacheInv
<1>11. CASE Tick
  BY <1>11 DEF Tick, CacheInv, CacheTypeOK, Permitted, Remembers, Stored, Obtained, KeptWhole, OfProcess
<1>12. CASE UNCHANGED cacheVars
  BY <1>12 DEF cacheVars, CacheInv, CacheTypeOK, Permitted, Remembers, Stored, Obtained, KeptWhole, OfProcess
<1>13. {Never, ForProcess} \cup {Until(now + t) : t \in Lifetimes} \subseteq Freshnesses
  BY <1>1 DEF Never, ForProcess, Until, Freshnesses, CacheAssumption
<1>14. ASSUME NEW l \in Loads, Create(l) PROVE CacheInv'
  BY <1>7, <1>14 DEF Create, Created
<1>15. ASSUME NEW l \in Loads, SendFails(l) \/ WriteFails(l) \/ Drop(l) \/ (Serve(l) /\ ~FinalAllowed(l))
       PROVE  CacheInv'
  BY <1>5, <1>7, <1>15 DEF SendFails, WriteFails, Drop, Serve
<1> QED
  BY <1>2, <1>3, <1>4, <1>6, <1>8, <1>9, <1>10, <1>11, <1>12, <1>13, <1>14, <1>15 DEF CacheNext

\* An import gets a whole module, one that it requested itself or that was fresh when it
\* was looked up, and in no other process than it may be (cache.rs:53-142).
THEOREM CachesAsDeclared == ASSUME CacheAssumption PROVE CacheSpec => []CachedAsDeclared
<1>1. CacheInv => CachedAsDeclared
  BY DEF CacheInv, Obtained, CachedAsDeclared, KeptWhole, OfProcess
<1>2. CacheInit => CacheInv
  BY CacheInitInv
<1>3. CacheInv /\ [CacheNext]_cacheVars => CacheInv'
  BY CacheStepInv
<1> QED
  BY <1>1, <1>2, <1>3, PTL DEF CacheSpec

\* Whatever filled the caches, no engine gets a module that its own policy forbids
\* (network.rs:208-273).
THEOREM PolicyHolds == ASSUME CacheAssumption PROVE CacheSpec => []NetworkPolicyHolds
<1>1. CacheInv => NetworkPolicyHolds
  BY DEF CacheInv, Permitted, NetworkPolicyHolds, Working
<1>2. CacheInit => CacheInv
  BY CacheInitInv
<1>3. CacheInv /\ [CacheNext]_cacheVars => CacheInv'
  BY CacheStepInv
<1> QED
  BY <1>1, <1>2, <1>3, PTL DEF CacheSpec

-----------------------------------------------------------------------------
(* SharedInputs *)

Patches == [seq : Nat, kind : {"set", "replace"}, values : Mappings(Values)]

Messages == [variables : Mappings(Values), update : Patches, withInputs : BOOLEAN,
             inputs : Mappings(Values)]

\* What a view keeps.
Held == [shared : Mappings(Values), last : Nat, inputs : Mappings(Values \cup Local),
         variables : Mappings(Values), control : [SharedNames -> Values \cup Local \cup {Default}]]

Models == [variables : Mappings(Values), inputs : Mappings(Values),
           update : [seq : Nat, kind : {"none", "set", "replace"}, values : Mappings(Values)]]

\* The browser while these views are live.
Browsers(live) ==
  [model : Models, live : {live}, view : [ToSet(live) -> Held], out : Seq(Mappings(Values))]

SharedTypeOK ==
  /\ python \in [variables : Mappings(Values), inputs : Mappings(Values), seq : Nat]
  /\ browser.live \in Seq(Views) /\ IsInjective(browser.live)
  /\ browser \in Browsers(browser.live)
  /\ toBrowser \in Seq(Messages) /\ toPython \in Seq(Mappings(Values))
  /\ count \in [inputs : Nat, mounts : Nat]
  /\ history \in [touched : SUBSET SharedNames, undone : SUBSET SharedNames]

\* What an update makes of Python's variables.
After(variables, update) ==
  IF update.kind = "set" THEN Over(update.values, variables) ELSE update.values

\* Each update continues the one before; what it sends back of the inputs are others.
ContinuesFrom(variables, seq, m) ==
  /\ m.variables = After(variables, m.update) /\ m.update.seq = seq + 1
  /\ m.withInputs => DOMAIN m.inputs \cap DOMAIN m.update.values = {}

\* Updates that lead from what one end has to what the other has.
Ends(variables0, seq0, ms, variables1, seq1) ==
  /\ \A i \in 1 .. Len(ms) :
       ContinuesFrom(IF i = 1 THEN variables0 ELSE ms[i - 1].variables,
                 IF i = 1 THEN seq0 ELSE ms[i - 1].update.seq, ms[i])
  /\ variables1 = IF Len(ms) = 0 THEN variables0 ELSE ms[Len(ms)].variables
  /\ seq1 = IF Len(ms) = 0 THEN seq0 ELSE ms[Len(ms)].update.seq

OneHistory ==
  Ends(browser.model.variables, browser.model.update.seq, toBrowser, python.variables, python.seq)

Same(n, f, g) == (n \in DOMAIN f <=> n \in DOMAIN g) /\ (n \in DOMAIN f => f[n] = g[n])

\* Of the names outside `loose', the view knows no other input than `inputs' says, and a
\* control without one shows the variable, or what cannot be shared; those outside
\* `user' as well have no input at all.
Tells(w, inputs, loose, user) ==
  /\ \A n \in DOMAIN w.inputs : w.control[n] = w.inputs[n]
  /\ \A n \in DOMAIN w.inputs \ loose :
       w.inputs[n] \in Values => n \in DOMAIN inputs /\ inputs[n] = w.inputs[n]
  /\ \A n \in DOMAIN w.variables \ loose :
       n \notin DOMAIN w.inputs => w.control[n] \in Local \cup {w.variables[n]}
  /\ \A n \in DOMAIN w.variables \ (loose \cup user) :
       n \notin DOMAIN w.inputs /\ w.control[n] = w.variables[n]
  /\ \A n \in SharedNames \ loose : Same(n, w.shared, inputs)

\* The view has the shared inputs.
InSync(w, inputs) ==
  /\ w.shared = inputs
  /\ \A n \in DOMAIN w.inputs : w.inputs[n] \in Values => n \in DOMAIN inputs /\ inputs[n] = w.inputs[n]
  /\ DOMAIN inputs \cap DOMAIN w.variables \subseteq DOMAIN w.inputs

Faithful(w) ==
  /\ w.variables = browser.model.variables /\ w.last = browser.model.update.seq
  /\ Tells(w, browser.model.inputs, history.undone, history.touched)
  /\ InSync(w, browser.model.inputs)

Untouched == DOMAIN browser.model.inputs \subseteq history.touched \cup history.undone

SharedInv ==
  /\ SharedTypeOK /\ browser.out = <<>> /\ OneHistory /\ Untouched
  /\ \A v \in ToSet(browser.live) : Faithful(browser.view[v])

-----------------------------------------------------------------------------
(* Mappings *)

\* A mapping is the function it is, of shared names.
LEMMA MappingFacts ==
  ASSUME NEW S, NEW f \in Mappings(S)
  PROVE  /\ f = [n \in DOMAIN f |-> f[n]] /\ DOMAIN f \subseteq SharedNames
         /\ \A n \in DOMAIN f : f[n] \in S
  <1>1. PICK names \in SUBSET SharedNames : f \in [names -> S]
    BY DEF Mappings
  <1>2. QED
    BY <1>1

\* What makes a mapping.
LEMMA MappingIntro ==
  ASSUME NEW S, NEW names \in SUBSET SharedNames, NEW f, f = [n \in names |-> f[n]],
         \A n \in names : f[n] \in S
  PROVE  f \in Mappings(S)
  <1>1. f \in [names -> S]
    OBVIOUS
  <1>2. QED
    BY <1>1 DEF Mappings

\* Mappings that say the same are the same.
LEMMA MappingsEqual ==
  ASSUME NEW S, NEW f \in Mappings(S), NEW g \in Mappings(S), DOMAIN f = DOMAIN g,
         \A n \in DOMAIN f : f[n] = g[n]
  PROVE  f = g
  <1>1. f = [n \in DOMAIN f |-> f[n]] /\ g = [n \in DOMAIN g |-> g[n]]
    BY MappingFacts
  <1>2. QED
    BY <1>1

\* A mapping to some values is one to more values.
LEMMA WiderMapping ==
  ASSUME NEW S, NEW T, S \subseteq T, NEW f \in Mappings(S)
  PROVE  f \in Mappings(T)
  <1>1. PICK names \in SUBSET SharedNames : f \in [names -> S]
    BY DEF Mappings
  <1>2. f \in [names -> T]
    BY <1>1
  <1>3. QED
    BY <1>2 DEF Mappings

IsOver(h, f, g) ==
  /\ DOMAIN h = DOMAIN f \cup DOMAIN g
  /\ \A n \in DOMAIN h : h[n] = IF n \in DOMAIN f THEN f[n] ELSE g[n]

\* Two mappings, one over the other, are a mapping.
LEMMA OverFacts ==
  ASSUME NEW S, NEW f \in Mappings(S), NEW g \in Mappings(S)
  PROVE  Over(f, g) \in Mappings(S) /\ IsOver(Over(f, g), f, g)
  <1> DEFINE names == DOMAIN f \cup DOMAIN g
             h == Over(f, g)
  <1>1. names \in SUBSET SharedNames /\ (\A n \in DOMAIN f : f[n] \in S) /\ (\A n \in DOMAIN g : g[n] \in S)
    BY MappingFacts
  <1>2. h = [n \in names |-> h[n]] /\ \A n \in names : h[n] = IF n \in DOMAIN f THEN f[n] ELSE g[n]
    BY DEF Over
  <1>3. \A n \in names : h[n] \in S
    BY <1>1, <1>2
  <1> HIDE DEF h
  <1>4. h \in Mappings(S)
    BY <1>1, <1>2, <1>3, MappingIntro
  <1>5. DOMAIN h = names
    BY DEF h, Over
  <1>6. QED
    BY <1>2, <1>4, <1>5 DEF h, IsOver

IsPart(h, f, names) == DOMAIN h = names /\ \A n \in names : h[n] = f[n]

\* A part of a mapping is a mapping.
LEMMA RestrictFacts ==
  ASSUME NEW S, NEW f \in Mappings(S), NEW names \in SUBSET DOMAIN f
  PROVE  Restrict(f, names) \in Mappings(S) /\ IsPart(Restrict(f, names), f, names)
  <1> DEFINE h == Restrict(f, names)
  <1>1. names \in SUBSET SharedNames /\ \A n \in DOMAIN f : f[n] \in S
    BY MappingFacts
  <1>2. h = [n \in names |-> h[n]] /\ \A n \in names : h[n] = f[n]
    BY DEF Restrict
  <1>3. \A n \in names : h[n] \in S
    BY <1>1, <1>2
  <1> HIDE DEF h
  <1>4. h \in Mappings(S)
    BY <1>1, <1>2, <1>3, MappingIntro
  <1>5. QED
    BY <1>2, <1>4 DEF h, IsPart, Restrict

\* So is a mapping without some names.
LEMMA WithoutFacts ==
  ASSUME NEW S, NEW f \in Mappings(S), NEW names
  PROVE  Without(f, names) \in Mappings(S) /\ IsPart(Without(f, names), f, DOMAIN f \ names)
  BY RestrictFacts DEF Without

\* And one that has a single name.
LEMMA OnlyFacts ==
  ASSUME NEW S, NEW n \in SharedNames, NEW x \in S
  PROVE  Only(n, x) \in Mappings(S) /\ DOMAIN Only(n, x) = {n} /\ Only(n, x)[n] = x
  <1> DEFINE h == Only(n, x)
  <1>1. h = [m \in {n} |-> h[m]] /\ \A m \in {n} : h[m] = x
    BY DEF Only
  <1> HIDE DEF h
  <1>2. h \in Mappings(S)
    BY <1>1, MappingIntro
  <1>3. QED
    BY <1>1, <1>2 DEF h

\* A control shows a shared input, or else the variable.
IsRendered(control, inputs, variables) ==
  /\ \A n \in DOMAIN inputs : control[n] = inputs[n]
  /\ \A n \in DOMAIN variables \ DOMAIN inputs : control[n] = variables[n]

\* What controls show once they are rendered.
LEMMA RenderedFacts ==
  ASSUME NEW inputs \in Mappings(Values \cup Local), NEW variables \in Mappings(Values)
  PROVE  /\ Rendered(inputs, variables) \in [SharedNames -> Values \cup Local \cup {Default}]
         /\ IsRendered(Rendered(inputs, variables), inputs, variables)
  <1> DEFINE All == Values \cup Local \cup {Default}
             default == [n \in SharedNames |-> Default]
  <1>1. inputs \in Mappings(All) /\ variables \in Mappings(All)
    BY WiderMapping
  <1>2. default \in Mappings(All) /\ DOMAIN default = SharedNames
    BY MappingIntro
  <1> HIDE DEF All, default
  <1> DEFINE known == Over(inputs, variables)
             r == Over(known, default)
  <1>3. known \in Mappings(All) /\ IsOver(known, inputs, variables)
    BY <1>1, OverFacts
  <1> HIDE DEF known
  <1>4. DOMAIN known \subseteq SharedNames
    BY <1>3, MappingFacts
  <1>5. r \in Mappings(All) /\ IsOver(r, known, default)
    BY <1>2, <1>3, OverFacts
  <1>6. Rendered(inputs, variables) = r
    BY DEF Rendered, known, default
  <1> HIDE DEF r
  <1>7. r \in [SharedNames -> All]
    <2>1. DOMAIN r = SharedNames
      BY <1>2, <1>4, <1>5 DEF IsOver
    <2>2. r = [n \in DOMAIN r |-> r[n]] /\ \A n \in DOMAIN r : r[n] \in All
      BY <1>5, MappingFacts
    <2>3. QED
      BY <2>1, <2>2
  <1>8. QED
    BY <1>3, <1>5, <1>6, <1>7 DEF All, IsOver, IsRendered

-----------------------------------------------------------------------------
(* What a view makes of what it is told *)

\* onSharedInputs with these inputs.
Told(w, next) == SetInputs([w EXCEPT !.shared = next], next)

IsTold(t, w, next) ==
  /\ t \in Held /\ t.shared = next /\ t.inputs = next
  /\ t.last = w.last /\ t.variables = w.variables
  /\ \A n \in SharedNames :
       t.control[n] = IF n \in DOMAIN next /\ (n \notin DOMAIN w.inputs \/ w.inputs[n] # next[n])
                      THEN next[n] ELSE w.control[n]

\* What controls show once values are written into some of them.
LEMMA ControlFacts ==
  ASSUME NEW control \in [SharedNames -> Values \cup Local \cup {Default}], NEW f \in Mappings(Values)
  PROVE  /\ Over(f, control) \in [SharedNames -> Values \cup Local \cup {Default}]
         /\ \A n \in SharedNames : Over(f, control)[n] = IF n \in DOMAIN f THEN f[n] ELSE control[n]
  <1>1. DOMAIN f \subseteq SharedNames /\ \A n \in DOMAIN f : f[n] \in Values
    BY MappingFacts
  <1>2. DOMAIN f \cup DOMAIN control = SharedNames
    BY <1>1
  <1>3. Over(f, control) = [n \in SharedNames |-> IF n \in DOMAIN f THEN f[n] ELSE control[n]]
    BY <1>2 DEF Over
  <1>4. QED
    BY <1>1, <1>3

\* A view that hears of shared inputs keeps what it must.
LEMMA ToldFacts ==
  ASSUME NEW w \in Held, NEW next \in Mappings(Values)
  PROVE  IsTold(Told(w, next), w, next)
  <1> DEFINE changed == {n \in DOMAIN next : n \notin DOMAIN w.inputs \/ w.inputs[n] # next[n]}
             part == Restrict(next, changed)
             control == Over(part, w.control)
  <1>1. next \in Mappings(Values \cup Local)
    BY WiderMapping
  <1>2. changed \in SUBSET DOMAIN next
    OBVIOUS
  <1>3. part \in Mappings(Values) /\ IsPart(part, next, changed)
    BY <1>2, RestrictFacts
  <1>4. w.control \in [SharedNames -> Values \cup Local \cup {Default}]
    BY DEF Held
  <1>5. Told(w, next) = [w EXCEPT !.shared = next, !.inputs = next, !.control = control]
    BY DEF Told, SetInputs, Held
  <1> HIDE DEF part
  <1>6. /\ control \in [SharedNames -> Values \cup Local \cup {Default}]
        /\ \A n \in SharedNames : control[n] = IF n \in DOMAIN part THEN part[n] ELSE w.control[n]
    BY <1>3, <1>4, ControlFacts
  <1>7. \A n \in SharedNames : control[n] = IF n \in changed THEN next[n] ELSE w.control[n]
    BY <1>3, <1>6 DEF IsPart
  <1> HIDE DEF control
  <1>8. [w EXCEPT !.shared = next, !.inputs = next, !.control = control] \in Held
    BY <1>1, <1>6 DEF Held
  <1>9. QED
    BY <1>5, <1>7, <1>8 DEF IsTold, Held

IsUpdated(t, w, values) ==
  /\ t \in Held /\ t.shared = w.shared /\ t.last = w.last
  /\ IsPart(t.inputs, w.inputs, DOMAIN w.inputs \ DOMAIN values)
  /\ IsOver(t.variables, values, w.variables)
  /\ t.variables = Over(values, w.variables)
  /\ \A n \in SharedNames : t.control[n] = IF n \in DOMAIN values THEN values[n] ELSE w.control[n]

\* A view that sets variables keeps what it must.
LEMMA UpdatedFacts ==
  ASSUME NEW w \in Held, NEW values \in Mappings(Values)
  PROVE  IsUpdated(UpdateVariables(w, values), w, values)
  <1> DEFINE inputs == Without(w.inputs, DOMAIN values)
             variables == Over(values, w.variables)
             control == Over(values, w.control)
  <1>1. w.inputs \in Mappings(Values \cup Local) /\ w.variables \in Mappings(Values)
    BY DEF Held
  <1>2. inputs \in Mappings(Values \cup Local) /\ IsPart(inputs, w.inputs, DOMAIN w.inputs \ DOMAIN values)
    BY <1>1, WithoutFacts
  <1>3. variables \in Mappings(Values) /\ IsOver(variables, values, w.variables)
    BY <1>1, OverFacts
  <1>4. w.control \in [SharedNames -> Values \cup Local \cup {Default}]
    BY DEF Held
  <1>5. /\ control \in [SharedNames -> Values \cup Local \cup {Default}]
        /\ \A n \in SharedNames : control[n] = IF n \in DOMAIN values THEN values[n] ELSE w.control[n]
    BY <1>4, ControlFacts
  <1>6. UpdateVariables(w, values) =
          [w EXCEPT !.inputs = inputs, !.variables = variables, !.control = control]
    BY DEF UpdateVariables
  <1>7. variables = Over(values, w.variables)
    OBVIOUS
  <1> HIDE DEF inputs, variables, control
  <1>8. [w EXCEPT !.inputs = inputs, !.variables = variables, !.control = control] \in Held
    BY <1>2, <1>3, <1>5 DEF Held
  <1>9. QED
    BY <1>2, <1>3, <1>5, <1>6, <1>7, <1>8 DEF IsUpdated, Held

IsReplaced(t, w, values) ==
  /\ t \in Held /\ t.shared = w.shared /\ t.last = w.last /\ t.variables = values
  /\ IsPart(t.inputs, w.inputs, DOMAIN w.inputs \ (DOMAIN w.variables \cup DOMAIN values))
  /\ IsRendered(t.control, t.inputs, values)

\* So does one that replaces its variables.
LEMMA ReplacedFacts ==
  ASSUME NEW w \in Held, NEW values \in Mappings(Values)
  PROVE  IsReplaced(ReplaceVariables(w, values), w, values)
  <1> DEFINE names == DOMAIN w.variables \cup DOMAIN values
             inputs == Without(w.inputs, names)
             control == Rendered(inputs, values)
  <1>1. w.inputs \in Mappings(Values \cup Local)
    BY DEF Held
  <1>2. inputs \in Mappings(Values \cup Local) /\ IsPart(inputs, w.inputs, DOMAIN w.inputs \ names)
    BY <1>1, WithoutFacts
  <1>3. control \in [SharedNames -> Values \cup Local \cup {Default}] /\ IsRendered(control, inputs, values)
    BY <1>2, RenderedFacts
  <1>4. ReplaceVariables(w, values) =
          [w EXCEPT !.inputs = inputs, !.variables = values, !.control = control]
    BY DEF ReplaceVariables
  <1> HIDE DEF inputs, control
  <1>5. [w EXCEPT !.inputs = inputs, !.variables = values, !.control = control] \in Held
    BY <1>2, <1>3 DEF Held
  <1>6. QED
    BY <1>2, <1>3, <1>4, <1>5 DEF IsReplaced, Held

\* What a view keeps, field by field.
LEMMA HeldFacts ==
  ASSUME NEW w \in Held
  PROVE  /\ w.shared \in Mappings(Values) /\ w.inputs \in Mappings(Values \cup Local)
         /\ w.variables \in Mappings(Values)
         /\ w.control \in [SharedNames -> Values \cup Local \cup {Default}] /\ w.last \in Nat
         /\ DOMAIN w.inputs \subseteq SharedNames /\ DOMAIN w.variables \subseteq SharedNames
         /\ \A n \in DOMAIN w.inputs : w.inputs[n] \in Values \cup Local
  BY MappingFacts DEF Held

\* A view that is told inputs has them, and what it tells of other names stays true.
LEMMA TellsTold ==
  ASSUME NEW w \in Held, NEW inputs \in Mappings(Values), NEW next \in Mappings(Values),
         NEW loose, NEW user, Tells(w, inputs, loose, user),
         \A n \in SharedNames \ loose : Same(n, next, inputs), DOMAIN inputs \subseteq loose \cup user,
         NEW t, IsTold(t, w, next)
  PROVE  Tells(t, inputs, loose, user) /\ InSync(t, next)
  <1>1. /\ DOMAIN next \subseteq SharedNames /\ DOMAIN inputs \subseteq SharedNames
        /\ \A n \in DOMAIN w.inputs : n \in SharedNames /\ w.inputs[n] \in Values \cup Local
        /\ DOMAIN w.variables \subseteq SharedNames
    BY MappingFacts, HeldFacts
  <1>2. \A n \in SharedNames : t.control[n] = IF n \in DOMAIN next /\ (n \notin DOMAIN w.inputs \/ w.inputs[n] # next[n])
                                        THEN next[n] ELSE w.control[n]
    BY DEF IsTold
  <1>3. t.inputs = next /\ t.shared = next /\ t.variables = w.variables
    BY DEF IsTold
  <1>4. \A n \in SharedNames \ loose : (n \in DOMAIN next <=> n \in DOMAIN inputs) /\ (n \in DOMAIN next => next[n] = inputs[n])
    BY DEF Same
  <1>5. \A n \in DOMAIN t.inputs : t.control[n] = t.inputs[n]
    BY <1>1, <1>2, <1>3 DEF Tells
  <1>6. \A n \in DOMAIN t.inputs \ loose : t.inputs[n] \in Values => n \in DOMAIN inputs /\ inputs[n] = t.inputs[n]
    BY <1>1, <1>3, <1>4
  <1>7. ASSUME NEW n \in DOMAIN t.variables \ loose, n \notin DOMAIN t.inputs
        PROVE  t.control[n] \in Local \cup {t.variables[n]}
    <2>1. n \in SharedNames \ loose /\ n \notin DOMAIN next /\ n \notin DOMAIN inputs /\ t.control[n] = w.control[n]
      BY <1>1, <1>2, <1>3, <1>4, <1>7
    <2>2. CASE n \in DOMAIN w.inputs
      <3>1. w.control[n] = w.inputs[n] /\ w.inputs[n] \notin Values
        BY <2>1, <2>2 DEF Tells
      <3>2. QED
        BY <1>1, <2>1, <2>2, <3>1
    <2>3. CASE n \notin DOMAIN w.inputs
      BY <1>3, <1>7, <2>1, <2>3 DEF Tells
    <2>4. QED
      BY <2>2, <2>3
  <1>8. ASSUME NEW n \in DOMAIN t.variables \ (loose \cup user)
        PROVE  n \notin DOMAIN t.inputs /\ t.control[n] = t.variables[n]
    <2>1. n \in SharedNames \ loose /\ n \notin DOMAIN next
      BY <1>1, <1>3, <1>4
    <2>2. w.control[n] = w.variables[n]
      BY <1>3 DEF Tells
    <2>3. QED
      BY <1>2, <1>3, <2>1, <2>2
  <1>9. Tells(t, inputs, loose, user)
    BY <1>3, <1>5, <1>6, <1>7, <1>8 DEF Tells
  <1>10. InSync(t, next)
    BY <1>3 DEF InSync
  <1>11. QED
    BY <1>9, <1>10

\* Of these names the view has Python's values and no input.
Applies(w, values) ==
  \A n \in DOMAIN values :
    n \notin DOMAIN w.inputs /\ n \in DOMAIN w.variables /\ w.variables[n] = values[n] /\ w.control[n] = values[n]

\* A view to which an update's values apply still has them once it hears of inputs that
\* the update has cleared.
LEMMA AppliesTold ==
  ASSUME NEW w \in Held, NEW values \in Mappings(Values), NEW next, Applies(w, values),
         DOMAIN next \cap DOMAIN values = {}, NEW t, IsTold(t, w, next)
  PROVE  Applies(t, values)
  <1>1. DOMAIN values \subseteq SharedNames
    BY MappingFacts
  <1>2. \A n \in DOMAIN values : n \notin DOMAIN next /\ n \in SharedNames
    BY <1>1
  <1>3. \A n \in SharedNames : t.control[n] = IF n \in DOMAIN next /\ (n \notin DOMAIN w.inputs \/ w.inputs[n] # next[n])
                                        THEN next[n] ELSE w.control[n]
    BY DEF IsTold
  <1>4. t.inputs = next /\ t.variables = w.variables
    BY DEF IsTold
  <1>5. QED
    BY <1>2, <1>3, <1>4 DEF Applies

\* A view that applies an update tells no less.
\* A view that sets variables tells no more than before, and stays in step with inputs
\* that have none of them.
LEMMA TellsUpdated ==
  ASSUME NEW w \in Held, NEW values \in Mappings(Values), NEW inputs, NEW loose, NEW user,
         Tells(w, inputs, loose, user), DOMAIN values \subseteq loose, NEW t, IsUpdated(t, w, values)
  PROVE  /\ Tells(t, inputs, loose, user) /\ Applies(t, values)
         /\ \A next : InSync(w, next) /\ DOMAIN next \cap DOMAIN values = {} => InSync(t, next)
  <1>1. /\ DOMAIN values \subseteq SharedNames /\ DOMAIN w.inputs \subseteq SharedNames /\ DOMAIN w.variables \subseteq SharedNames
    BY MappingFacts, HeldFacts
  <1>2. /\ DOMAIN t.inputs = DOMAIN w.inputs \ DOMAIN values /\ \A n \in DOMAIN t.inputs : t.inputs[n] = w.inputs[n]
    BY DEF IsUpdated, IsPart
  <1>3. /\ DOMAIN t.variables = DOMAIN values \cup DOMAIN w.variables
        /\ \A n \in DOMAIN t.variables : t.variables[n] = IF n \in DOMAIN values THEN values[n] ELSE w.variables[n]
    BY DEF IsUpdated, IsOver
  <1>4. /\ t.shared = w.shared
        /\ \A n \in SharedNames : t.control[n] = IF n \in DOMAIN values THEN values[n] ELSE w.control[n]
    BY DEF IsUpdated
  <1>5. Applies(t, values)
    BY <1>1, <1>2, <1>3, <1>4 DEF Applies
  <1>6. \A n \in DOMAIN t.inputs : t.control[n] = t.inputs[n]
    BY <1>1, <1>2, <1>4 DEF Tells
  <1>7. \A n \in DOMAIN t.inputs \ loose : t.inputs[n] \in Values => n \in DOMAIN inputs /\ inputs[n] = t.inputs[n]
    BY <1>2 DEF Tells
  <1>8. \A n \in DOMAIN t.variables \ loose :
          n \in DOMAIN w.variables \ loose /\ t.variables[n] = w.variables[n] /\ t.control[n] = w.control[n]
    BY <1>1, <1>3, <1>4
  <1>9. \A n \in DOMAIN t.variables \ loose : n \notin DOMAIN t.inputs => t.control[n] \in Local \cup {t.variables[n]}
    BY <1>2, <1>8 DEF Tells
  <1>10. \A n \in DOMAIN t.variables \ (loose \cup user) :
           n \notin DOMAIN t.inputs /\ t.control[n] = t.variables[n]
    BY <1>2, <1>8 DEF Tells
  <1>11. Tells(t, inputs, loose, user)
    BY <1>4, <1>6, <1>7, <1>9, <1>10 DEF Tells
  <1>12. ASSUME NEW next, InSync(w, next), DOMAIN next \cap DOMAIN values = {}
         PROVE  InSync(t, next)
    BY <1>2, <1>3, <1>4, <1>12 DEF InSync
  <1>13. QED
    BY <1>5, <1>11, <1>12

\* Nor does one that replaces its variables.
LEMMA TellsReplaced ==
  ASSUME NEW w \in Held, NEW values \in Mappings(Values), NEW inputs, NEW loose, NEW user,
         Tells(w, inputs, loose, user), DOMAIN values \subseteq loose, NEW t, IsReplaced(t, w, values)
  PROVE  /\ Tells(t, inputs, loose, user) /\ Applies(t, values)
         /\ \A next : InSync(w, next) /\ DOMAIN next \cap DOMAIN values = {} => InSync(t, next)
  <1>1. /\ DOMAIN t.inputs = DOMAIN w.inputs \ (DOMAIN w.variables \cup DOMAIN values)
        /\ \A n \in DOMAIN t.inputs : t.inputs[n] = w.inputs[n]
    BY DEF IsReplaced, IsPart
  <1>2. /\ t.shared = w.shared /\ t.variables = values
        /\ \A n \in DOMAIN t.inputs : t.control[n] = t.inputs[n]
        /\ \A n \in DOMAIN values \ DOMAIN t.inputs : t.control[n] = values[n]
    BY DEF IsReplaced, IsRendered
  <1>3. Applies(t, values)
    BY <1>1, <1>2 DEF Applies
  <1>4. Tells(t, inputs, loose, user)
    BY <1>1, <1>2 DEF Tells
  <1>5. ASSUME NEW next, InSync(w, next), DOMAIN next \cap DOMAIN values = {}
        PROVE  InSync(t, next)
    BY <1>1, <1>2, <1>5 DEF InSync
  <1>6. QED
    BY <1>3, <1>4, <1>5

\* What holds of all names but some holds of all but more.
LEMMA TellsWider ==
  ASSUME NEW w, NEW inputs, NEW loose, NEW user, Tells(w, inputs, loose, user),
         NEW wider, loose \subseteq wider
  PROVE  Tells(w, inputs, wider, user)
  BY DEF Tells

\* Once an update is applied, its names are not loose any more.
LEMMA TellsSettled ==
  ASSUME NEW w \in Held, NEW values \in Mappings(Values), NEW inputs, NEW loose, NEW user,
         Tells(w, inputs, loose, user), Applies(w, values),
         NEW next \in Mappings(Values), InSync(w, next), DOMAIN next \cap DOMAIN values = {},
         \A n \in SharedNames \ loose : Same(n, next, inputs),
         NEW undone, loose \subseteq undone \cup DOMAIN values,
         NEW touched, user \ DOMAIN values \subseteq touched
  PROVE  Tells(w, next, undone, touched)
  <1>1. /\ DOMAIN w.inputs \subseteq SharedNames /\ w.shared = next
        /\ \A n \in DOMAIN w.inputs : w.control[n] = w.inputs[n]
    BY HeldFacts DEF Tells, InSync
  <1>2. \A n \in DOMAIN w.inputs : w.inputs[n] \in Values => n \in DOMAIN next /\ next[n] = w.inputs[n]
    BY DEF InSync
  <1>3. \A n \in DOMAIN w.variables \ undone : n \notin DOMAIN w.inputs => w.control[n] \in Local \cup {w.variables[n]}
    BY DEF Tells, Applies
  <1>4. \A n \in DOMAIN w.variables \ (undone \cup touched) :
          n \notin DOMAIN w.inputs /\ w.control[n] = w.variables[n]
    BY DEF Tells, Applies
  <1>5. \A n \in SharedNames : Same(n, w.shared, next)
    BY <1>1 DEF Same
  <1>6. QED
    BY <1>1, <1>2, <1>3, <1>4, <1>5 DEF Tells

-----------------------------------------------------------------------------
(* The views one after another *)

\* The browser, field by field.
LEMMA BrowserFacts ==
  ASSUME NEW live \in Seq(Views), NEW b \in Browsers(live)
  PROVE  /\ b.live = live /\ b.model \in Models /\ b.model.inputs \in Mappings(Values)
         /\ b.model.variables \in Mappings(Values) /\ b.model.update.values \in Mappings(Values)
         /\ b.out \in Seq(Mappings(Values)) /\ b.view \in [ToSet(live) -> Held]
         /\ \A v \in ToSet(live) : b.view[v] \in Held
         /\ \A i \in 1 .. Len(live) : live[i] \in ToSet(live)
  BY DEF Browsers, Models, ToSet

\* What a handler of a view's own makes of the browser.
IsStep(c, b, v, w) ==
  /\ c.model = b.model /\ c.live = b.live /\ c.out = b.out
  /\ c.view[v] = w /\ \A u \in DOMAIN b.view \ {v} : c.view[u] = b.view[u]

\* The browser when one view changes.
LEMMA ViewStep ==
  ASSUME NEW live \in Seq(Views), NEW b \in Browsers(live), NEW v \in ToSet(live), NEW w \in Held
  PROVE  [b EXCEPT !.view[v] = w] \in Browsers(live) /\ IsStep([b EXCEPT !.view[v] = w], b, v, w)
  BY DEF Browsers, IsStep

\* A view that hears of the model's inputs.
LEMMA OnSharedInputsFacts ==
  ASSUME NEW live \in Seq(Views), NEW b \in Browsers(live), NEW v \in ToSet(live)
  PROVE  /\ OnSharedInputs(b, v) \in Browsers(live)
         /\ IsStep(OnSharedInputs(b, v), b, v, Told(b.view[v], b.model.inputs))
  <1> DEFINE w == Told(b.view[v], b.model.inputs)
  <1>1. b.view[v] \in Held /\ b.model.inputs \in Mappings(Values)
    BY BrowserFacts
  <1>2. w \in Held
    BY <1>1, ToldFacts DEF IsTold
  <1>3. OnSharedInputs(b, v) = [b EXCEPT !.view[v] = w]
    BY DEF OnSharedInputs, Told, Browsers
  <1> HIDE DEF w
  <1>4. QED
    BY <1>2, <1>3, ViewStep DEF w

\* One listener of the change event of _view_values.
Listen(acc, v, publishers) == IF v \in publishers THEN acc ELSE OnSharedInputs(acc, v)

InputsChain(b, publishers, f) ==
  /\ f[0] = b /\ InputsChanged(b, publishers) = f[Len(b.live)]
  /\ \A i \in 1 .. Len(b.live) : f[i] = Listen(f[i - 1], b.live[i], publishers)

\* A change event of the inputs goes through the live views one by one.
LEMMA InputsChangedUnfolds ==
  ASSUME NEW live \in Seq(Views), NEW b \in Browsers(live), NEW P
  PROVE  \E f : InputsChain(b, P, f)
  <1> DEFINE n == Len(live)
             V == Browsers(live)
             Op == [p \in (1 .. n) \X V |-> Listen(p[2], live[p[1]], P)]
             Equation(g) == g = [T \in SUBSET (1 .. n) |-> IF T = {} THEN b
                                   ELSE LET x == Max(T)
                                        IN  Listen(g[T \ {x}], live[x], P)]
             iter == CHOOSE g : Equation(g)
  <1>1. n \in Nat /\ DOMAIN live = 1 .. n /\ b.live = live
    BY BrowserFacts
  <1>2. \A i \in 1 .. n, acc \in V : Listen(acc, live[i], P) \in V
    BY <1>1, BrowserFacts, OnSharedInputsFacts DEF Listen
  <1>3. Op \in [(1 .. n) \X V -> V] /\ \A i \in 1 .. n, acc \in V : Op[<<i, acc>>] = Listen(acc, live[i], P)
    BY <1>2
  <1>4. InputsChanged(b, P) = iter[1 .. n]
    BY <1>1 DEF InputsChanged, FoldLeft, MapThenFoldSet, Listen
  <1> HIDE DEF Op, V
  <1>5. PICK f : LeftFolds(n, V, b, Op, f)
    BY <1>1, <1>3, LeftFoldExists DEF V
  <1>6. ASSUME NEW T \in (SUBSET (1 .. n)) \ {{}}
        PROVE  f[T] = Listen(f[T \ {Max(T)}], live[Max(T)], P)
    <2>1. Max(T) \in 1 .. n
      BY <1>1, LargestPicks
    <2>2. f[T \ {Max(T)}] \in V
      BY <1>5 DEF LeftFolds
    <2>3. QED
      BY <1>3, <1>5, <2>1, <2>2 DEF LeftFolds
  <1>7. Equation(f)
    BY <1>5, <1>6 DEF LeftFolds
  <1>8. Equation(iter)
    <2> HIDE DEF Equation
    <2>1. QED
      BY <1>7
  <1>9. iter[{}] = b /\ \A T \in (SUBSET (1 .. n)) \ {{}} : iter[T] = Listen(iter[T \ {Max(T)}], live[Max(T)], P)
    BY <1>8
  <1> HIDE DEF iter
  <1> DEFINE h == [i \in 0 .. n |-> iter[1 .. i]]
  <1>10. h[0] = b
    BY <1>1, <1>9
  <1>11. h[n] = InputsChanged(b, P)
    BY <1>1, <1>4
  <1>12. ASSUME NEW i \in 1 .. n
         PROVE  h[i] = Listen(h[i - 1], live[i], P)
    <2>1. /\ 1 .. i \in (SUBSET (1 .. n)) \ {{}} /\ Max(1 .. i) = i
          /\ (1 .. i) \ {Max(1 .. i)} = 1 .. (i - 1)
      BY <1>1, LeftFoldPrefixes
    <2>2. iter[1 .. i] = Listen(iter[1 .. (i - 1)], live[i], P)
      BY <1>9, <2>1
    <2>3. QED
      BY <1>1, <2>2
  <1> HIDE DEF h
  <1>13. QED
    BY <1>1, <1>10, <1>11, <1>12 DEF InputsChain

\* Every view but the publishers has been told the inputs.
Informed(c, b, publishers) ==
  /\ c.model = b.model /\ c.live = b.live /\ c.out = b.out
  /\ \A v \in ToSet(b.live) :
       c.view[v] = IF v \in publishers THEN b.view[v] ELSE Told(b.view[v], b.model.inputs)

\* The first i views have been called.
InformedUpTo(c, b, publishers, i) ==
  /\ c.model = b.model /\ c.live = b.live /\ c.out = b.out
  /\ \A k \in 1 .. Len(b.live) :
       c.view[b.live[k]] = IF k <= i /\ b.live[k] \notin publishers
                           THEN Told(b.view[b.live[k]], b.model.inputs) ELSE b.view[b.live[k]]

\* If the first views have heard of the inputs, the next one hears.
LEMMA InformedStep ==
  ASSUME NEW live \in Seq(Views), IsInjective(live), NEW b \in Browsers(live), NEW P,
         NEW i \in 1 .. Len(live), NEW c \in Browsers(live), InformedUpTo(c, b, P, i - 1)
  PROVE  Listen(c, live[i], P) \in Browsers(live) /\ InformedUpTo(Listen(c, live[i], P), b, P, i)
  <1> DEFINE d == Listen(c, live[i], P)
             n == Len(live)
             v == live[i]
  <1>1. /\ b.live = live /\ DOMAIN live = 1 .. n /\ n \in Nat
        /\ DOMAIN c.view = ToSet(live) /\ \A k \in 1 .. n : live[k] \in ToSet(live)
    BY BrowserFacts
  <1>2. \A j, k \in 1 .. n : live[j] = live[k] => j = k
    BY <1>1 DEF IsInjective
  <1>3. c.view[v] = b.view[v] /\ c.model = b.model /\ c.live = b.live /\ c.out = b.out
    BY <1>1 DEF InformedUpTo
  <1>4. CASE v \in P
    <2>1. d = c
      BY <1>4 DEF Listen
    <2>2. ASSUME NEW k \in 1 .. n
          PROVE  c.view[live[k]] = IF k <= i /\ live[k] \notin P
                                   THEN Told(b.view[live[k]], b.model.inputs) ELSE b.view[live[k]]
      <3>1. k <= i /\ live[k] \notin P <=> k <= i - 1 /\ live[k] \notin P
        BY <1>1, <1>4
      <3>2. QED
        BY <1>1, <3>1 DEF InformedUpTo
    <2>3. QED
      BY <1>1, <1>3, <2>1, <2>2 DEF InformedUpTo
  <1>5. CASE v \notin P
    <2>1. d = OnSharedInputs(c, v) /\ v \in ToSet(live)
      BY <1>1, <1>5 DEF Listen
    <2>2. d \in Browsers(live) /\ IsStep(d, c, v, Told(b.view[v], b.model.inputs))
      BY <1>3, <2>1, OnSharedInputsFacts
    <2> HIDE DEF d
    <2>3. ASSUME NEW k \in 1 .. n
          PROVE  d.view[live[k]] = IF k <= i /\ live[k] \notin P
                                   THEN Told(b.view[live[k]], b.model.inputs) ELSE b.view[live[k]]
      <3>1. CASE k = i
        BY <1>5, <2>2, <3>1 DEF IsStep
      <3>2. CASE k # i
        <4>1. live[k] \in DOMAIN c.view \ {v}
          BY <1>1, <1>2, <3>2
        <4>2. d.view[live[k]] = c.view[live[k]]
          BY <2>2, <4>1 DEF IsStep
        <4>3. k <= i <=> k <= i - 1
          BY <1>1, <3>2
        <4>4. QED
          BY <1>1, <4>2, <4>3 DEF InformedUpTo
      <3>3. QED
        BY <3>1, <3>2
    <2>4. QED
      BY <1>1, <1>3, <2>2, <2>3 DEF InformedUpTo, IsStep, d
  <1>6. QED
    BY <1>4, <1>5

\* So every live view that does not publish hears of them.
LEMMA InputsChangedFacts ==
  ASSUME NEW live \in Seq(Views), IsInjective(live), NEW b \in Browsers(live), NEW P
  PROVE  InputsChanged(b, P) \in Browsers(live) /\ Informed(InputsChanged(b, P), b, P)
  <1> DEFINE n == Len(live)
  <1>1. PICK f : InputsChain(b, P, f)
    BY InputsChangedUnfolds
  <1>2. b.live = live /\ DOMAIN live = 1 .. n /\ n \in Nat
    BY BrowserFacts
  <1> DEFINE Good == {i \in 0 .. n : f[i] \in Browsers(live) /\ InformedUpTo(f[i], b, P, i)}
  <1>3. 0 \in Good
    BY <1>1, <1>2 DEF InputsChain, InformedUpTo
  <1>4. ASSUME NEW i \in 1 .. n, i - 1 \in Good
        PROVE  i \in Good
    <2>1. f[i] = Listen(f[i - 1], live[i], P)
      BY <1>1, <1>2 DEF InputsChain
    <2>2. f[i] \in Browsers(live) /\ InformedUpTo(f[i], b, P, i)
      BY <1>4, <2>1, InformedStep
    <2>3. QED
      BY <1>2, <2>2
  <1> HIDE DEF Good
  <1>5. n \in Good
    <2> HIDE DEF n
    <2>1. \A i \in 0 .. n : i \in Good
      BY <1>2, <1>3, <1>4, PrefixInduction
    <2>2. QED
      BY <1>2, <2>1
  <1>6. f[n] \in Browsers(live) /\ InformedUpTo(f[n], b, P, n) /\ InputsChanged(b, P) = f[n]
    BY <1>1, <1>2, <1>5 DEF Good, InputsChain
  <1>7. ASSUME NEW v \in ToSet(live)
        PROVE  f[n].view[v] = IF v \in P THEN b.view[v] ELSE Told(b.view[v], b.model.inputs)
    <2>1. PICK k \in 1 .. n : live[k] = v
      BY <1>2 DEF ToSet
    <2>2. QED
      BY <1>2, <1>6, <2>1 DEF InformedUpTo
  <1>8. QED
    BY <1>2, <1>6, <1>7 DEF InformedUpTo, Informed

\* What model.set of _view_values makes of the browser.
IsShared(c, b, next, publishers) ==
  IF b.model.inputs = next THEN c = b
  ELSE /\ c.model = [b.model EXCEPT !.inputs = next] /\ c.live = b.live /\ c.out = b.out
       /\ \A v \in ToSet(b.live) :
            c.view[v] = IF v \in publishers THEN b.view[v] ELSE Told(b.view[v], next)

\* model.set of the inputs tells all others what they are.
LEMMA SetSharedFacts ==
  ASSUME NEW live \in Seq(Views), IsInjective(live), NEW b \in Browsers(live),
         NEW next \in Mappings(Values), NEW P
  PROVE  SetShared(b, next, P) \in Browsers(live) /\ IsShared(SetShared(b, next, P), b, next, P)
  <1> DEFINE set == [b EXCEPT !.model.inputs = next]
  <1>1. CASE b.model.inputs = next
    BY <1>1 DEF SetShared, IsShared
  <1>2. CASE b.model.inputs # next
    <2>1. SetShared(b, next, P) = InputsChanged(set, P)
      BY <1>2 DEF SetShared
    <2>2. set \in Browsers(live)
      BY DEF Browsers, Models
    <2>3. /\ set.model = [b.model EXCEPT !.inputs = next] /\ set.live = b.live /\ set.out = b.out
          /\ set.view = b.view /\ set.model.inputs = next
      BY DEF Browsers, Models
    <2> HIDE DEF set
    <2>4. InputsChanged(set, P) \in Browsers(live) /\ Informed(InputsChanged(set, P), set, P)
      BY <2>2, InputsChangedFacts
    <2>5. QED
      BY <1>2, <2>1, <2>3, <2>4 DEF Informed, IsShared
  <1>3. QED
    BY <1>1, <1>2

\* save_changes only adds to what is sent.
IsSaved(d, c) == d.model = c.model /\ d.live = c.live /\ d.view = c.view

\* save_changes changes only what is sent.
LEMMA SaveFacts ==
  ASSUME NEW live \in Seq(Views), NEW b, NEW c \in Browsers(live)
  PROVE  Save(b, c) \in Browsers(live) /\ IsSaved(Save(b, c), c)
  <1>1. c.out \in Seq(Mappings(Values)) /\ c.model.inputs \in Mappings(Values)
    BY BrowserFacts
  <1>2. Append(c.out, c.model.inputs) \in Seq(Mappings(Values))
    BY <1>1, AppendProperties
  <1>3. QED
    BY <1>2 DEF Save, Browsers, IsSaved
-----------------------------------------------------------------------------
(* An update, view after view *)

\* What the browser makes of an update: from the inputs it had, to the variables after it;
\* `synced' when the views have been told the inputs that came with it.
Sensible(p) ==
  /\ p.inputs \in Mappings(Values) /\ p.before \in Mappings(Values)
  /\ p.update \in Patches /\ p.after = After(p.before, p.update)
  /\ DOMAIN p.update.values \subseteq p.loose /\ DOMAIN p.inputs \subseteq p.loose \cup p.user

Telling(w, p) == Tells(w, p.inputs, p.loose, p.user)

Steady(b, p) ==
  /\ \A n \in SharedNames \ p.loose : Same(n, b.model.inputs, p.inputs)
  /\ \A u \in ToSet(b.live) :
       Telling(b.view[u], p) /\ (p.synced => InSync(b.view[u], b.model.inputs))

\* No input of a name that the update sets.
Cleaned(b, p) == DOMAIN b.model.inputs \cap DOMAIN p.update.values = {}

KeepsTelling(t, w, p) ==
  /\ t \in Held /\ Telling(t, p) /\ t.variables = w.variables /\ t.last = w.last
  /\ Applies(w, p.update.values) => Applies(t, p.update.values)

\* A view amid an update that hears of inputs still tells what it told.
LEMMA KeepsTold ==
  ASSUME NEW p, Sensible(p), NEW w \in Held, Telling(w, p), NEW next \in Mappings(Values),
         \A n \in SharedNames \ p.loose : Same(n, next, p.inputs),
         DOMAIN next \cap DOMAIN p.update.values = {}
  PROVE  KeepsTelling(Told(w, next), w, p) /\ InSync(Told(w, next), next)
  <1> DEFINE t == Told(w, next)
  <1>1. IsTold(t, w, next)
    BY ToldFacts
  <1> HIDE DEF t
  <1>2. p.inputs \in Mappings(Values) /\ p.update.values \in Mappings(Values) /\ DOMAIN p.inputs \subseteq p.loose \cup p.user
    BY DEF Sensible, Patches
  <1>3. Tells(t, p.inputs, p.loose, p.user) /\ InSync(t, next)
    BY <1>1, <1>2, TellsTold DEF Telling
  <1>4. Applies(w, p.update.values) => Applies(t, p.update.values)
    BY <1>1, <1>2, AppliesTold
  <1>5. t \in Held /\ t.variables = w.variables /\ t.last = w.last
    BY <1>1 DEF IsTold
  <1>6. QED
    BY <1>3, <1>4, <1>5 DEF KeepsTelling, Telling, t

\* So does one that sets what it shares.
LEMMA KeepsShared ==
  ASSUME NEW p, Sensible(p), NEW w \in Held, Telling(w, p), NEW next \in Mappings(Values),
         \A n \in SharedNames \ p.loose : Same(n, next, p.inputs)
  PROVE  KeepsTelling([w EXCEPT !.shared = next], w, p)
  <1> DEFINE t == [w EXCEPT !.shared = next]
  <1>1. /\ t \in Held /\ t.shared = next /\ t.inputs = w.inputs /\ t.variables = w.variables
        /\ t.last = w.last /\ t.control = w.control
    BY DEF Held
  <1> HIDE DEF t
  <1>2. Tells(t, p.inputs, p.loose, p.user)
    BY <1>1 DEF Telling, Tells
  <1>3. Applies(w, p.update.values) => Applies(t, p.update.values)
    BY <1>1 DEF Applies
  <1>4. QED
    BY <1>1, <1>2, <1>3 DEF KeepsTelling, Telling, t

\* What is left of the browser when a view has taken the update's names out of the inputs.
IsCleared(c, b, p) ==
  /\ c.live = b.live /\ c.model.update = b.model.update /\ c.model.variables = b.model.variables
  /\ Steady(c, p) /\ Cleaned(c, p)
  /\ \A u \in ToSet(b.live) : KeepsTelling(c.view[u], b.view[u], p)

\* Clearing an update's inputs in the shared model leaves every view as faithful as before.
LEMMA ClearInputsFacts ==
  ASSUME NEW live \in Seq(Views), IsInjective(live), NEW b \in Browsers(live), NEW v \in ToSet(live),
         NEW p, Sensible(p), Steady(b, p), p.synced \/ Cleaned(b, p)
  PROVE  LET c == ClearInputs(b, v, DOMAIN p.update.values)
         IN  c \in Browsers(live) /\ IsCleared(c, b, p)
  <1> DEFINE names == DOMAIN p.update.values
             w == b.view[v]
             next == Without(w.shared, names)
             set == [b EXCEPT !.view[v].shared = next]
             d == SetShared(set, next, {})
             c == ClearInputs(b, v, names)
  <1>1. /\ b.live = live /\ w \in Held /\ DOMAIN b.view = ToSet(live)
        /\ \A u \in ToSet(live) : b.view[u] \in Held
    BY BrowserFacts
  <1>2. w.shared \in Mappings(Values) /\ Telling(w, p) /\ names \subseteq p.loose
    BY <1>1, HeldFacts DEF Steady, Sensible
  <1>3. next \in Mappings(Values) /\ IsPart(next, w.shared, DOMAIN w.shared \ names)
    BY <1>2, WithoutFacts
  <1>4. c = IF next = w.shared THEN b ELSE Save(b, d)
    BY DEF ClearInputs
  <1>5. set = [b EXCEPT !.view[v] = [w EXCEPT !.shared = next]]
    BY DEF Browsers
  <1> HIDE DEF next
  <1>6. \A n \in SharedNames \ p.loose : Same(n, next, p.inputs)
    <2>1. \A n \in SharedNames \ p.loose : Same(n, w.shared, p.inputs)
      BY <1>2 DEF Telling, Tells
    <2>2. QED
      BY <1>2, <1>3, <2>1 DEF IsPart, Same
  <1>7. DOMAIN next \cap names = {}
    BY <1>3 DEF IsPart
  <1>8. CASE next = w.shared
    <2>1. c = b
      BY <1>4, <1>8
    <2>2. Cleaned(b, p)
      <3>1. CASE p.synced
        <4>1. w.shared = b.model.inputs
          BY <1>1, <3>1 DEF Steady, InSync
        <4>2. QED
          BY <1>7, <1>8, <4>1 DEF Cleaned
      <3>2. QED
        BY <3>1
    <2>3. \A u \in ToSet(live) : KeepsTelling(b.view[u], b.view[u], p)
      BY <1>1 DEF Steady, KeepsTelling
    <2>4. IsCleared(b, b, p)
      BY <1>1, <2>2, <2>3 DEF IsCleared
    <2>5. QED
      BY <2>1, <2>4
  <1>9. CASE next # w.shared
    <2>1. c = Save(b, d)
      BY <1>4, <1>9
    <2>2. [w EXCEPT !.shared = next] \in Held
      BY <1>1, <1>3 DEF Held
    <2>3. set \in Browsers(live) /\ IsStep(set, b, v, [w EXCEPT !.shared = next])
      BY <1>5, <2>2, ViewStep
    <2> HIDE DEF set
    <2>4. d \in Browsers(live) /\ IsShared(d, set, next, {})
      BY <1>3, <2>3, SetSharedFacts
    <2> HIDE DEF d
    <2>5. c \in Browsers(live) /\ IsSaved(c, d)
      BY <2>1, <2>4, SaveFacts
    <2> HIDE DEF c
    <2>6. /\ set.model = b.model /\ set.live = live /\ set.view[v] = [w EXCEPT !.shared = next]
          /\ \A u \in ToSet(live) \ {v} : set.view[u] = b.view[u]
          /\ \A u \in ToSet(live) : set.view[u] \in Held
      BY <1>1, <2>3, BrowserFacts DEF IsStep
    <2>7. ASSUME NEW u \in ToSet(live)
          PROVE  KeepsTelling(set.view[u], b.view[u], p)
      <3>1. CASE u = v
        BY <1>1, <1>2, <1>3, <1>6, <2>6, <3>1, KeepsShared
      <3>2. CASE u # v
        BY <1>1, <2>6, <3>2 DEF Steady, KeepsTelling
      <3>3. QED
        BY <3>1, <3>2
    <2>8. c.model = [b.model EXCEPT !.inputs = next] /\ c.live = live
      <3>1. b.model.inputs = next => b.model = [b.model EXCEPT !.inputs = next]
        BY DEF Browsers, Models
      <3>2. QED
        BY <2>4, <2>5, <2>6, <3>1 DEF IsShared, IsSaved
    <2>9. /\ c.model.inputs = next /\ c.model.update = b.model.update
          /\ c.model.variables = b.model.variables
      BY <2>8 DEF Browsers, Models
    <2>10. ASSUME NEW u \in ToSet(live)
           PROVE  KeepsTelling(c.view[u], b.view[u], p) /\ (p.synced => InSync(c.view[u], next))
      <3>1. CASE b.model.inputs = next
        <4>1. c.view[u] = set.view[u]
          BY <2>4, <2>5, <2>6, <3>1 DEF IsShared, IsSaved
        <4>2. ~p.synced
          BY <1>1, <1>9, <3>1 DEF Steady, InSync
        <4>3. QED
          BY <2>7, <4>1, <4>2
      <3>2. CASE b.model.inputs # next
        <4>1. c.view[u] = Told(set.view[u], next)
          BY <2>4, <2>5, <2>6, <3>2 DEF IsShared, IsSaved
        <4>2. set.view[u] \in Held /\ Telling(set.view[u], p)
          BY <2>6, <2>7 DEF KeepsTelling
        <4>3. KeepsTelling(c.view[u], set.view[u], p) /\ InSync(c.view[u], next)
          BY <1>3, <1>6, <1>7, <4>1, <4>2, KeepsTold
        <4>4. QED
          BY <2>7, <4>3 DEF KeepsTelling
      <3>3. QED
        BY <3>1, <3>2
    <2>11. Steady(c, p)
      BY <1>6, <2>8, <2>9, <2>10 DEF Steady, KeepsTelling
    <2>12. Cleaned(c, p)
      BY <1>7, <2>9 DEF Cleaned
    <2>13. IsCleared(c, b, p)
      BY <1>1, <2>8, <2>9, <2>10, <2>11, <2>12 DEF IsCleared
    <2>14. QED
      BY <2>5, <2>13 DEF c
  <1>10. QED
    BY <1>8, <1>9

Awaits(w, p) == w.variables = p.before /\ w.last < p.update.seq

Finished(w, p) ==
  w.variables = p.after /\ w.last = p.update.seq /\ Applies(w, p.update.values)

\* The update is in the model, and the first i views have applied it.
Along(b, p, i) ==
  /\ b.model.update = p.update /\ b.model.variables = p.after /\ Steady(b, p)
  /\ i > 0 \/ ~p.synced => Cleaned(b, p)
  /\ \A k \in 1 .. Len(b.live) :
       IF k <= i THEN Finished(b.view[b.live[k]], p) ELSE Awaits(b.view[b.live[k]], p)

\* The view's own part of an update.
AppliedBy(w, p) ==
  IF p.update.kind = "set" THEN UpdateVariables(w, p.update.values)
  ELSE ReplaceVariables(w, p.update.values)

\* A view that applies the update has it, and tells no more than before.
LEMMA AppliedByFacts ==
  ASSUME NEW p, Sensible(p), NEW w \in Held, Telling(w, p), w.variables = p.before,
         w.last = p.update.seq
  PROVE  /\ AppliedBy(w, p) \in Held /\ Telling(AppliedBy(w, p), p) /\ Finished(AppliedBy(w, p), p)
         /\ \A next : InSync(w, next) /\ DOMAIN next \cap DOMAIN p.update.values = {}
                        => InSync(AppliedBy(w, p), next)
  <1> DEFINE t == AppliedBy(w, p)
             values == p.update.values
  <1>1. values \in Mappings(Values) /\ DOMAIN values \subseteq p.loose /\ Tells(w, p.inputs, p.loose, p.user)
    BY DEF Sensible, Patches, Telling
  <1>2. CASE p.update.kind = "set"
    <2>1. IsUpdated(t, w, values)
      BY <1>1, <1>2, UpdatedFacts DEF AppliedBy
    <2>2. p.after = Over(values, w.variables)
      BY <1>2 DEF Sensible, After
    <2> HIDE DEF t, values
    <2>3. /\ Tells(t, p.inputs, p.loose, p.user) /\ Applies(t, values)
          /\ \A next : InSync(w, next) /\ DOMAIN next \cap DOMAIN values = {} => InSync(t, next)
      BY <1>1, <2>1, TellsUpdated
    <2>4. t \in Held /\ t.variables = p.after /\ t.last = p.update.seq
      BY <2>1, <2>2 DEF IsUpdated
    <2>5. QED
      BY <2>3, <2>4 DEF Telling, Finished, t, values
  <1>3. CASE p.update.kind # "set"
    <2>1. IsReplaced(t, w, values)
      BY <1>1, <1>3, ReplacedFacts DEF AppliedBy
    <2>2. p.after = values
      BY <1>3 DEF Sensible, After
    <2> HIDE DEF t, values
    <2>3. /\ Tells(t, p.inputs, p.loose, p.user) /\ Applies(t, values)
          /\ \A next : InSync(w, next) /\ DOMAIN next \cap DOMAIN values = {} => InSync(t, next)
      BY <1>1, <2>1, TellsReplaced
    <2>4. t \in Held /\ t.variables = p.after /\ t.last = p.update.seq
      BY <2>1, <2>2 DEF IsReplaced
    <2>5. QED
      BY <2>3, <2>4 DEF Telling, Finished, t, values
  <1>4. QED
    BY <1>2, <1>3

\* What the handler of _variable_update makes of the browser in a view that awaits the update.
Handling(b, v, p) ==
  LET c == ClearInputs([b EXCEPT !.view[v].last = p.update.seq], v, DOMAIN p.update.values)
  IN  [c EXCEPT !.view[v] = AppliedBy(@, p)]

\* The handler of _variable_update in a view that has not applied it.
LEMMA OnVariablesAwaiting ==
  ASSUME NEW live \in Seq(Views), NEW b \in Browsers(live), NEW v \in ToSet(live),
         NEW p, Sensible(p), b.model.update = p.update, b.model.variables = p.after,
         b.view[v].last < p.update.seq
  PROVE  OnVariables(b, v) = Handling(b, v, p)
  <1> DEFINE seen == [b EXCEPT !.view[v].last = p.update.seq]
             c == ClearInputs(seen, v, DOMAIN p.update.values)
  <1>1. p.update.seq \in Nat /\ p.update.kind \in {"set", "replace"} /\ b.view[v].last \in Nat
    BY BrowserFacts, HeldFacts DEF Sensible, Patches
  <1>2. ~(p.update.seq <= b.view[v].last)
    BY <1>1
  <1>3. CASE p.update.kind = "set"
    BY <1>1, <1>2, <1>3 DEF OnVariables, AppliedBy, Handling
  <1>4. CASE p.update.kind = "replace"
    <2>1. p.after = p.update.values
      BY <1>4 DEF Sensible, After
    <2>2. DOMAIN b.model.variables \cup DOMAIN b.model.update.values = DOMAIN p.update.values
      BY <2>1
    <2>3. QED
      BY <1>1, <1>2, <1>4, <2>2 DEF OnVariables, AppliedBy, Handling
  <1>5. QED
    BY <1>1, <1>3, <1>4

\* If the first views have applied the update, the next one applies it.
LEMMA AlongStep ==
  ASSUME NEW live \in Seq(Views), IsInjective(live), NEW b \in Browsers(live), NEW p, Sensible(p),
         NEW i \in 1 .. Len(live), Along(b, p, i - 1)
  PROVE  OnVariables(b, live[i]) \in Browsers(live) /\ Along(OnVariables(b, live[i]), p, i)
  <1> DEFINE n == Len(live)
             v == live[i]
             w == [b.view[v] EXCEPT !.last = p.update.seq]
             seen == [b EXCEPT !.view[v].last = p.update.seq]
             c == ClearInputs(seen, v, DOMAIN p.update.values)
             d == [c EXCEPT !.view[v] = AppliedBy(@, p)]
  <1>1. /\ b.live = live /\ DOMAIN live = 1 .. n /\ n \in Nat /\ v \in ToSet(live)
        /\ \A k \in 1 .. n : live[k] \in ToSet(live)
        /\ \A u \in ToSet(live) : b.view[u] \in Held
    BY BrowserFacts
  <1>2. \A j, k \in 1 .. n : live[j] = live[k] => j = k
    BY <1>1 DEF IsInjective
  <1>3. p.update.seq \in Nat
    BY DEF Sensible, Patches
  <1>4. Awaits(b.view[v], p)
    BY <1>1 DEF Along
  <1>5. OnVariables(b, v) = d
    <2>1. b.model.update = p.update /\ b.model.variables = p.after /\ b.view[v].last < p.update.seq
      BY <1>4 DEF Along, Awaits
    <2>2. OnVariables(b, v) = Handling(b, v, p)
      <3> HIDE DEF v
      <3>1. QED
        BY <1>1, <2>1, OnVariablesAwaiting
    <2>3. QED
      BY <2>2 DEF Handling
  <1>6. w \in Held /\ Telling(w, p) /\ w.variables = p.before /\ w.last = p.update.seq
    <2>1. /\ w \in Held /\ w.shared = b.view[v].shared /\ w.inputs = b.view[v].inputs
          /\ w.variables = b.view[v].variables /\ w.control = b.view[v].control /\ w.last = p.update.seq
      BY <1>1, <1>3 DEF Held
    <2>2. Telling(b.view[v], p)
      BY <1>1 DEF Along, Steady
    <2>3. QED
      BY <1>4, <2>1, <2>2 DEF Telling, Tells, Awaits
  <1>7. p.synced => InSync(w, b.model.inputs)
    <2>1. /\ w.shared = b.view[v].shared /\ w.inputs = b.view[v].inputs /\ w.variables = b.view[v].variables
      BY <1>1 DEF Held
    <2>2. p.synced => InSync(b.view[v], b.model.inputs)
      BY <1>1 DEF Along, Steady
    <2>3. QED
      BY <2>1, <2>2 DEF InSync
  <1>8. seen = [b EXCEPT !.view[v] = w]
    BY DEF Browsers
  <1> HIDE DEF w
  <1>9. seen \in Browsers(live) /\ IsStep(seen, b, v, w)
    BY <1>1, <1>6, <1>8, ViewStep
  <1> HIDE DEF seen
  <1>10. /\ seen.model = b.model /\ seen.live = live /\ seen.view[v] = w
         /\ \A u \in ToSet(live) \ {v} : seen.view[u] = b.view[u]
    BY <1>1, <1>9, BrowserFacts DEF IsStep
  <1>11. Steady(seen, p) /\ (p.synced \/ Cleaned(seen, p))
    BY <1>1, <1>6, <1>7, <1>10 DEF Along, Steady, Cleaned
  <1>12. c \in Browsers(live) /\ IsCleared(c, seen, p)
    BY <1>1, <1>9, <1>11, ClearInputsFacts
  <1> HIDE DEF c
  <1>13. /\ c.live = live /\ c.model.update = p.update /\ c.model.variables = p.after
         /\ Steady(c, p) /\ Cleaned(c, p) /\ DOMAIN c.view = ToSet(live)
         /\ \A u \in ToSet(live) : KeepsTelling(c.view[u], seen.view[u], p)
    BY <1>10, <1>12, BrowserFacts DEF IsCleared, Along
  <1> DEFINE t == AppliedBy(c.view[v], p)
  <1>14. t \in Held /\ Telling(t, p) /\ Finished(t, p) /\ (p.synced => InSync(t, c.model.inputs))
    <2>1. c.view[v] \in Held /\ Telling(c.view[v], p) /\ c.view[v].variables = p.before /\ c.view[v].last = p.update.seq
      BY <1>1, <1>6, <1>10, <1>13 DEF KeepsTelling
    <2>2. p.synced => InSync(c.view[v], c.model.inputs)
      BY <1>1, <1>13 DEF Steady
    <2>3. QED
      BY <1>13, <2>1, <2>2, AppliedByFacts DEF Cleaned
  <1>15. d = [c EXCEPT !.view[v] = t]
    BY <1>1, <1>13
  <1> HIDE DEF t, d
  <1>16. d \in Browsers(live) /\ IsStep(d, c, v, t)
    BY <1>1, <1>12, <1>14, <1>15, ViewStep
  <1>17. /\ d.model = c.model /\ d.live = live /\ d.view[v] = t
         /\ \A u \in ToSet(live) \ {v} : d.view[u] = c.view[u]
    BY <1>13, <1>16 DEF IsStep
  <1>18. Steady(d, p) /\ Cleaned(d, p)
    BY <1>13, <1>14, <1>17 DEF Steady, Cleaned
  <1>19. ASSUME NEW k \in 1 .. n
         PROVE  IF k <= i THEN Finished(d.view[live[k]], p) ELSE Awaits(d.view[live[k]], p)
    <2>1. CASE k = i
      BY <1>14, <1>17, <2>1
    <2>2. CASE k # i
      <3>1. live[k] \in ToSet(live) \ {v} /\ (k <= i <=> k <= i - 1)
        BY <1>1, <1>2, <2>2
      <3>2. KeepsTelling(d.view[live[k]], b.view[live[k]], p)
        BY <1>10, <1>13, <1>17, <3>1
      <3>3. IF k <= i THEN Finished(b.view[live[k]], p) ELSE Awaits(b.view[live[k]], p)
        BY <1>1, <3>1 DEF Along
      <3>4. QED
        BY <3>2, <3>3 DEF KeepsTelling, Finished, Awaits
    <2>3. QED
      BY <2>1, <2>2
  <1>20. Along(d, p, i)
    BY <1>13, <1>17, <1>18, <1>19 DEF Along
  <1>21. QED
    BY <1>5, <1>16, <1>20

\* The browser with an update in its model.
Updating(live) == {b \in Browsers(live) : b.model.update \in Patches}

\* The event of an update keeps the browser's type in whatever order it comes.
LEMMA OnVariablesType ==
  ASSUME NEW live \in Seq(Views), IsInjective(live), NEW b \in Updating(live), NEW v \in ToSet(live)
  PROVE  OnVariables(b, v) \in Updating(live)
  <1> DEFINE patch == b.model.update
             w == [b.view[v] EXCEPT !.last = patch.seq]
             seen == [b EXCEPT !.view[v].last = patch.seq]
  <1>1. /\ b \in Browsers(live) /\ patch \in Patches /\ b.live = live /\ b.view[v] \in Held
        /\ patch.seq \in Nat /\ b.view[v].last \in Nat /\ patch.kind \in {"set", "replace"}
        /\ patch.values \in Mappings(Values)
    BY BrowserFacts, HeldFacts DEF Updating, Patches
  <1>2. w \in Held
    BY <1>1 DEF Held
  <1>3. seen = [b EXCEPT !.view[v] = w]
    BY <1>1 DEF Browsers
  <1> HIDE DEF w
  <1>4. seen \in Browsers(live) /\ seen.model = b.model
    BY <1>1, <1>2, <1>3, ViewStep DEF IsStep
  <1> HIDE DEF seen
  <1>5. ASSUME NEW names
        PROVE  ClearInputs(seen, v, names) \in Updating(live)
    <2> DEFINE mapping == seen.view[v].shared
               next == Without(mapping, names)
               u == [seen.view[v] EXCEPT !.shared = next]
               set == [seen EXCEPT !.view[v].shared = next]
               d == SetShared(set, next, {})
               c == Save(seen, d)
    <2>1. ClearInputs(seen, v, names) = IF next = mapping THEN seen ELSE c
      BY DEF ClearInputs
    <2>2. seen.view[v] \in Held /\ mapping \in Mappings(Values)
      BY <1>4, BrowserFacts, HeldFacts
    <2>3. next \in Mappings(Values)
      BY <2>2, WithoutFacts
    <2>4. set = [seen EXCEPT !.view[v] = u]
      BY <1>4 DEF Browsers
    <2> HIDE DEF next
    <2>5. u \in Held
      BY <2>2, <2>3 DEF Held
    <2> HIDE DEF u, set
    <2>6. set \in Browsers(live) /\ set.model = seen.model
      BY <1>4, <2>4, <2>5, ViewStep DEF IsStep
    <2> HIDE DEF d
    <2>7. d \in Browsers(live) /\ IsShared(d, set, next, {})
      BY <2>3, <2>6, SetSharedFacts DEF d
    <2> HIDE DEF c
    <2>8. c \in Browsers(live) /\ c.model = d.model
      BY <2>7, SaveFacts DEF c, IsSaved
    <2>9. set.model \in Models
      BY <2>6, BrowserFacts
    <2>10. d.model.update = set.model.update
      BY <2>7, <2>9 DEF IsShared, Models
    <2>11. QED
      BY <1>1, <1>4, <2>1, <2>6, <2>8, <2>10 DEF Updating
  <1>6. ASSUME NEW c \in Updating(live), NEW t \in Held
        PROVE  [c EXCEPT !.view[v] = t] \in Updating(live)
    <2>1. c \in Browsers(live) /\ c.model.update \in Patches
      BY DEF Updating
    <2>2. [c EXCEPT !.view[v] = t] \in Browsers(live) /\ [c EXCEPT !.view[v] = t].model = c.model
      BY <2>1, ViewStep DEF IsStep
    <2>3. QED
      BY <2>1, <2>2 DEF Updating
  <1>7. CASE patch.seq <= b.view[v].last
    <2>1. ~(patch.seq > b.view[v].last)
      BY <1>1, <1>7
    <2>2. OnVariables(b, v) = b
      BY <1>7, <2>1 DEF OnVariables
    <2>3. QED
      BY <2>2
  <1>8. CASE patch.seq > b.view[v].last /\ patch.kind = "set"
    <2> DEFINE c == ClearInputs(seen, v, DOMAIN patch.values)
               t == UpdateVariables(c.view[v], patch.values)
    <2>1. ~(patch.seq <= b.view[v].last)
      BY <1>1, <1>8
    <2>2. OnVariables(b, v) = [c EXCEPT !.view[v] = UpdateVariables(@, patch.values)]
      BY <1>8, <2>1 DEF OnVariables, seen
    <2>3. c \in Updating(live)
      BY <1>5
    <2> HIDE DEF c
    <2>4. c.view[v] \in Held /\ DOMAIN c.view = ToSet(live)
      BY <2>3, BrowserFacts DEF Updating
    <2>5. t \in Held
      BY <1>1, <2>4, UpdatedFacts DEF IsUpdated
    <2>6. OnVariables(b, v) = [c EXCEPT !.view[v] = t]
      BY <2>2, <2>4
    <2> HIDE DEF t
    <2>7. QED
      BY <1>6, <2>3, <2>5, <2>6
  <1>9. CASE patch.seq > b.view[v].last /\ patch.kind = "replace"
    <2> DEFINE c == ClearInputs(seen, v, DOMAIN b.model.variables \cup DOMAIN patch.values)
               t == ReplaceVariables(c.view[v], patch.values)
    <2>1. ~(patch.seq <= b.view[v].last)
      BY <1>1, <1>9
    <2>2. OnVariables(b, v) = [c EXCEPT !.view[v] = ReplaceVariables(@, patch.values)]
      BY <1>9, <2>1 DEF OnVariables, seen
    <2>3. c \in Updating(live)
      BY <1>5
    <2> HIDE DEF c
    <2>4. c.view[v] \in Held /\ DOMAIN c.view = ToSet(live)
      BY <2>3, BrowserFacts DEF Updating
    <2>5. t \in Held
      BY <1>1, <2>4, ReplacedFacts DEF IsReplaced
    <2>6. OnVariables(b, v) = [c EXCEPT !.view[v] = t]
      BY <2>2, <2>4
    <2> HIDE DEF t
    <2>7. QED
      BY <1>6, <2>3, <2>5, <2>6
  <1>10. QED
    BY <1>1, <1>7, <1>8, <1>9

VariablesChain(b, f) ==
  /\ f[0] = b /\ VariablesChanged(b) = f[Len(b.live)]
  /\ \A i \in 1 .. Len(b.live) : f[i] = OnVariables(f[i - 1], b.live[i])

\* The event of an update goes through the live views one by one.
LEMMA VariablesChangedUnfolds ==
  ASSUME NEW live \in Seq(Views), IsInjective(live), NEW b \in Updating(live)
  PROVE  \E f : VariablesChain(b, f)
  <1> DEFINE n == Len(live)
             V == Updating(live)
             Op == [p \in (1 .. n) \X V |-> OnVariables(p[2], live[p[1]])]
             Equation(g) == g = [T \in SUBSET (1 .. n) |-> IF T = {} THEN b
                                   ELSE LET x == Max(T)
                                        IN  OnVariables(g[T \ {x}], live[x])]
             iter == CHOOSE g : Equation(g)
  <1>1. n \in Nat /\ DOMAIN live = 1 .. n /\ b.live = live /\ \A i \in 1 .. n : live[i] \in ToSet(live)
    BY BrowserFacts DEF Updating
  <1>2. \A i \in 1 .. n, acc \in V : OnVariables(acc, live[i]) \in V
    BY <1>1, OnVariablesType
  <1>3. Op \in [(1 .. n) \X V -> V] /\ \A i \in 1 .. n, acc \in V : Op[<<i, acc>>] = OnVariables(acc, live[i])
    BY <1>2
  <1>4. VariablesChanged(b) = iter[1 .. n]
    BY <1>1 DEF VariablesChanged, FoldLeft, MapThenFoldSet
  <1> HIDE DEF Op, V
  <1>5. PICK f : LeftFolds(n, V, b, Op, f)
    BY <1>1, <1>3, LeftFoldExists DEF V
  <1>6. ASSUME NEW T \in (SUBSET (1 .. n)) \ {{}}
        PROVE  f[T] = OnVariables(f[T \ {Max(T)}], live[Max(T)])
    <2>1. Max(T) \in 1 .. n
      BY <1>1, LargestPicks
    <2>2. f[T \ {Max(T)}] \in V
      BY <1>5 DEF LeftFolds
    <2>3. QED
      BY <1>3, <1>5, <2>1, <2>2 DEF LeftFolds
  <1>7. Equation(f)
    BY <1>5, <1>6 DEF LeftFolds
  <1>8. Equation(iter)
    <2> HIDE DEF Equation
    <2>1. QED
      BY <1>7
  <1>9. iter[{}] = b /\ \A T \in (SUBSET (1 .. n)) \ {{}} : iter[T] = OnVariables(iter[T \ {Max(T)}], live[Max(T)])
    BY <1>8
  <1> HIDE DEF iter
  <1> DEFINE h == [i \in 0 .. n |-> iter[1 .. i]]
  <1>10. h[0] = b
    BY <1>1, <1>9
  <1>11. h[n] = VariablesChanged(b)
    BY <1>1, <1>4
  <1>12. ASSUME NEW i \in 1 .. n
         PROVE  h[i] = OnVariables(h[i - 1], live[i])
    <2>1. /\ 1 .. i \in (SUBSET (1 .. n)) \ {{}} /\ Max(1 .. i) = i
          /\ (1 .. i) \ {Max(1 .. i)} = 1 .. (i - 1)
      BY <1>1, LeftFoldPrefixes
    <2>2. iter[1 .. i] = OnVariables(iter[1 .. (i - 1)], live[i])
      BY <1>9, <2>1
    <2>3. QED
      BY <1>1, <2>2
  <1> HIDE DEF h
  <1>13. QED
    BY <1>1, <1>10, <1>11, <1>12 DEF VariablesChain

\* Every view has applied the update once its event is handled.
LEMMA VariablesChangedFacts ==
  ASSUME NEW live \in Seq(Views), IsInjective(live), NEW b \in Browsers(live), NEW p, Sensible(p),
         Along(b, p, 0)
  PROVE  /\ VariablesChanged(b) \in Browsers(live)
         /\ Along(VariablesChanged(b), p, Len(live))
  <1> DEFINE n == Len(live)
  <1>1. b.live = live /\ DOMAIN live = 1 .. n /\ n \in Nat
    BY BrowserFacts
  <1>2. b \in Updating(live)
    BY DEF Updating, Along, Sensible
  <1>3. PICK f : VariablesChain(b, f)
    BY <1>2, VariablesChangedUnfolds
  <1> DEFINE Good == {i \in 0 .. n : f[i] \in Browsers(live) /\ Along(f[i], p, i)}
  <1>4. 0 \in Good
    BY <1>1, <1>3 DEF VariablesChain
  <1>5. ASSUME NEW i \in 1 .. n, i - 1 \in Good
        PROVE  i \in Good
    <2>1. f[i] = OnVariables(f[i - 1], live[i])
      BY <1>1, <1>3 DEF VariablesChain
    <2>2. f[i] \in Browsers(live) /\ Along(f[i], p, i)
      BY <1>5, <2>1, AlongStep
    <2>3. QED
      BY <1>1, <2>2
  <1> HIDE DEF Good
  <1>6. n \in Good
    <2> HIDE DEF n
    <2>1. \A i \in 0 .. n : i \in Good
      BY <1>1, <1>4, <1>5, PrefixInduction
    <2>2. QED
      BY <1>1, <2>1
  <1>7. QED
    BY <1>1, <1>3, <1>6 DEF Good, VariablesChain
-----------------------------------------------------------------------------
(* An update arrives *)

NewInputs(m) == IF m.withInputs THEN m.inputs ELSE browser.model.inputs

Undone(m) == history.undone \cup Changed(browser.model.inputs, NewInputs(m))

WithUpdate(m) == [browser EXCEPT !.model.variables = m.variables, !.model.update = m.update]

WithBoth(m) == [WithUpdate(m) EXCEPT !.model.inputs = NewInputs(m)]

Plan(m, synced) ==
  [inputs |-> browser.model.inputs, before |-> browser.model.variables, after |-> m.variables,
   update |-> m.update, loose |-> Undone(m) \cup DOMAIN m.update.values,
   user |-> history.touched, synced |-> synced]

\* The message continues what the browser has.
Follows(m) == m \in Messages /\ ContinuesFrom(browser.model.variables, browser.model.update.seq, m)

\* The browser of a state that satisfies the invariant.
LEMMA BrowserState ==
  ASSUME SharedInv
  PROVE  /\ browser.live \in Seq(Views) /\ IsInjective(browser.live)
         /\ browser \in Browsers(browser.live)
         /\ \A v \in ToSet(browser.live) : browser.view[v] \in Held /\ Faithful(browser.view[v])
         /\ browser.model \in Models /\ browser.model.inputs \in Mappings(Values)
         /\ browser.model.variables \in Mappings(Values) /\ browser.model.update.seq \in Nat
  <1>1. /\ browser.live \in Seq(Views) /\ IsInjective(browser.live)
        /\ browser \in Browsers(browser.live)
    BY DEF SharedInv, SharedTypeOK
  <1>2. /\ \A v \in ToSet(browser.live) : browser.view[v] \in Held
        /\ browser.model \in Models
    BY <1>1, BrowserFacts
  <1>3. QED
    BY <1>1, <1>2 DEF SharedInv, Models

\* The session model once an update's traits are set, with and without its inputs.
LEMMA WithUpdateFacts ==
  ASSUME SharedInv, NEW m \in Messages
  PROVE  /\ WithUpdate(m) \in Browsers(browser.live) /\ WithBoth(m) \in Browsers(browser.live)
         /\ WithUpdate(m).model = [variables |-> m.variables, inputs |-> browser.model.inputs, update |-> m.update]
         /\ WithBoth(m).model = [variables |-> m.variables, inputs |-> NewInputs(m), update |-> m.update]
         /\ WithUpdate(m).live = browser.live /\ WithBoth(m).live = browser.live
         /\ WithUpdate(m).view = browser.view /\ WithBoth(m).view = browser.view
         /\ WithUpdate(m).out = browser.out /\ WithBoth(m).out = browser.out
         /\ NewInputs(m) \in Mappings(Values)
  <1>1. browser \in Browsers(browser.live) /\ browser.model.inputs \in Mappings(Values)
    BY BrowserState
  <1>2. /\ m.variables \in Mappings(Values) /\ m.update \in Patches /\ m.inputs \in Mappings(Values)
        /\ m.update \in [seq : Nat, kind : {"none", "set", "replace"}, values : Mappings(Values)]
    BY DEF Messages, Patches
  <1>3. NewInputs(m) \in Mappings(Values)
    BY <1>1, <1>2 DEF NewInputs
  <1>4. /\ WithUpdate(m) \in Browsers(browser.live)
        /\ WithUpdate(m).model = [variables |-> m.variables, inputs |-> browser.model.inputs, update |-> m.update]
        /\ WithUpdate(m).live = browser.live /\ WithUpdate(m).view = browser.view
        /\ WithUpdate(m).out = browser.out
    BY <1>1, <1>2 DEF WithUpdate, Browsers, Models
  <1>5. /\ WithBoth(m) \in Browsers(browser.live)
        /\ WithBoth(m).model = [variables |-> m.variables, inputs |-> NewInputs(m), update |-> m.update]
        /\ WithBoth(m).live = browser.live /\ WithBoth(m).view = browser.view
        /\ WithBoth(m).out = browser.out
    <2> DEFINE b == WithUpdate(m)
    <2> HIDE DEF b
    <2>1. /\ [b EXCEPT !.model.inputs = NewInputs(m)] \in Browsers(browser.live)
          /\ [b EXCEPT !.model.inputs = NewInputs(m)].model =
               [variables |-> m.variables, inputs |-> NewInputs(m), update |-> m.update]
          /\ [b EXCEPT !.model.inputs = NewInputs(m)].live = browser.live
          /\ [b EXCEPT !.model.inputs = NewInputs(m)].view = browser.view
          /\ [b EXCEPT !.model.inputs = NewInputs(m)].out = browser.out
      BY <1>2, <1>3, <1>4 DEF b, Browsers, Models
    <2>2. QED
      BY <2>1 DEF WithBoth, b
  <1>6. QED
    BY <1>3, <1>4, <1>5

\* An update that follows the model's is a sensible one, and every view awaits it.
LEMMA PlanFacts ==
  ASSUME SharedInv, NEW m, Follows(m), NEW synced
  PROVE  /\ Sensible(Plan(m, synced))
         /\ \A n \in SharedNames \ Plan(m, synced).loose : Same(n, NewInputs(m), browser.model.inputs)
         /\ \A v \in ToSet(browser.live) :
              Telling(browser.view[v], Plan(m, synced)) /\ Awaits(browser.view[v], Plan(m, synced))
  <1> DEFINE p == Plan(m, synced)
  <1>1. /\ p.inputs = browser.model.inputs /\ p.before = browser.model.variables
        /\ p.after = m.variables /\ p.update = m.update /\ p.user = history.touched
        /\ p.loose = Undone(m) \cup DOMAIN m.update.values
    BY DEF Plan
  <1> HIDE DEF p
  <1>2. m \in Messages /\ m.update \in Patches /\ m.variables = After(browser.model.variables, m.update)
        /\ m.update.seq = browser.model.update.seq + 1
    BY DEF Follows, ContinuesFrom, Messages
  <1>3. Sensible(p)
    <2>1. DOMAIN browser.model.inputs \subseteq history.touched \cup history.undone
      BY DEF SharedInv, Untouched
    <2>2. QED
      BY <1>1, <1>2, <2>1, BrowserState DEF Sensible, Undone
  <1>4. ASSUME NEW n \in SharedNames \ p.loose
        PROVE  Same(n, NewInputs(m), browser.model.inputs)
    BY <1>1 DEF Undone, Changed, Same
  <1>5. ASSUME NEW v \in ToSet(browser.live)
        PROVE  Telling(browser.view[v], p) /\ Awaits(browser.view[v], p)
    <2>1. Faithful(browser.view[v]) /\ browser.model.update.seq \in Nat
      BY BrowserState
    <2>2. history.undone \subseteq p.loose
      BY <1>1 DEF Undone
    <2>3. Tells(browser.view[v], browser.model.inputs, p.loose, history.touched)
      BY <2>1, <2>2, TellsWider DEF Faithful
    <2>4. QED
      BY <1>1, <1>2, <2>1, <2>3 DEF Faithful, Telling, Awaits
  <1>6. QED
    BY <1>1, <1>3, <1>4, <1>5 DEF p

\* What the browser is once it has handled both events.
IsReceived(c, m) ==
  LET p == Plan(m, TRUE)
  IN /\ c \in Browsers(browser.live) /\ c.model.update = m.update /\ c.model.variables = m.variables
     /\ \A n \in SharedNames \ p.loose : Same(n, c.model.inputs, browser.model.inputs)
     /\ \A v \in ToSet(browser.live) :
          /\ Telling(c.view[v], p) /\ Finished(c.view[v], p) /\ InSync(c.view[v], c.model.inputs)
          /\ Cleaned(c, p)
     /\ browser.live = <<>> => c.model.inputs = NewInputs(m)

\* Without views an update raises no event that matters.
LEMMA NoViews ==
  ASSUME NEW live \in Seq(Views), IsInjective(live), NEW b \in Updating(live), live = <<>>
  PROVE  VariablesChanged(b) = b
  <1>1. PICK f : VariablesChain(b, f)
    BY VariablesChangedUnfolds
  <1>2. b.live = live
    BY BrowserFacts DEF Updating
  <1>3. QED
    BY <1>1, <1>2 DEF VariablesChain

\* A message whose inputs raise their event first leaves the views faithful.
LEMMA ReceivedInputsFirst ==
  ASSUME SharedInv, NEW m, Follows(m)
  PROVE  IsReceived(VariablesChanged(Applied(WithUpdate(m), m)), m)
  <1> DEFINE live == browser.live
             set == WithUpdate(m)
             b == Applied(set, m)
             p == Plan(m, TRUE)
             c == VariablesChanged(b)
             n == Len(live)
  <1>1. m \in Messages /\ live \in Seq(Views) /\ IsInjective(live) /\ n \in Nat /\ DOMAIN live = 1 .. n
    BY BrowserState DEF Follows
  <1>2. /\ set \in Browsers(live) /\ set.live = live /\ set.view = browser.view
        /\ set.model = [variables |-> m.variables, inputs |-> browser.model.inputs, update |-> m.update]
        /\ NewInputs(m) \in Mappings(Values)
    BY <1>1, WithUpdateFacts
  <1>3. /\ Sensible(p) /\ p.update = m.update /\ p.after = m.variables /\ p.inputs = browser.model.inputs
        /\ p.loose = Plan(m, TRUE).loose /\ p.user = history.touched /\ p.synced
        /\ \A k \in SharedNames \ p.loose : Same(k, NewInputs(m), browser.model.inputs)
        /\ \A v \in ToSet(live) : Telling(browser.view[v], p) /\ Awaits(browser.view[v], p)
    BY PlanFacts DEF Plan
  <1> HIDE DEF set
  <1>4. b = SetShared(set, NewInputs(m), {})
    BY <1>2 DEF Applied, NewInputs
  <1> HIDE DEF b
  <1>5. b \in Browsers(live) /\ IsShared(b, set, NewInputs(m), {})
    BY <1>1, <1>2, <1>4, SetSharedFacts
  <1>6. /\ b.live = live
        /\ b.model = [variables |-> m.variables, inputs |-> NewInputs(m), update |-> m.update]
    BY <1>2, <1>5 DEF IsShared
  <1>7. ASSUME NEW v \in ToSet(live)
        PROVE  Telling(b.view[v], p) /\ Awaits(b.view[v], p) /\ InSync(b.view[v], NewInputs(m))
    <2>1. browser.view[v] \in Held /\ Faithful(browser.view[v])
      BY BrowserState
    <2>2. CASE browser.model.inputs = NewInputs(m)
      <3>1. b.view[v] = browser.view[v]
        BY <1>2, <1>5, <2>2 DEF IsShared
      <3> HIDE DEF p
      <3>2. QED
        BY <1>3, <2>1, <2>2, <3>1 DEF Faithful
    <2>3. CASE browser.model.inputs # NewInputs(m)
      <3>1. b.view[v] = Told(browser.view[v], NewInputs(m))
        BY <1>2, <1>5, <2>3 DEF IsShared
      <3>2. IsTold(b.view[v], browser.view[v], NewInputs(m))
        BY <1>2, <2>1, <3>1, ToldFacts
      <3>3. /\ Tells(browser.view[v], p.inputs, p.loose, p.user) /\ p.inputs \in Mappings(Values)
            /\ DOMAIN p.inputs \subseteq p.loose \cup p.user
            /\ \A k \in SharedNames \ p.loose : Same(k, NewInputs(m), p.inputs)
        BY <1>3 DEF Telling, Sensible
      <3> HIDE DEF p
      <3>4. Tells(b.view[v], p.inputs, p.loose, p.user) /\ InSync(b.view[v], NewInputs(m))
        BY <1>2, <2>1, <3>2, <3>3, TellsTold
      <3>5. Awaits(b.view[v], p)
        BY <1>3, <3>2 DEF IsTold, Awaits
      <3>6. QED
        BY <3>4, <3>5 DEF Telling
    <2>4. QED
      BY <2>2, <2>3
  <1> HIDE DEF p
  <1>8. Along(b, p, 0)
    <2>1. Steady(b, p)
      <3>1. b.model.inputs = NewInputs(m) /\ b.live = live
        BY <1>6
      <3>2. QED
        BY <1>3, <1>7, <3>1 DEF Steady
    <2>2. \A k \in 1 .. n : ~(k <= 0) /\ live[k] \in ToSet(live)
      BY <1>1 DEF ToSet
    <2>3. QED
      BY <1>3, <1>6, <1>7, <2>1, <2>2 DEF Along
  <1>9. c \in Browsers(live) /\ Along(c, p, n)
    BY <1>1, <1>3, <1>5, <1>8, VariablesChangedFacts
  <1>10. live = <<>> => c = b
    <2>1. b \in Updating(live)
      BY <1>3, <1>5, <1>8 DEF Updating, Along, Sensible
    <2>2. QED
      BY <1>1, <2>1, NoViews
  <1> HIDE DEF c
  <1>11. c.live = live
    BY <1>1, <1>9, BrowserFacts
  <1>12. ASSUME NEW v \in ToSet(live)
         PROVE  /\ Telling(c.view[v], p) /\ Finished(c.view[v], p) /\ InSync(c.view[v], c.model.inputs)
                /\ Cleaned(c, p)
    <2>1. PICK k \in 1 .. n : live[k] = v
      BY <1>1 DEF ToSet
    <2>2. n > 0 /\ k <= n
      BY <1>1, <2>1
    <2>3. QED
      BY <1>3, <1>9, <1>11, <2>1, <2>2 DEF Along, Steady
  <1>13. live = <<>> => c.model.inputs = NewInputs(m)
    BY <1>6, <1>10
  <1>14. \A k \in SharedNames \ p.loose : Same(k, c.model.inputs, browser.model.inputs)
    BY <1>3, <1>9 DEF Along, Steady
  <1>15. c.model.update = m.update /\ c.model.variables = m.variables
    BY <1>3, <1>9 DEF Along
  <1>16. QED
    BY <1>9, <1>12, <1>13, <1>14, <1>15 DEF IsReceived, p, c, b, set

\* So does one whose update raises its event first, with the inputs set already.
LEMMA ReceivedUpdateFirst ==
  ASSUME SharedInv, NEW m, Follows(m), WithBoth(m).model.inputs # browser.model.inputs
  PROVE  IsReceived(InputsChanged(VariablesChanged(WithBoth(m)), {}), m)
  <1> DEFINE live == browser.live
             b == WithBoth(m)
             p == Plan(m, FALSE)
             d == VariablesChanged(b)
             c == InputsChanged(d, {})
             n == Len(live)
  <1>1. m \in Messages /\ live \in Seq(Views) /\ IsInjective(live) /\ n \in Nat /\ DOMAIN live = 1 .. n
    BY BrowserState DEF Follows
  <1>2. /\ b \in Browsers(live) /\ b.live = live /\ b.view = browser.view
        /\ b.model = [variables |-> m.variables, inputs |-> NewInputs(m), update |-> m.update]
        /\ NewInputs(m) \in Mappings(Values)
    BY <1>1, WithUpdateFacts
  <1>3. /\ Sensible(p) /\ p.update = m.update /\ p.after = m.variables /\ p.inputs = browser.model.inputs
        /\ p.loose = Plan(m, TRUE).loose /\ p.user = history.touched /\ ~p.synced
        /\ \A k \in SharedNames \ p.loose : Same(k, NewInputs(m), browser.model.inputs)
        /\ \A v \in ToSet(live) : Telling(browser.view[v], p) /\ Awaits(browser.view[v], p)
    BY PlanFacts DEF Plan
  <1>4. \A w : Telling(w, Plan(m, TRUE)) <=> Telling(w, p)
    BY DEF Telling, Plan
  <1>5. \A w : Finished(w, Plan(m, TRUE)) <=> Finished(w, p)
    BY DEF Finished, Plan
  <1> HIDE DEF p
  <1>6. Cleaned(b, p)
    <2>1. NewInputs(m) # browser.model.inputs
      BY <1>2
    <2>2. m.withInputs /\ NewInputs(m) = m.inputs
      BY <2>1 DEF NewInputs
    <2>3. QED
      BY <1>2, <1>3, <2>2 DEF Follows, ContinuesFrom, Cleaned
  <1> HIDE DEF b
  <1>7. Along(b, p, 0)
    <2>1. Steady(b, p)
      <3>1. b.model.inputs = NewInputs(m) /\ b.live = live /\ b.view = browser.view
        BY <1>2
      <3>2. QED
        BY <1>3, <3>1 DEF Steady
    <2>2. \A k \in 1 .. n : ~(k <= 0) /\ live[k] \in ToSet(live)
      BY <1>1 DEF ToSet
    <2>3. QED
      BY <1>2, <1>3, <1>6, <2>1, <2>2 DEF Along
  <1>8. d \in Browsers(live) /\ Along(d, p, n)
    BY <1>1, <1>2, <1>3, <1>7, VariablesChangedFacts
  <1>9. live = <<>> => d = b
    <2>1. b \in Updating(live)
      BY <1>2, <1>3, <1>7 DEF Updating, Along, Sensible
    <2>2. QED
      BY <1>1, <2>1, NoViews
  <1> HIDE DEF d
  <1>10. c \in Browsers(live) /\ Informed(c, d, {})
    BY <1>1, <1>8, InputsChangedFacts
  <1> HIDE DEF c
  <1>11. c.model = d.model /\ d.live = live /\ d.model.inputs \in Mappings(Values)
    BY <1>1, <1>8, <1>10, BrowserFacts DEF Informed
  <1>12. Cleaned(d, p) /\ \A k \in SharedNames \ p.loose : Same(k, d.model.inputs, p.inputs)
    BY <1>3, <1>8 DEF Along, Steady
  <1>13. ASSUME NEW v \in ToSet(live)
         PROVE  /\ Telling(c.view[v], p) /\ Finished(c.view[v], p) /\ InSync(c.view[v], c.model.inputs)
                /\ Cleaned(c, p)
    <2>1. PICK k \in 1 .. n : live[k] = v
      BY <1>1 DEF ToSet
    <2>2. n > 0 /\ k <= n
      BY <1>1, <2>1
    <2>3. d.view[v] \in Held /\ Telling(d.view[v], p) /\ Finished(d.view[v], p)
      BY <1>1, <1>8, <1>11, <2>1, <2>2, BrowserFacts DEF Along, Steady
    <2>4. c.view[v] = Told(d.view[v], d.model.inputs)
      BY <1>10, <1>11 DEF Informed
    <2>5. KeepsTelling(c.view[v], d.view[v], p) /\ InSync(c.view[v], d.model.inputs)
      BY <1>3, <1>11, <1>12, <2>3, <2>4, KeepsTold DEF Cleaned
    <2>6. QED
      BY <1>11, <1>12, <2>3, <2>5 DEF KeepsTelling, Finished, Cleaned
  <1>14. live = <<>> => c.model.inputs = NewInputs(m)
    BY <1>2, <1>9, <1>11
  <1>15. \A k \in SharedNames \ p.loose : Same(k, c.model.inputs, browser.model.inputs)
    BY <1>3, <1>11, <1>12
  <1>16. c.model.update = m.update /\ c.model.variables = m.variables
    BY <1>3, <1>8, <1>11 DEF Along
  <1>17. Cleaned(c, p) <=> Cleaned(c, Plan(m, TRUE))
    BY DEF Cleaned, p, Plan
  <1>18. IsReceived(c, m)
    BY <1>3, <1>4, <1>5, <1>10, <1>13, <1>14, <1>15, <1>16, <1>17 DEF IsReceived
  <1>19. QED
    BY <1>18 DEF c, d, b

\* A turn of the browser.
LEMMA TurnFacts ==
  ASSUME NEW live \in Seq(Views), NEW c \in Browsers(live), Turn(c), toPython \in Seq(Mappings(Values))
  PROVE  /\ browser' \in Browsers(live) /\ browser'.live = live /\ browser'.model = c.model
         /\ browser'.view = c.view /\ browser'.out = <<>> /\ toPython' \in Seq(Mappings(Values))
  <1>1. c.out \in Seq(Mappings(Values)) /\ c.live = live
    BY BrowserFacts
  <1>2. toPython' \in Seq(Mappings(Values))
    BY <1>1, ConcatProperties DEF Turn
  <1>3. QED
    BY <1>1, <1>2, EmptySeq DEF Turn, Browsers

\* Updates that lead from one end to the other still do without the first, from it.
LEMMA EndsTail ==
  ASSUME NEW ms \in Seq(Messages), ms # <<>>, NEW V0, NEW s0, NEW V1, NEW s1,
         Ends(V0, s0, ms, V1, s1)
  PROVE  /\ ContinuesFrom(V0, s0, Head(ms))
         /\ Ends(Head(ms).variables, Head(ms).update.seq, Tail(ms), V1, s1)
  <1> DEFINE t == Tail(ms)
             n == Len(ms)
  <1>1. /\ n \in Nat \ {0} /\ Head(ms) = ms[1] /\ Len(t) = n - 1
        /\ \A i \in 1 .. (n - 1) : t[i] = ms[i + 1]
    BY HeadTailProperties, EmptySeq
  <1> HIDE DEF t, n
  <1>2. \A i \in 1 .. n :
          ContinuesFrom(IF i = 1 THEN V0 ELSE ms[i - 1].variables, IF i = 1 THEN s0 ELSE ms[i - 1].update.seq, ms[i])
    BY DEF Ends, n
  <1>3. ContinuesFrom(V0, s0, Head(ms))
    BY <1>1, <1>2
  <1>4. ASSUME NEW i \in 1 .. (n - 1)
        PROVE  ContinuesFrom(IF i = 1 THEN ms[1].variables ELSE t[i - 1].variables,
                         IF i = 1 THEN ms[1].update.seq ELSE t[i - 1].update.seq, t[i])
    <2>1. ContinuesFrom(ms[i].variables, ms[i].update.seq, ms[i + 1])
      <3>1. i + 1 \in 1 .. n /\ i + 1 # 1 /\ (i + 1) - 1 = i
        BY <1>1
      <3>2. QED
        BY <1>2, <3>1
    <2>2. CASE i = 1
      BY <1>1, <2>1, <2>2
    <2>3. CASE i # 1
      <3>1. i - 1 \in 1 .. (n - 1) /\ t[i - 1] = ms[i] /\ t[i] = ms[i + 1]
        BY <1>1, <2>3
      <3>2. QED
        BY <2>1, <2>3, <3>1
    <2>4. QED
      BY <2>2, <2>3
  <1>5. /\ V1 = IF Len(t) = 0 THEN ms[1].variables ELSE t[Len(t)].variables
        /\ s1 = IF Len(t) = 0 THEN ms[1].update.seq ELSE t[Len(t)].update.seq
    <2>1. V1 = ms[n].variables /\ s1 = ms[n].update.seq
      BY <1>1 DEF Ends, n
    <2>2. QED
      BY <1>1, <2>1
  <1>6. QED
    BY <1>1, <1>3, <1>4, <1>5 DEF Ends, t

\* And with another one at the end, to it.
LEMMA EndsAppend ==
  ASSUME NEW ms \in Seq(Messages), NEW V0, NEW s0, NEW V1, NEW s1, Ends(V0, s0, ms, V1, s1),
         NEW m \in Messages, ContinuesFrom(V1, s1, m)
  PROVE  Ends(V0, s0, Append(ms, m), m.variables, m.update.seq)
  <1> DEFINE t == Append(ms, m)
             n == Len(ms)
  <1>1. n \in Nat /\ Len(t) = n + 1 /\ t[n + 1] = m /\ \A i \in 1 .. n : t[i] = ms[i]
    BY AppendProperties, LenProperties
  <1> HIDE DEF t, n
  <1>2. \A i \in 1 .. n :
          ContinuesFrom(IF i = 1 THEN V0 ELSE ms[i - 1].variables, IF i = 1 THEN s0 ELSE ms[i - 1].update.seq, ms[i])
    BY DEF Ends, n
  <1>3. ASSUME NEW i \in 1 .. (n + 1)
        PROVE  ContinuesFrom(IF i = 1 THEN V0 ELSE t[i - 1].variables, IF i = 1 THEN s0 ELSE t[i - 1].update.seq, t[i])
    <2>1. CASE i \in 1 .. n
      <3>1. t[i] = ms[i] /\ (i # 1 => t[i - 1] = ms[i - 1])
        BY <1>1, <2>1
      <3>2. QED
        BY <1>2, <2>1, <3>1
    <2>2. CASE i = n + 1
      <3>1. CASE n = 0
        BY <1>1, <2>2, <3>1 DEF Ends, n
      <3>2. CASE n # 0
        <4>1. i # 1 /\ t[i - 1] = ms[n]
          BY <1>1, <2>2, <3>2
        <4>2. V1 = ms[n].variables /\ s1 = ms[n].update.seq
          BY <3>2 DEF Ends, n
        <4>3. QED
          BY <1>1, <2>2, <4>1, <4>2
      <3>3. QED
        BY <3>1, <3>2
    <2>3. QED
      BY <1>1, <2>1, <2>2
  <1>4. QED
    BY <1>1, <1>3 DEF Ends, t

\* Applying a message keeps the invariant.
LEMMA ReceiveUpdateHolds ==
  ASSUME SharedInv, ReceiveUpdate
  PROVE  SharedInv'
  <1> DEFINE m == Head(toBrowser)
             live == browser.live
             applied == IF live = <<>> THEN {} ELSE DOMAIN m.update.values
             p == Plan(m, TRUE)
  <1>1. toBrowser \in Seq(Messages) /\ toBrowser # <<>> /\ m \in Messages /\ Tail(toBrowser) \in Seq(Messages)
    BY HeadTailProperties DEF SharedInv, SharedTypeOK, ReceiveUpdate
  <1>2. /\ Follows(m)
        /\ Ends(m.variables, m.update.seq, Tail(toBrowser), python.variables, python.seq)
    BY <1>1, EndsTail DEF SharedInv, OneHistory, Follows
  <1>3. /\ live \in Seq(Views) /\ IsInjective(live) /\ browser.model.inputs \in Mappings(Values)
        /\ toPython \in Seq(Mappings(Values))
        /\ history.touched \in SUBSET SharedNames /\ history.undone \in SUBSET SharedNames
    BY BrowserState DEF SharedInv, SharedTypeOK
  <1>4. /\ WithBoth(m).model.inputs = NewInputs(m) /\ NewInputs(m) \in Mappings(Values)
        /\ WithUpdate(m).model.inputs = browser.model.inputs /\ WithUpdate(m) \in Browsers(live)
    <2> HIDE DEF m
    <2>1. /\ WithBoth(m).model = [variables |-> m.variables, inputs |-> NewInputs(m), update |-> m.update]
          /\ WithUpdate(m).model = [variables |-> m.variables, inputs |-> browser.model.inputs, update |-> m.update]
          /\ NewInputs(m) \in Mappings(Values) /\ WithUpdate(m) \in Browsers(live)
      BY <1>1, WithUpdateFacts
    <2>2. QED
      BY <2>1
  <1>5. WithBoth(m) = [WithUpdate(m) EXCEPT !.model.inputs = IF m.withInputs THEN m.inputs ELSE @]
    BY <1>4 DEF WithBoth, NewInputs, Browsers, Models
  <1>6. PICK c : IsReceived(c, m) /\ Turn(c)
    <2>1. \/ Turn(VariablesChanged(Applied(WithUpdate(m), m)))
          \/ /\ WithBoth(m).model.inputs # browser.model.inputs
             /\ Turn(InputsChanged(VariablesChanged(WithBoth(m)), {}))
      BY <1>5 DEF ReceiveUpdate, WithUpdate
    <2>2. QED
      BY <1>2, <2>1, ReceivedInputsFirst, ReceivedUpdateFirst
  <1>7. /\ history' = [touched |-> history.touched \ applied, undone |-> Undone(m) \ applied]
        /\ toBrowser' = Tail(toBrowser) /\ python' = python /\ count' = count
    BY <1>4, <1>5 DEF ReceiveUpdate, WithUpdate, Undone
  <1>8. /\ p.update = m.update /\ p.after = m.variables /\ p.inputs = browser.model.inputs
        /\ p.loose = Undone(m) \cup DOMAIN m.update.values /\ p.user = history.touched
    BY DEF Plan
  <1> HIDE DEF p, m
  <1>9. /\ c \in Browsers(live) /\ c.model.update = m.update /\ c.model.variables = m.variables
        /\ \A n \in SharedNames \ p.loose : Same(n, c.model.inputs, browser.model.inputs)
        /\ \A v \in ToSet(live) :
             /\ Telling(c.view[v], p) /\ Finished(c.view[v], p) /\ InSync(c.view[v], c.model.inputs)
             /\ Cleaned(c, p)
        /\ live = <<>> => c.model.inputs = NewInputs(m)
    BY <1>6 DEF IsReceived, p
  <1>10. c.model.inputs \in Mappings(Values) /\ DOMAIN c.model.inputs \subseteq SharedNames
         /\ \A v \in ToSet(live) : c.view[v] \in Held
    BY <1>3, <1>9, BrowserFacts, MappingFacts
  <1>11. /\ browser' \in Browsers(live) /\ browser'.live = live /\ browser'.model = c.model
         /\ browser'.view = c.view /\ browser'.out = <<>> /\ toPython' \in Seq(Mappings(Values))
    BY <1>3, <1>6, <1>9, TurnFacts
  <1>12. Undone(m) \subseteq SharedNames
    BY <1>3, <1>4, MappingFacts DEF Undone, Changed
  <1>13. SharedTypeOK'
    <2>1. history' \in [touched : SUBSET SharedNames, undone : SUBSET SharedNames]
      BY <1>3, <1>7, <1>12
    <2>2. QED
      BY <1>1, <1>3, <1>7, <1>11, <2>1 DEF SharedInv, SharedTypeOK
  <1>14. OneHistory'
    BY <1>2, <1>7, <1>9, <1>11 DEF OneHistory
  <1>15. live # <<>> => \E v \in ToSet(live) : TRUE
    <2>1. live # <<>> => 1 \in DOMAIN live
      BY <1>3, EmptySeq, LenProperties
    <2>2. QED
      BY <2>1 DEF ToSet
  <1>16. Untouched'
    <2>1. ASSUME NEW n \in DOMAIN c.model.inputs
          PROVE  n \in history'.touched \cup history'.undone
      <3>1. n \notin applied
        BY <1>8, <1>9, <1>15 DEF Cleaned
      <3>2. CASE n \in Undone(m)
        BY <1>7, <3>1, <3>2
      <3>3. CASE n \notin Undone(m) /\ n \in DOMAIN browser.model.inputs
        BY <1>7, <3>1, <3>3 DEF SharedInv, Untouched, Undone
      <3>4. CASE n \notin Undone(m) /\ n \notin DOMAIN browser.model.inputs
        <4>1. n \notin DOMAIN NewInputs(m)
          BY <3>4 DEF Undone, Changed
        <4>2. live # <<>>
          BY <1>9, <4>1
        <4>3. n \in SharedNames \ p.loose
          BY <1>8, <1>10, <3>1, <3>4, <4>2
        <4>4. QED
          BY <1>9, <3>4, <4>3 DEF Same
      <3>5. QED
        BY <3>2, <3>3, <3>4
    <2>2. QED
      BY <1>11, <2>1 DEF Untouched
  <1>17. ASSUME NEW v \in ToSet(live)
         PROVE  Faithful(browser.view[v])'
    <2>1. /\ c.view[v] \in Held /\ InSync(c.view[v], c.model.inputs)
          /\ Tells(c.view[v], browser.model.inputs, p.loose, history.touched)
          /\ Applies(c.view[v], m.update.values)
          /\ c.view[v].variables = m.variables /\ c.view[v].last = m.update.seq
          /\ DOMAIN c.model.inputs \cap DOMAIN m.update.values = {}
      BY <1>8, <1>9, <1>10 DEF Telling, Finished, Cleaned
    <2>2. applied = DOMAIN m.update.values
      <3>1. live # <<>>
        BY EmptySeq DEF ToSet
      <3>2. QED
        BY <3>1
    <2>3. p.loose \subseteq history'.undone \cup DOMAIN m.update.values
      BY <1>7, <1>8, <2>2
    <2>4. history.touched \ DOMAIN m.update.values \subseteq history'.touched
      BY <1>7, <2>2
    <2>5. m.update.values \in Mappings(Values)
      BY <1>1 DEF m, Messages, Patches
    <2>6. Tells(c.view[v], c.model.inputs, history'.undone, history'.touched)
      BY <1>9, <1>10, <2>1, <2>3, <2>4, <2>5, TellsSettled
    <2>7. QED
      BY <1>9, <1>11, <2>1, <2>6 DEF Faithful
  <1>18. QED
    BY <1>11, <1>13, <1>14, <1>16, <1>17 DEF SharedInv
-----------------------------------------------------------------------------
(* The other steps *)

\* The invariant holds at first.
LEMMA SharedInitHolds == SharedInit => SharedInv
  <1> SUFFICES ASSUME SharedInit
               PROVE  SharedInv
    OBVIOUS
  <1>1. Empty \in Mappings(Values) /\ DOMAIN Empty = {} /\ \A S : Empty \in [{} -> S]
    <2>1. DOMAIN Empty = {}
      BY DEF Empty, Restrict
    <2>2. Empty = [n \in {} |-> Empty[n]]
      BY DEF Empty, Restrict
    <2>3. QED
      BY <2>1, <2>2, MappingIntro
  <1> HIDE DEF Empty
  <1>2. ToSet(<<>>) = {} /\ <<>> \in Seq(Views) /\ <<>> \in Seq(Messages) /\ <<>> \in Seq(Mappings(Values))
        /\ IsInjective(<<>>) /\ Len(<<>>) = 0
    BY EmptySeq DEF ToSet, IsInjective
  <1>3. SharedTypeOK
    BY <1>1, <1>2 DEF SharedInit, SharedTypeOK, Browsers, Models
  <1>4. OneHistory
    BY <1>2 DEF SharedInit, OneHistory, Ends
  <1>5. QED
    BY <1>1, <1>2, <1>3, <1>4 DEF SharedInit, SharedInv, Untouched

\* An update keeps the invariant, whatever it clears.
LEMMA PublishesHolds ==
  ASSUME SharedInv, NEW kind \in {"set", "replace"}, NEW values \in Mappings(Values),
         NEW variables \in Mappings(Values), NEW names, DOMAIN values \subseteq names,
         variables = IF kind = "set" THEN Over(values, python.variables) ELSE values,
         Publishes(kind, values, variables, names)
  PROVE  SharedInv'
  <1> DEFINE cleared == names \cap DOMAIN python.inputs
             update == [seq |-> python.seq + 1, kind |-> kind, values |-> values]
             inputs == Without(python.inputs, cleared)
             m == [variables |-> variables, update |-> update, withInputs |-> cleared # {}, inputs |-> inputs]
  <1>1. /\ python \in [variables : Mappings(Values), inputs : Mappings(Values), seq : Nat]
        /\ toBrowser \in Seq(Messages)
    BY DEF SharedInv, SharedTypeOK
  <1>2. inputs \in Mappings(Values) /\ IsPart(inputs, python.inputs, DOMAIN python.inputs \ cleared)
    BY <1>1, WithoutFacts
  <1>3. /\ python' = [variables |-> variables, inputs |-> inputs, seq |-> python.seq + 1]
        /\ toBrowser' = Append(toBrowser, m) /\ UNCHANGED <<browser, toPython, count, history>>
    BY DEF Publishes
  <1> HIDE DEF inputs
  <1>4. m \in Messages
    BY <1>1, <1>2 DEF Messages, Patches
  <1>5. ContinuesFrom(python.variables, python.seq, m)
    <2>1. DOMAIN inputs \cap DOMAIN values = {}
      BY <1>2 DEF IsPart
    <2>2. QED
      BY <2>1 DEF ContinuesFrom, After
  <1>6. Append(toBrowser, m) \in Seq(Messages)
    BY <1>1, <1>4, AppendProperties
  <1>7. OneHistory'
    <2>1. Ends(browser.model.variables, browser.model.update.seq, Append(toBrowser, m), variables, python.seq + 1)
      <3> HIDE DEF m
      <3>1. Ends(browser.model.variables, browser.model.update.seq, Append(toBrowser, m), m.variables, m.update.seq)
        BY <1>1, <1>4, <1>5, EndsAppend DEF SharedInv, OneHistory
      <3>2. QED
        BY <3>1 DEF m
    <2>2. QED
      BY <1>3, <2>1 DEF OneHistory
  <1>8. SharedTypeOK'
    <2>1. python' \in [variables : Mappings(Values), inputs : Mappings(Values), seq : Nat]
      BY <1>1, <1>2, <1>3
    <2>2. QED
      BY <1>3, <1>6, <2>1 DEF SharedInv, SharedTypeOK
  <1>9. Untouched' /\ \A v \in ToSet(browser'.live) : Faithful(browser.view[v])'
    BY <1>3 DEF SharedInv, Untouched, Faithful
  <1>10. QED
    BY <1>3, <1>7, <1>8, <1>9 DEF SharedInv

\* So Python's updates, replacements and resets keep it.
LEMMA PatchHolds ==
  ASSUME SharedInv, NEW values \in Mappings(Values), PatchVariables(values)
  PROVE  SharedInv'
  <1> DEFINE changed == {n \in DOMAIN values : n \in DOMAIN python.inputs \/ Differs(values, n)}
             part == Restrict(values, changed)
  <1>1. python.variables \in Mappings(Values) /\ changed \in SUBSET DOMAIN values
    BY DEF SharedInv, SharedTypeOK
  <1>2. part \in Mappings(Values) /\ DOMAIN part \subseteq DOMAIN values
    BY <1>1, RestrictFacts DEF IsPart
  <1>3. Publishes("set", part, Over(part, python.variables), DOMAIN values)
    BY DEF PatchVariables
  <1> HIDE DEF part
  <1>4. Over(part, python.variables) \in Mappings(Values)
    BY <1>1, <1>2, OverFacts
  <1>5. QED
    BY <1>2, <1>3, <1>4, PublishesHolds

\* The same of a replacement.
LEMMA ReplacementHolds ==
  ASSUME SharedInv, NEW values \in Mappings(Values), Replacement(values)
  PROVE  SharedInv'
  <1>1. Publishes("replace", values, values, DOMAIN python.variables \cup DOMAIN values)
    BY DEF Replacement
  <1>2. QED
    BY <1>1, PublishesHolds

\* The same of a reset.
LEMMA ResetHolds ==
  ASSUME SharedInv, NEW names \in SUBSET SharedNames, ResetVariables(names)
  PROVE  SharedInv'
  <1>1. python.variables \in Mappings(Values)
    BY DEF SharedInv, SharedTypeOK
  <1>2. Without(python.variables, names) \in Mappings(Values)
    BY <1>1, WithoutFacts
  <1>3. QED
    BY <1>2, ReplacementHolds DEF ResetVariables

\* Inputs that reach Python keep the invariant.
LEMMA ReceiveInputsHolds ==
  ASSUME SharedInv, ReceiveInputs
  PROVE  SharedInv'
  <1>1. /\ python \in [variables : Mappings(Values), inputs : Mappings(Values), seq : Nat]
        /\ Head(toPython) \in Mappings(Values) /\ Tail(toPython) \in Seq(Mappings(Values))
    BY HeadTailProperties DEF SharedInv, SharedTypeOK, ReceiveInputs
  <1>2. /\ python' = [python EXCEPT !.inputs = Head(toPython)] /\ toPython' = Tail(toPython)
        /\ UNCHANGED <<browser, toBrowser, count, history>>
    BY DEF ReceiveInputs
  <1>3. /\ python' \in [variables : Mappings(Values), inputs : Mappings(Values), seq : Nat]
        /\ python'.variables = python.variables /\ python'.seq = python.seq
    BY <1>1, <1>2
  <1>4. SharedTypeOK' /\ OneHistory' /\ Untouched'
    BY <1>1, <1>2, <1>3 DEF SharedInv, SharedTypeOK, OneHistory, Untouched
  <1>5. \A v \in ToSet(browser'.live) : Faithful(browser.view[v])'
    BY <1>2 DEF SharedInv, Faithful
  <1>6. QED
    BY <1>2, <1>4, <1>5 DEF SharedInv

\* Views that come and go.
\* The live views with another one.
LEMMA AppendView ==
  ASSUME NEW live \in Seq(Views), IsInjective(live), NEW v \in Views \ ToSet(live)
  PROVE  /\ Append(live, v) \in Seq(Views) /\ IsInjective(Append(live, v))
         /\ ToSet(Append(live, v)) = ToSet(live) \cup {v}
  <1> DEFINE s == Append(live, v)
             n == Len(live)
  <1>1. /\ n \in Nat /\ DOMAIN live = 1 .. n /\ s \in Seq(Views) /\ Len(s) = n + 1
        /\ \A i \in 1 .. n : s[i] = live[i]
        /\ s[n + 1] = v
    BY AppendProperties, LenProperties
  <1> HIDE DEF s, n
  <1>2. DOMAIN s = 1 .. (n + 1)
    BY <1>1, LenProperties
  <1>3. \A i \in 1 .. n : live[i] # v
    BY <1>1 DEF ToSet
  <1>4. IsInjective(s)
    <2>1. ASSUME NEW i \in 1 .. (n + 1), NEW j \in 1 .. (n + 1), s[i] = s[j]
          PROVE  i = j
      <3>1. CASE i \in 1 .. n /\ j \in 1 .. n
        BY <1>1, <2>1, <3>1 DEF IsInjective
      <3>2. CASE i = n + 1 \/ j = n + 1
        BY <1>1, <1>3, <2>1, <3>2
      <3>3. QED
        BY <1>1, <3>1, <3>2
    <2>2. QED
      BY <1>2, <2>1 DEF IsInjective
  <1>5. ToSet(s) = ToSet(live) \cup {v}
    <2>1. ASSUME NEW x \in ToSet(s)
          PROVE  x \in ToSet(live) \cup {v}
      <3>1. PICK i \in 1 .. (n + 1) : s[i] = x
        BY <1>2 DEF ToSet
      <3>2. i \in 1 .. n \/ i = n + 1
        BY <1>1
      <3>3. QED
        BY <1>1, <3>1, <3>2 DEF ToSet
    <2>2. ASSUME NEW x \in ToSet(live)
          PROVE  x \in ToSet(s)
      <3>1. PICK i \in 1 .. n : live[i] = x
        BY <1>1 DEF ToSet
      <3>2. i \in 1 .. (n + 1) /\ s[i] = x
        BY <1>1, <3>1
      <3>3. QED
        BY <1>2, <3>2 DEF ToSet
    <2>3. v \in ToSet(s)
      <3>1. n + 1 \in 1 .. (n + 1)
        BY <1>1
      <3>2. QED
        BY <1>1, <1>2, <3>1 DEF ToSet
    <2>4. QED
      BY <2>1, <2>2, <2>3
  <1>6. QED
    BY <1>1, <1>4, <1>5 DEF s

\* The live views without one.
LEMMA RemoveView ==
  ASSUME NEW live \in Seq(Views), IsInjective(live), NEW i \in DOMAIN live
  PROVE  /\ RemoveAt(live, i) \in Seq(Views) /\ IsInjective(RemoveAt(live, i))
         /\ ToSet(RemoveAt(live, i)) = ToSet(live) \ {live[i]}
  <1> DEFINE n == Len(live)
             front == SubSeq(live, 1, i - 1)
             back == SubSeq(live, i + 1, n)
             s == front \o back
  <1>1. n \in Nat /\ DOMAIN live = 1 .. n /\ i \in 1 .. n /\ \A k \in 1 .. n : live[k] \in Views
    BY LenProperties
  <1>2. /\ front \in Seq(Views) /\ Len(front) = i - 1
        /\ \A k \in 1 .. (i - 1) : front[k] = live[k]
    <2>1. \A k \in 1 .. (i - 1) : live[k] \in Views
      BY <1>1
    <2>2. /\ front \in Seq(Views) /\ Len(front) = IF 1 <= i - 1 THEN (i - 1) - 1 + 1 ELSE 0
          /\ \A k \in 1 .. ((i - 1) - 1 + 1) : front[k] = live[1 + k - 1]
      BY <1>1, <2>1, SubSeqProperties
    <2> HIDE DEF front
    <2>3. QED
      BY <1>1, <2>2
  <1>3. /\ back \in Seq(Views) /\ Len(back) = n - i
        /\ \A k \in 1 .. (n - i) : back[k] = live[i + k]
    <2>1. \A k \in (i + 1) .. n : live[k] \in Views
      BY <1>1
    <2>2. /\ back \in Seq(Views) /\ Len(back) = IF i + 1 <= n THEN n - (i + 1) + 1 ELSE 0
          /\ \A k \in 1 .. (n - (i + 1) + 1) : back[k] = live[(i + 1) + k - 1]
      BY <1>1, <2>1, SubSeqProperties
    <2> HIDE DEF back
    <2>3. Len(back) = n - i
      BY <1>1, <2>2
    <2>4. ASSUME NEW k \in 1 .. (n - i)
          PROVE  back[k] = live[i + k]
      <3>1. k \in 1 .. (n - (i + 1) + 1) /\ (i + 1) + k - 1 = i + k
        BY <1>1
      <3>2. QED
        BY <2>2, <3>1
    <2>5. QED
      BY <2>2, <2>3, <2>4
  <1> HIDE DEF front, back
  <1>4. /\ s \in Seq(Views) /\ Len(s) = n - 1
        /\ \A k \in 1 .. (n - 1) : s[k] = IF k <= i - 1 THEN front[k] ELSE back[k - (i - 1)]
    <2>1. /\ s \in Seq(Views) /\ Len(s) = Len(front) + Len(back)
          /\ \A k \in 1 .. (Len(front) + Len(back)) :
               s[k] = IF k <= Len(front) THEN front[k] ELSE back[k - Len(front)]
      BY <1>2, <1>3, ConcatProperties
    <2> HIDE DEF s
    <2>2. Len(front) + Len(back) = n - 1
      BY <1>1, <1>2, <1>3
    <2>3. QED
      BY <1>2, <2>1, <2>2
  <1>5. RemoveAt(live, i) = s
    BY DEF RemoveAt, front, back
  <1> HIDE DEF s
  <1> DEFINE from(k) == IF k < i THEN k ELSE k + 1
  <1>6. DOMAIN s = 1 .. (n - 1)
    BY <1>4, LenProperties
  <1>7. ASSUME NEW k \in 1 .. (n - 1)
        PROVE  s[k] = live[from(k)] /\ from(k) \in (1 .. n) \ {i}
    <2>1. CASE k < i
      BY <1>1, <1>2, <1>4, <2>1
    <2>2. CASE k >= i
      <3>1. k - (i - 1) \in 1 .. (n - i) /\ i + (k - (i - 1)) = k + 1 /\ ~(k <= i - 1)
        BY <1>1, <2>2
      <3>2. s[k] = live[k + 1]
        BY <1>3, <1>4, <3>1
      <3>3. QED
        BY <1>1, <2>2, <3>2
    <2>3. QED
      BY <1>1, <2>1, <2>2
  <1>8. ASSUME NEW j \in 1 .. (n - 1), NEW k \in 1 .. (n - 1), from(j) = from(k)
        PROVE  j = k
    BY <1>1, <1>8
  <1>9. ASSUME NEW k \in (1 .. n) \ {i}
        PROVE  \E j \in 1 .. (n - 1) : from(j) = k
    <2>1. CASE k < i
      <3>1. k \in 1 .. (n - 1) /\ from(k) = k
        BY <1>1, <2>1
      <3>2. QED
        BY <3>1
    <2>2. CASE k > i
      <3>1. k - 1 \in 1 .. (n - 1) /\ from(k - 1) = k
        BY <1>1, <2>2
      <3>2. QED
        BY <3>1
    <2>3. QED
      BY <1>1, <2>1, <2>2
  <1> HIDE DEF from
  <1>10. \A j, k \in 1 .. n : live[j] = live[k] => j = k
    BY <1>1 DEF IsInjective
  <1>11. IsInjective(s)
    BY <1>6, <1>7, <1>8, <1>10 DEF IsInjective
  <1>12. ToSet(s) = ToSet(live) \ {live[i]}
    <2>1. ASSUME NEW x \in ToSet(s)
          PROVE  x \in ToSet(live) \ {live[i]}
      <3>1. PICK k \in 1 .. (n - 1) : s[k] = x
        BY <1>6 DEF ToSet
      <3>2. x = live[from(k)] /\ from(k) \in (1 .. n) \ {i}
        BY <1>7, <3>1
      <3>3. QED
        BY <1>1, <1>10, <3>2 DEF ToSet
    <2>2. ASSUME NEW x \in ToSet(live) \ {live[i]}
          PROVE  x \in ToSet(s)
      <3>1. PICK k \in 1 .. n : live[k] = x
        BY <1>1 DEF ToSet
      <3>2. k \in (1 .. n) \ {i}
        BY <1>1, <3>1
      <3>3. PICK j \in 1 .. (n - 1) : from(j) = k
        BY <1>9, <3>2
      <3>4. s[j] = x
        BY <1>7, <3>1, <3>3
      <3>5. QED
        BY <1>6, <3>4 DEF ToSet
    <2>3. QED
      BY <2>1, <2>2
  <1>13. QED
    BY <1>4, <1>5, <1>11, <1>12

\* A mount keeps the invariant: the view starts with what the model holds.
LEMMA MountHolds ==
  ASSUME SharedInv, NEW v \in Views, MountView(v)
  PROVE  SharedInv'
  <1> DEFINE live == browser.live
             model == browser.model
             w == Mounted(model)
             next == Append(live, v)
             view == Over(Only(v, w), browser.view)
  <1>1. /\ live \in Seq(Views) /\ IsInjective(live) /\ browser \in Browsers(live)
        /\ model \in Models /\ model.inputs \in Mappings(Values) /\ model.variables \in Mappings(Values)
        /\ model.update.seq \in Nat /\ browser.view \in [ToSet(live) -> Held]
        /\ v \in Views \ ToSet(live)
    BY BrowserState, BrowserFacts DEF MountView
  <1>2. /\ browser' = [browser EXCEPT !.live = next, !.view = view]
        /\ count' = [count EXCEPT !.mounts = @ + 1]
        /\ UNCHANGED <<python, toBrowser, toPython, history>>
    BY DEF MountView
  <1>3. next \in Seq(Views) /\ IsInjective(next) /\ ToSet(next) = ToSet(live) \cup {v}
    BY <1>1, AppendView
  <1>4. /\ Rendered(model.inputs, model.variables) \in [SharedNames -> Values \cup Local \cup {Default}]
        /\ IsRendered(Rendered(model.inputs, model.variables), model.inputs, model.variables)
        /\ model.inputs \in Mappings(Values \cup Local)
    BY <1>1, WiderMapping, RenderedFacts
  <1>5. /\ w \in Held /\ w.shared = model.inputs /\ w.inputs = model.inputs
        /\ w.variables = model.variables /\ w.last = model.update.seq
        /\ IsRendered(w.control, model.inputs, model.variables)
    BY <1>1, <1>4 DEF Mounted, Held
  <1> HIDE DEF w, next
  <1>6. /\ view \in [ToSet(next) -> Held] /\ view[v] = w
        /\ \A u \in ToSet(live) : view[u] = browser.view[u]
    <2>1. DOMAIN Only(v, w) = {v} /\ Only(v, w)[v] = w
      BY DEF Only
    <2>2. view = [u \in ToSet(next) |-> IF u = v THEN w ELSE browser.view[u]]
      BY <1>1, <1>3, <2>1 DEF Over
    <2> HIDE DEF view
    <2>3. QED
      BY <1>1, <1>3, <1>5, <2>2
  <1> HIDE DEF view
  <1>7. /\ browser' \in Browsers(next) /\ browser'.live = next /\ browser'.model = model
        /\ browser'.view = view /\ browser'.out = browser.out
    BY <1>1, <1>2, <1>6 DEF Browsers
  <1>8. SharedTypeOK'
    <2>1. count' \in [inputs : Nat, mounts : Nat]
      BY <1>2 DEF SharedInv, SharedTypeOK
    <2>2. QED
      BY <1>2, <1>3, <1>7, <2>1 DEF SharedInv, SharedTypeOK
  <1>9. OneHistory' /\ Untouched' /\ browser'.out = <<>>
    BY <1>2, <1>7 DEF SharedInv, OneHistory, Untouched
  <1>10. Tells(w, model.inputs, history.undone, history.touched)
    <2>1. DOMAIN model.inputs \subseteq history.touched \cup history.undone
      BY DEF SharedInv, Untouched
    <2>2. /\ \A n \in DOMAIN model.inputs : w.control[n] = model.inputs[n]
          /\ \A n \in DOMAIN model.variables \ DOMAIN model.inputs : w.control[n] = model.variables[n]
      BY <1>5 DEF IsRendered
    <2>3. QED
      BY <1>5, <2>1, <2>2 DEF Tells, Same
  <1>11. InSync(w, model.inputs)
    BY <1>5 DEF InSync
  <1>12. ASSUME NEW u \in ToSet(next)
         PROVE  Faithful(browser.view[u])'
    <2>1. CASE u = v
      BY <1>2, <1>5, <1>6, <1>7, <1>10, <1>11, <2>1 DEF Faithful
    <2>2. CASE u # v
      <3>1. browser'.view[u] = browser.view[u] /\ Faithful(browser.view[u])
        BY <1>3, <1>6, <1>7, <2>2, BrowserState
      <3>2. QED
        BY <1>2, <1>7, <3>1 DEF Faithful
    <2>3. QED
      BY <2>1, <2>2
  <1>13. QED
    BY <1>7, <1>8, <1>9, <1>12 DEF SharedInv

\* So does the end of a view.
LEMMA AbortHolds ==
  ASSUME SharedInv, NEW v \in Views, Abort(v)
  PROVE  SharedInv'
  <1> DEFINE live == browser.live
  <1>1. PICK i \in DOMAIN live :
          live[i] = v /\ browser' = [browser EXCEPT !.live = RemoveAt(live, i), !.view = Without(browser.view, {v})]
    BY DEF Abort
  <1> DEFINE next == RemoveAt(live, i)
             view == Without(browser.view, {v})
  <1>2. /\ live \in Seq(Views) /\ IsInjective(live) /\ browser \in Browsers(live)
        /\ browser.view \in [ToSet(live) -> Held]
    BY BrowserState, BrowserFacts
  <1>3. next \in Seq(Views) /\ IsInjective(next) /\ ToSet(next) = ToSet(live) \ {v}
    BY <1>1, <1>2, RemoveView
  <1> HIDE DEF next
  <1>4. view \in [ToSet(next) -> Held] /\ \A u \in ToSet(next) : view[u] = browser.view[u]
    <2>1. view = [u \in ToSet(next) |-> browser.view[u]]
      BY <1>2, <1>3 DEF Without, Restrict
    <2> HIDE DEF view
    <2>2. QED
      BY <1>2, <1>3, <2>1
  <1> HIDE DEF view
  <1>5. browser' = [browser EXCEPT !.live = next, !.view = view]
    BY <1>1 DEF next, view
  <1>6. /\ browser' \in Browsers(next) /\ browser'.live = next /\ browser'.model = browser.model
        /\ browser'.view = view /\ browser'.out = browser.out
    BY <1>2, <1>4, <1>5 DEF Browsers
  <1>7. UNCHANGED <<python, toBrowser, toPython, count, history>>
    BY DEF Abort
  <1>8. SharedTypeOK' /\ OneHistory' /\ Untouched' /\ browser'.out = <<>>
    BY <1>3, <1>6, <1>7 DEF SharedInv, SharedTypeOK, OneHistory, Untouched
  <1>9. ASSUME NEW u \in ToSet(next)
        PROVE  Faithful(browser.view[u])'
    <2>1. browser'.view[u] = browser.view[u] /\ Faithful(browser.view[u])
      BY <1>3, <1>4, <1>6, BrowserState
    <2>2. QED
      BY <1>6, <1>7, <2>1 DEF Faithful
  <1>10. QED
    BY <1>6, <1>8, <1>9 DEF SharedInv

\* What one view shows of a control that a user has set, and what it then shares.
IsTyped(t, w, n, x, mapping) ==
  /\ t \in Held /\ t.shared = mapping /\ t.last = w.last /\ t.variables = w.variables
  /\ DOMAIN t.inputs = DOMAIN w.inputs \cup {n}
  /\ \A k \in DOMAIN t.inputs : t.inputs[k] = IF k = n THEN x ELSE w.inputs[k]
  /\ \A k \in SharedNames : t.control[k] = IF k = n THEN x ELSE w.control[k]

\* A view whose user sets a control.
LEMMA TypedFacts ==
  ASSUME NEW w \in Held, NEW n \in SharedNames, NEW x \in Values \cup Local, NEW mapping \in Mappings(Values),
         NEW t, t = [w EXCEPT !.control = [w.control EXCEPT ![n] = x], !.shared = mapping,
                              !.inputs = Over(Only(n, x), w.inputs)]
  PROVE  IsTyped(t, w, n, x, mapping)
  <1> DEFINE inputs == Over(Only(n, x), w.inputs)
             control == [w.control EXCEPT ![n] = x]
  <1>1. w.inputs \in Mappings(Values \cup Local) /\ w.control \in [SharedNames -> Values \cup Local \cup {Default}]
    BY HeldFacts
  <1>2. /\ Only(n, x) \in Mappings(Values \cup Local) /\ DOMAIN Only(n, x) = {n} /\ Only(n, x)[n] = x
    BY OnlyFacts
  <1>3. inputs \in Mappings(Values \cup Local) /\ IsOver(inputs, Only(n, x), w.inputs)
    BY <1>1, <1>2, OverFacts
  <1> HIDE DEF inputs
  <1>4. /\ DOMAIN inputs = DOMAIN w.inputs \cup {n}
        /\ \A k \in DOMAIN inputs : inputs[k] = IF k = n THEN x ELSE w.inputs[k]
    BY <1>2, <1>3 DEF IsOver
  <1>5. /\ control \in [SharedNames -> Values \cup Local \cup {Default}]
        /\ \A k \in SharedNames : control[k] = IF k = n THEN x ELSE w.control[k]
    BY <1>1
  <1>6. t = [w EXCEPT !.control = control, !.shared = mapping, !.inputs = inputs]
    BY DEF inputs
  <1> HIDE DEF control
  <1>7. /\ t \in Held /\ t.shared = mapping /\ t.last = w.last /\ t.variables = w.variables
        /\ t.inputs = inputs /\ t.control = control
    BY <1>3, <1>5, <1>6 DEF Held
  <1>8. QED
    BY <1>4, <1>5, <1>7 DEF IsTyped

\* It tells what the others told before, but for that name.
LEMMA TellsTyped ==
  ASSUME NEW w \in Held, NEW inputs \in Mappings(Values), NEW loose, NEW user,
         Tells(w, inputs, loose, user), InSync(w, inputs),
         NEW n \in SharedNames, NEW x \in Values \cup Local, NEW next \in Mappings(Values),
         \A k \in SharedNames \ {n} : Same(k, next, inputs), x \in Values => n \in DOMAIN next /\ next[n] = x,
         NEW t, IsTyped(t, w, n, x, next)
  PROVE  Tells(t, next, loose, user \cup {n}) /\ InSync(t, next)
  <1>1. /\ DOMAIN w.inputs \subseteq SharedNames /\ DOMAIN w.variables \subseteq SharedNames /\ DOMAIN next \subseteq SharedNames
    BY HeldFacts, MappingFacts
  <1>2. /\ t.shared = next /\ t.variables = w.variables
        /\ DOMAIN t.inputs = DOMAIN w.inputs \cup {n}
        /\ \A k \in DOMAIN t.inputs : t.inputs[k] = IF k = n THEN x ELSE w.inputs[k]
        /\ \A k \in SharedNames : t.control[k] = IF k = n THEN x ELSE w.control[k]
    BY DEF IsTyped
  <1>3. \A k \in SharedNames \ {n} :
          (k \in DOMAIN next <=> k \in DOMAIN inputs) /\ (k \in DOMAIN next => next[k] = inputs[k])
    BY DEF Same
  <1>4. \A k \in DOMAIN t.inputs : t.control[k] = t.inputs[k]
    BY <1>1, <1>2 DEF Tells
  <1>5. \A k \in DOMAIN t.inputs : t.inputs[k] \in Values => k \in DOMAIN next /\ next[k] = t.inputs[k]
    <2>1. ASSUME NEW k \in DOMAIN t.inputs, t.inputs[k] \in Values
          PROVE  k \in DOMAIN next /\ next[k] = t.inputs[k]
      <3>1. CASE k = n
        BY <1>2, <2>1, <3>1
      <3>2. CASE k # n
        <4>1. k \in DOMAIN w.inputs /\ t.inputs[k] = w.inputs[k] /\ k \in SharedNames
          BY <1>1, <1>2, <3>2
        <4>2. k \in DOMAIN inputs /\ inputs[k] = w.inputs[k]
          BY <2>1, <4>1 DEF InSync
        <4>3. QED
          BY <1>3, <3>2, <4>1, <4>2
      <3>3. QED
        BY <3>1, <3>2
    <2>2. QED
      BY <2>1
  <1>6. DOMAIN next \cap DOMAIN t.variables \subseteq DOMAIN t.inputs
    BY <1>1, <1>2, <1>3 DEF InSync
  <1>7. InSync(t, next)
    BY <1>2, <1>5, <1>6 DEF InSync
  <1>8. \A k \in DOMAIN t.variables \ loose :
          k \notin DOMAIN t.inputs => t.control[k] \in Local \cup {t.variables[k]}
    BY <1>1, <1>2 DEF Tells
  <1>9. \A k \in DOMAIN t.variables \ (loose \cup (user \cup {n})) :
          k \notin DOMAIN t.inputs /\ t.control[k] = t.variables[k]
    BY <1>1, <1>2 DEF Tells
  <1>10. \A k \in SharedNames : Same(k, t.shared, next)
    BY <1>2 DEF Same
  <1>11. QED
    BY <1>4, <1>5, <1>7, <1>8, <1>9, <1>10 DEF Tells

\* The other views, told what a user has set.
LEMMA TellsPublished ==
  ASSUME NEW w \in Held, NEW inputs \in Mappings(Values), NEW loose, NEW user,
         Tells(w, inputs, loose, user), DOMAIN inputs \subseteq loose \cup user,
         NEW n \in SharedNames, NEW next \in Mappings(Values), n \in DOMAIN next,
         \A k \in SharedNames \ {n} : Same(k, next, inputs)
  PROVE  Tells(Told(w, next), next, loose, user \cup {n}) /\ InSync(Told(w, next), next)
  <1> DEFINE t == Told(w, next)
             wider == loose \cup {n}
  <1>1. IsTold(t, w, next)
    BY ToldFacts
  <1> HIDE DEF t
  <1>2. Tells(w, inputs, wider, user)
    BY TellsWider
  <1>3. DOMAIN inputs \subseteq wider \cup user /\ \A k \in SharedNames \ wider : Same(k, next, inputs)
    OBVIOUS
  <1> HIDE DEF wider
  <1>4. Tells(t, inputs, wider, user) /\ InSync(t, next)
    BY <1>1, <1>2, <1>3, TellsTold
  <1>5. t.inputs = next /\ t.shared = next /\ t.variables = w.variables
    BY <1>1 DEF IsTold
  <1>6. Tells(t, next, loose, user \cup {n})
    BY <1>4, <1>5 DEF Tells, Same, wider
  <1>7. QED
    BY <1>4, <1>6 DEF t

\* What the browser is after an interaction, before it has sent anything.
IsInteracted(c, v, n) ==
  /\ c \in Browsers(browser.live) /\ c.model.variables = browser.model.variables
  /\ c.model.update = browser.model.update
  /\ DOMAIN c.model.inputs \subseteq DOMAIN browser.model.inputs \cup {n}
  /\ \A u \in ToSet(browser.live) :
       /\ c.view[u].variables = browser.view[u].variables /\ c.view[u].last = browser.view[u].last
       /\ Tells(c.view[u], c.model.inputs, history.undone, history.touched \cup {n})
       /\ InSync(c.view[u], c.model.inputs)

\* What an interaction makes of the browser: one name that a user set, and views in step.
LEMMA InteractFacts ==
  ASSUME SharedAssumption, SharedInv, NEW v \in Views, NEW n \in SharedNames, NEW x \in Values \cup Local,
         Interact(v, n, x)
  PROVE  \E c : IsInteracted(c, v, n) /\ Turn(c)
  <1> DEFINE live == browser.live
             inputs == browser.model.inputs
             w == browser.view[v]
             typed == [browser EXCEPT !.view[v].control[n] = x]
             b == [typed EXCEPT !.view[v].inputs = Over(Only(n, x), @)]
             made(mapping) == [w EXCEPT !.control = [w.control EXCEPT ![n] = x], !.shared = mapping,
                                       !.inputs = Over(Only(n, x), w.inputs)]
  <1>1. /\ live \in Seq(Views) /\ IsInjective(live) /\ browser \in Browsers(live)
        /\ inputs \in Mappings(Values) /\ v \in ToSet(live) /\ w \in Held /\ Faithful(w)
        /\ browser.view \in [ToSet(live) -> Held] /\ browser.model \in Models
        /\ DOMAIN inputs \subseteq history.touched \cup history.undone
    BY BrowserState, BrowserFacts DEF Interact, SharedInv, Untouched
  <1>2. w.shared = inputs /\ Tells(w, inputs, history.undone, history.touched) /\ InSync(w, inputs)
    BY <1>1 DEF Faithful, InSync
  <1>3. ~(n \in DOMAIN w.inputs /\ w.inputs[n] = x)
    BY <1>2 DEF Interact, Tells
  <1>4. Turn(PublishInput(b, v, n, x))
    BY <1>3 DEF Interact
  <1>5. b = [browser EXCEPT !.view[v] = made(w.shared)]
    <2>1. w.control \in [SharedNames -> Values \cup Local \cup {Default}]
      BY <1>1, HeldFacts
    <2>2. typed = [browser EXCEPT !.view[v] = [w EXCEPT !.control = [w.control EXCEPT ![n] = x]]]
      BY <1>1 DEF Browsers
    <2> DEFINE control == [w.control EXCEPT ![n] = x]
               t == [w EXCEPT !.control = control]
    <2>3. control \in [SharedNames -> Values \cup Local \cup {Default}]
      BY <2>1
    <2> HIDE DEF control
    <2>4. t \in Held
      BY <1>1, <2>3 DEF Held
    <2> DEFINE u == [t EXCEPT !.inputs = Over(Only(n, x), t.inputs)]
    <2>7. typed = [browser EXCEPT !.view[v] = t]
      BY <2>2 DEF control
    <2> HIDE DEF t, typed
    <2>8. typed \in Browsers(live) /\ typed.view[v] = t
      BY <1>1, <2>4, <2>7, ViewStep DEF IsStep
    <2>9. b = [typed EXCEPT !.view[v] = u]
      BY <1>1, <2>8 DEF Browsers
    <2> HIDE DEF u, b
    <2>10. b = [browser EXCEPT !.view[v] = u]
      BY <1>1, <2>7, <2>9 DEF Browsers
    <2>5. [t EXCEPT !.inputs = Over(Only(n, x), t.inputs)]
            = [w EXCEPT !.control = control, !.shared = w.shared, !.inputs = Over(Only(n, x), w.inputs)]
      BY <1>1 DEF Held, t
    <2>6. QED
      BY <2>5, <2>10 DEF control, u
  <1> HIDE DEF typed, b
  <1>6. \A mapping \in Mappings(Values) : IsTyped(made(mapping), w, n, x, mapping)
    BY <1>1, TypedFacts
  <1>7. ASSUME NEW u \in ToSet(live)
        PROVE  /\ browser.view[u] \in Held /\ Faithful(browser.view[u])
               /\ Tells(browser.view[u], inputs, history.undone, history.touched)
               /\ InSync(browser.view[u], inputs)
    BY BrowserState DEF Faithful
  <1>8. CASE x \in Local \/ (n \in DOMAIN w.shared /\ w.shared[n] = x)
    <2> DEFINE t == made(w.shared)
    <2>1. IsTyped(t, w, n, x, inputs)
      BY <1>1, <1>2, <1>6
    <2> HIDE DEF made
    <2>2. b \in Browsers(live) /\ IsStep(b, browser, v, t)
      BY <1>1, <1>5, <2>1, ViewStep DEF IsTyped
    <2>3. b.view[v].shared = w.shared
      BY <1>2, <2>1, <2>2 DEF IsTyped, IsStep
    <2>4. PublishInput(b, v, n, x) = b
      BY <1>8, <2>3 DEF PublishInput
    <2>5. x \in Values => n \in DOMAIN inputs /\ inputs[n] = x
      BY <1>2, <1>8 DEF SharedAssumption
    <2>6. Tells(t, inputs, history.undone, history.touched \cup {n}) /\ InSync(t, inputs)
      <3>1. \A k \in SharedNames \ {n} : Same(k, inputs, inputs)
        BY DEF Same
      <3>2. QED
        BY <1>1, <1>2, <2>1, <2>5, <3>1, TellsTyped
    <2>7. b.model = browser.model /\ b.view[v] = t /\ \A u \in ToSet(live) \ {v} : b.view[u] = browser.view[u]
      BY <1>1, <2>2 DEF IsStep
    <2>8. ASSUME NEW u \in ToSet(live)
          PROVE  /\ b.view[u].variables = browser.view[u].variables /\ b.view[u].last = browser.view[u].last
                 /\ Tells(b.view[u], b.model.inputs, history.undone, history.touched \cup {n})
                 /\ InSync(b.view[u], b.model.inputs)
      <3>1. CASE u = v
        BY <2>1, <2>6, <2>7, <3>1 DEF IsTyped
      <3>2. CASE u # v
        <4>1. Tells(browser.view[u], inputs, history.undone, history.touched \cup {n})
          BY <1>7 DEF Tells
        <4>2. QED
          BY <1>7, <2>7, <3>2, <4>1
      <3>3. QED
        BY <3>1, <3>2
    <2>9. IsInteracted(b, v, n)
      BY <2>2, <2>7, <2>8 DEF IsInteracted
    <2>10. QED
      BY <1>4, <2>4, <2>9
  <1>9. CASE ~(x \in Local \/ (n \in DOMAIN w.shared /\ w.shared[n] = x))
    <2> DEFINE next == Over(Only(n, x), w.shared)
               t == made(next)
               set == [b EXCEPT !.view[v].shared = next]
               d == SetShared(set, next, {v})
               c == Save(b, d)
    <2>1. x \in Values /\ inputs = w.shared
      BY <1>2, <1>9
    <2>2. Only(n, x) \in Mappings(Values) /\ DOMAIN Only(n, x) = {n} /\ Only(n, x)[n] = x
      BY <2>1, OnlyFacts
    <2>3. next \in Mappings(Values) /\ IsOver(next, Only(n, x), inputs)
      BY <1>1, <2>1, <2>2, OverFacts
    <2> HIDE DEF next
    <2>4. /\ n \in DOMAIN next /\ next[n] = x /\ \A k \in SharedNames \ {n} : Same(k, next, inputs)
          /\ DOMAIN next = DOMAIN inputs \cup {n}
      BY <2>2, <2>3 DEF IsOver, Same
    <2>5. inputs # next
      BY <1>9, <2>1, <2>4
    <2>6. IsTyped(made(w.shared), w, n, x, w.shared) /\ IsTyped(t, w, n, x, next)
      BY <1>1, <1>6, <2>1, <2>3
    <2>7. t = [made(w.shared) EXCEPT !.shared = next]
      BY <1>1 DEF Held
    <2> HIDE DEF made, t
    <2>8. b \in Browsers(live) /\ IsStep(b, browser, v, made(w.shared))
      BY <1>1, <1>5, <2>6, ViewStep DEF IsTyped
    <2>9. b.view[v] = made(w.shared) /\ b.view[v].shared = w.shared
      BY <2>6, <2>8 DEF IsTyped, IsStep
    <2>10. PublishInput(b, v, n, x) = c
      BY <1>9, <2>9 DEF PublishInput, next
    <2>11. set = [b EXCEPT !.view[v] = t]
      BY <2>7, <2>8, <2>9 DEF Browsers
    <2> HIDE DEF set
    <2>12. set \in Browsers(live) /\ IsStep(set, b, v, t)
      BY <1>1, <2>6, <2>8, <2>11, ViewStep DEF IsTyped
    <2>13. /\ set.model = browser.model /\ set.live = live /\ set.view[v] = t
           /\ \A u \in ToSet(live) \ {v} : set.view[u] = browser.view[u]
      BY <1>1, <2>8, <2>12, BrowserFacts DEF IsStep
    <2> HIDE DEF d
    <2>14. d \in Browsers(live) /\ IsShared(d, set, next, {v})
      BY <1>1, <2>3, <2>12, SetSharedFacts DEF d
    <2> HIDE DEF c
    <2>15. c \in Browsers(live) /\ IsSaved(c, d)
      BY <1>1, <2>14, SaveFacts DEF c
    <2>16. /\ c.model = [browser.model EXCEPT !.inputs = next]
           /\ \A u \in ToSet(live) : c.view[u] = IF u \in {v} THEN set.view[u] ELSE Told(set.view[u], next)
      BY <2>5, <2>13, <2>14, <2>15 DEF IsShared, IsSaved
    <2>17. /\ c.model.inputs = next /\ c.model.variables = browser.model.variables
           /\ c.model.update = browser.model.update
      BY <1>1, <2>16 DEF Models
    <2>18. ASSUME NEW u \in ToSet(live)
           PROVE  /\ c.view[u].variables = browser.view[u].variables /\ c.view[u].last = browser.view[u].last
                  /\ Tells(c.view[u], next, history.undone, history.touched \cup {n})
                  /\ InSync(c.view[u], next)
      <3>1. CASE u = v
        <4>1. c.view[u] = t
          BY <2>13, <2>16, <3>1
        <4>2. Tells(t, next, history.undone, history.touched \cup {n}) /\ InSync(t, next)
          BY <1>1, <1>2, <2>3, <2>4, <2>6, TellsTyped
        <4>3. QED
          BY <2>6, <3>1, <4>1, <4>2 DEF IsTyped
      <3>2. CASE u # v
        <4>1. c.view[u] = Told(browser.view[u], next)
          BY <2>13, <2>16, <3>2
        <4>2. IsTold(c.view[u], browser.view[u], next)
          BY <1>7, <2>3, <4>1, ToldFacts
        <4>3. /\ browser.view[u] \in Held
              /\ Tells(browser.view[u], inputs, history.undone, history.touched)
              /\ DOMAIN inputs \subseteq history.undone \cup history.touched
              /\ n \in DOMAIN next /\ \A k \in SharedNames \ {n} : Same(k, next, inputs)
          BY <1>1, <1>7, <2>4
        <4> HIDE DEF inputs
        <4>4. /\ Tells(Told(browser.view[u], next), next, history.undone, history.touched \cup {n})
              /\ InSync(Told(browser.view[u], next), next)
          BY <1>1, <2>3, <4>3, TellsPublished DEF inputs
        <4>5. QED
          BY <4>1, <4>2, <4>4 DEF IsTold
      <3>3. QED
        BY <3>1, <3>2
    <2>19. IsInteracted(c, v, n)
      BY <2>4, <2>15, <2>17, <2>18 DEF IsInteracted
    <2>20. QED
      BY <1>4, <2>10, <2>19
  <1>10. QED
    BY <1>8, <1>9

\* An interaction keeps the invariant.
LEMMA InteractHolds ==
  ASSUME SharedAssumption, SharedInv, NEW v \in Views, NEW n \in SharedNames, NEW x \in Values \cup Local,
         Interact(v, n, x)
  PROVE  SharedInv'
  <1> DEFINE live == browser.live
  <1>1. PICK c : IsInteracted(c, v, n) /\ Turn(c)
    BY InteractFacts
  <1>2. live \in Seq(Views) /\ IsInjective(live) /\ c \in Browsers(live) /\ toPython \in Seq(Mappings(Values))
    BY <1>1, BrowserState DEF SharedInv, SharedTypeOK, IsInteracted
  <1>3. /\ browser' \in Browsers(live) /\ browser'.live = live /\ browser'.model = c.model
        /\ browser'.view = c.view /\ browser'.out = <<>> /\ toPython' \in Seq(Mappings(Values))
    BY <1>1, <1>2, TurnFacts
  <1>4. /\ count' = [count EXCEPT !.inputs = @ + 1]
        /\ history' = [history EXCEPT !.touched = @ \cup {n}]
        /\ UNCHANGED <<python, toBrowser>>
    BY DEF Interact
  <1>5. /\ history' \in [touched : SUBSET SharedNames, undone : SUBSET SharedNames]
        /\ history'.touched = history.touched \cup {n} /\ history'.undone = history.undone
        /\ count' \in [inputs : Nat, mounts : Nat]
    BY <1>4 DEF SharedInv, SharedTypeOK
  <1>6. SharedTypeOK'
    BY <1>2, <1>3, <1>4, <1>5 DEF SharedInv, SharedTypeOK
  <1>7. OneHistory'
    BY <1>1, <1>3, <1>4 DEF SharedInv, OneHistory, IsInteracted
  <1>8. Untouched'
    BY <1>1, <1>3, <1>5 DEF SharedInv, Untouched, IsInteracted
  <1>9. ASSUME NEW u \in ToSet(live)
        PROVE  Faithful(browser.view[u])'
    <2>1. Faithful(browser.view[u])
      BY BrowserState
    <2>2. QED
      BY <1>1, <1>3, <1>5, <2>1 DEF IsInteracted, Faithful
  <1>10. QED
    BY <1>3, <1>6, <1>7, <1>8, <1>9 DEF SharedInv

\* Every step keeps the invariant.
LEMMA SharedInvStep ==
  ASSUME SharedAssumption, SharedInv, [SharedNext]_sharedVars
  PROVE  SharedInv'
  <1>1. CASE UNCHANGED sharedVars
    BY <1>1 DEF sharedVars, SharedInv, SharedTypeOK, OneHistory, Untouched, Faithful
  <1>2. ASSUME NEW v \in Views, MountView(v) \/ Abort(v)
        PROVE  SharedInv'
    BY <1>2, MountHolds, AbortHolds
  <1>3. ASSUME NEW v \in Views, NEW n \in SharedNames, NEW x \in Values \cup Local, Interact(v, n, x)
        PROVE  SharedInv'
    BY <1>3, InteractHolds
  <1>4. ASSUME NEW values \in Mappings(Values), PatchVariables(values) \/ Replacement(values)
        PROVE  SharedInv'
    BY <1>4, PatchHolds, ReplacementHolds
  <1>5. ASSUME NEW names \in SUBSET SharedNames, ResetVariables(names)
        PROVE  SharedInv'
    BY <1>5, ResetHolds
  <1>6. CASE ReceiveUpdate
    BY <1>6, ReceiveUpdateHolds
  <1>7. CASE ReceiveInputs
    BY <1>7, ReceiveInputsHolds
  <1>8. QED
    BY <1>1, <1>2, <1>3, <1>4, <1>5, <1>6, <1>7 DEF SharedNext

\* Whatever users do and Python sets, in any number of views and names: updates form one
\* history, and every live view is faithful to what the session model holds.
THEOREM SharedInvHolds == ASSUME SharedAssumption PROVE SharedSpec => []SharedInv
  <1>1. SharedInv /\ [SharedNext]_sharedVars => SharedInv'
    BY SharedInvStep
  <1>2. QED
    BY SharedInitHolds, <1>1, PTL DEF SharedSpec

\* Every live view holds the variables of the last update that reached the browser
\* (view.ts:203-219).
THEOREM VariablesReach == ASSUME SharedAssumption PROVE SharedSpec => []VariablesReachViews
  <1>1. SharedInv => VariablesReachViews
    BY DEF SharedInv, Faithful, VariablesReachViews
  <1>2. QED
    BY <1>1, SharedInvHolds, PTL

\* Live views show the same value of a variable, unless one shows what cannot be shared
\* or an update of other names has set the name back (view.ts:175-219).
THEOREM ViewsAgreeHolds == ASSUME SharedAssumption PROVE SharedSpec => []ViewsAgree
  <1>1. ASSUME SharedInv
        PROVE  ViewsAgree
    <2>1. SUFFICES ASSUME NEW v \in ToSet(browser.live), NEW w \in ToSet(browser.live),
                          NEW n \in DOMAIN browser.model.variables \ history.undone,
                          Shown(v, n) \notin Local, Shown(w, n) \notin Local
                   PROVE  Shown(v, n) = Shown(w, n)
      BY DEF ViewsAgree
    <2> DEFINE inputs == browser.model.inputs
    <2>2. ASSUME NEW u \in ToSet(browser.live), Shown(u, n) \notin Local
          PROVE  Shown(u, n) = IF n \in DOMAIN inputs THEN inputs[n] ELSE browser.model.variables[n]
      <3> DEFINE held == browser.view[u]
      <3>1. /\ held \in Held /\ held.variables = browser.model.variables
            /\ Tells(held, inputs, history.undone, history.touched) /\ InSync(held, inputs)
        BY <1>1, BrowserState DEF Faithful
      <3>2. CASE n \in DOMAIN held.inputs
        <4>1. held.control[n] = held.inputs[n] /\ held.inputs[n] \in Values \cup Local
          BY <3>1, <3>2, HeldFacts DEF Tells
        <4>2. held.inputs[n] \in Values
          BY <2>2, <4>1 DEF Shown
        <4>3. n \in DOMAIN inputs /\ inputs[n] = held.inputs[n]
          BY <3>1, <3>2, <4>2 DEF InSync
        <4>4. QED
          BY <4>1, <4>3 DEF Shown
      <3>3. CASE n \notin DOMAIN held.inputs
        <4>1. n \notin DOMAIN inputs
          BY <3>1, <3>3 DEF InSync
        <4>2. held.control[n] \in Local \cup {held.variables[n]}
          BY <3>1, <3>3 DEF Tells
        <4>3. QED
          BY <2>2, <3>1, <4>1, <4>2 DEF Shown
      <3>4. QED
        BY <3>2, <3>3
    <2>3. QED
      BY <2>1, <2>2
  <1>2. QED
    BY <1>1, SharedInvHolds, PTL

\* What Python set last is what every live view shows, until a user sets the name or an
\* update of other names brings back an input (_controller.py:153-228).
THEOREM PythonWins == ASSUME SharedAssumption PROVE SharedSpec => []PythonUpdateWins
  <1>1. SharedInv => PythonUpdateWins
    BY DEF SharedInv, Faithful, Tells, PythonUpdateWins, Shown
  <1>2. QED
    BY <1>1, SharedInvHolds, PTL

=============================================================================
