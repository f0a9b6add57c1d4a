---------------------------- MODULE EvaluationPool ----------------------------
(***************************************************************************)
(* Threads and coroutines that acquire evaluations from the pool of one    *)
(* notebook (_evaluation_pool.py), while the notebook is edited or closed  *)
(* (_controller.py) and evaluations are closed by those who use them       *)
(* (_execution.py: Evaluation).                                            *)
(*                                                                         *)
(* acquire holds the pool's lock while it builds and opens an evaluation.  *)
(* Closing an evaluation needs no lock.  A coroutine acquires in a worker  *)
(* thread; its cancellation closes what the worker tracked and joins it.   *)
(* Each caller acquires once, so an evaluation is named by the caller that *)
(* built it.                                                               *)
(***************************************************************************)
EXTENDS Naturals, FiniteSets

CONSTANTS
  Callers,        \* threads and coroutines
  Coroutines,     \* the callers that can be cancelled
  Wanted,         \* the cells each caller needs
  Reusing,        \* the callers that accept an enclosing selection
  None,           \* nobody, or no evaluation
  MaxEdits        \* bound on changes of the notebook's definition

ASSUME PoolAssumption ==
  /\ Coroutines \subseteq Callers /\ Reusing \subseteq Callers
  /\ DOMAIN Wanted = Callers /\ \A c \in Callers : IsFiniteSet(Wanted[c])
  /\ None \notin Callers /\ MaxEdits \in Nat

VARIABLES
  holder,       \* who holds _EvaluationPool._lock
  pooled,       \* the evaluations in _EvaluationPool._sessions
  step,         \* where each caller's acquire stands
  got,          \* the evaluation that acquire returned
  built,        \* the evaluations whose engine was started
  based,        \* the definition each evaluation was built for, its _spec
  opened,       \* the evaluations whose engine opened the notebook
  shut,         \* the evaluations that were closed
  resources,    \* the evaluations in the controller's _resources
  spec,         \* the identity of the controller's _spec
  notebook,     \* how far the notebook's close has come
  closings,     \* the resources that the notebook's close has yet to close
  waiter,       \* where each coroutine stands that awaits its worker
  cancelled,    \* the coroutines whose _Acquisition is cancelled
  tracked       \* the coroutines whose _Acquisition knows the session

engines == <<built, based, opened, shut, resources>>
awaits == <<waiter, cancelled, tracked>>
edits == <<spec, notebook, closings>>
acquiring == <<holder, pooled, step, got>>
vars == <<acquiring, engines, edits, awaits>>

Stages == {"idle", "queued", "checking", "constructing", "registering", "tracking", "opening",
           "requesting", "publishing", "returned", "failed"}

TypeOK ==
  /\ holder \in Callers \cup {None}
  /\ pooled \subseteq Callers /\ resources \subseteq Callers /\ closings \subseteq Callers
  /\ step \in [Callers -> Stages]
  /\ got \in [Callers -> Callers \cup {None}]
  /\ built \subseteq Callers /\ opened \subseteq Callers /\ shut \subseteq Callers
  /\ based \in [Callers -> 0..MaxEdits]
  /\ spec \in 0..MaxEdits
  /\ notebook \in {"open", "closed", "closing"}
  /\ waiter \in [Coroutines -> {"waiting", "closing", "joining", "cancelled", "resumed"}]
  /\ cancelled \subseteq Coroutines /\ tracked \subseteq Coroutines

Init ==
  /\ holder = None /\ pooled = {} /\ resources = {} /\ closings = {}
  /\ step = [c \in Callers |-> "idle"]
  /\ got = [c \in Callers |-> None]
  /\ built = {} /\ opened = {} /\ shut = {}
  /\ based = [c \in Callers |-> 0]
  /\ spec = 0 /\ notebook = "open"
  /\ waiter = [c \in Coroutines |-> "waiting"]
  /\ cancelled = {} /\ tracked = {}

IsOpen == notebook = "open"
Current(e) == e \notin shut /\ based[e] = spec

\* Evaluation.close of each of these.
Shut(es) ==
  /\ shut' = shut \cup es
  /\ resources' = resources \ es
  /\ UNCHANGED <<built, based, opened>>

-----------------------------------------------------------------------------
(* acquire *)

GoTo(c, stage) == step' = [step EXCEPT ![c] = stage]

\* acquire ends: the pool's lock is released.
Fails(c) == GoTo(c, "failed") /\ holder' = None /\ UNCHANGED got

Returns(c, e) == GoTo(c, "returned") /\ holder' = None /\ got' = [got EXCEPT ![c] = e]

Start(c) ==
  /\ step[c] = "idle"
  /\ GoTo(c, "queued")
  /\ UNCHANGED <<holder, pooled, got, engines, edits, awaits>>

\* Mutant: the lock is not waited for.
Lock_shared(c) ==
  /\ step[c] = "queued"
  /\ IF IsOpen THEN GoTo(c, "checking") /\ holder' = c /\ UNCHANGED got
               ELSE Fails(c)
  /\ UNCHANGED <<pooled, engines, edits, awaits>>

Lock(c) ==
  /\ step[c] = "queued" /\ holder = None
  /\ IF IsOpen THEN GoTo(c, "checking") /\ holder' = c /\ UNCHANGED got
               ELSE Fails(c)
  /\ UNCHANGED <<pooled, engines, edits, awaits>>

\* The evaluations in the pool whose selection is exactly what the caller needs ...
Exact(c, pool) == {e \in pool : Wanted[e] = Wanted[c]}

\* ... or, for a caller that accepts it, a smallest one that contains it.
Enclosing(c, pool) ==
  {e \in pool : /\ c \in Reusing /\ Wanted[c] \subseteq Wanted[e]
                /\ \A f \in pool : Wanted[c] \subseteq Wanted[f] =>
                     Cardinality(Wanted[e]) <= Cardinality(Wanted[f])}

\* Closed evaluations and those of an older definition leave the pool, closed; then look up.
Check(c) ==
  /\ step[c] = "checking"
  /\ LET kept == {e \in pooled : Current(e)}
         hits == IF Exact(c, kept) # {} THEN Exact(c, kept) ELSE Enclosing(c, kept)
     IN /\ pooled' = kept
        /\ Shut(pooled \ kept)
        /\ IF hits # {} THEN \E e \in hits : Returns(c, e)
                        ELSE GoTo(c, "constructing") /\ UNCHANGED <<holder, got>>
  /\ UNCHANGED <<edits, awaits>>

\* Evaluation.__init__ starts an engine for an open notebook ...
Construct(c) ==
  /\ step[c] = "constructing"
  /\ IF IsOpen
       THEN /\ built' = built \cup {c}
            /\ based' = [based EXCEPT ![c] = spec]
            /\ GoTo(c, "registering") /\ UNCHANGED <<holder, got>>
       ELSE Fails(c) /\ UNCHANGED <<built, based>>
  /\ UNCHANGED <<pooled, opened, shut, resources, edits, awaits>>

\* ... and registers with the notebook, which may be closed by now.
Register(c) ==
  /\ step[c] = "registering"
  /\ resources' = resources \cup {c}
  /\ GoTo(c, "tracking")
  /\ UNCHANGED <<holder, pooled, got, built, based, opened, shut, edits, awaits>>

\* Mutant: a cancellation that came before is not noticed.
Track_blindly(c) ==
  /\ step[c] = "tracking"
  /\ tracked' = tracked \cup ({c} \cap Coroutines)
  /\ GoTo(c, "opening")
  /\ UNCHANGED <<holder, pooled, got, engines, edits, waiter, cancelled>>

\* _Acquisition.track: the coroutine can close what its worker built.
Track(c) ==
  /\ step[c] = "tracking"
  /\ tracked' = tracked \cup ({c} \cap Coroutines)
  /\ IF c \in cancelled
       THEN Shut({c}) /\ Fails(c)
       ELSE GoTo(c, "opening") /\ UNCHANGED <<holder, got, engines>>
  /\ UNCHANGED <<pooled, edits, waiter, cancelled>>

\* Mutant: open does not ask whether the notebook was closed.
Open_whenClosed(c) ==
  /\ step[c] = "opening"
  /\ IF Current(c)
       THEN GoTo(c, "requesting") /\ UNCHANGED <<holder, got, engines>>
       ELSE Shut({c}) /\ Fails(c)
  /\ UNCHANGED <<pooled, edits, awaits>>

\* Evaluation.open checks that nothing has changed since, and asks the engine.
Open(c) ==
  /\ step[c] = "opening"
  /\ IF Current(c) /\ IsOpen
       THEN GoTo(c, "requesting") /\ UNCHANGED <<holder, got, engines>>
       ELSE Shut({c}) /\ Fails(c)
  /\ UNCHANGED <<pooled, edits, awaits>>

\* The engine answered before the evaluation was closed.
Opened(c) ==
  /\ step[c] = "requesting" /\ c \notin shut
  /\ opened' = opened \cup {c}
  /\ GoTo(c, "publishing")
  /\ UNCHANGED <<holder, pooled, got, built, based, shut, resources, edits, awaits>>

\* Mutant: closing an evaluation does not end its request.
OpenFails_unclosed(c) ==
  /\ step[c] = "requesting" /\ c \notin shut
  /\ Shut({c})
  /\ Fails(c)
  /\ UNCHANGED <<pooled, edits, awaits>>

\* External: it failed or timed out; or the evaluation was closed, which ends the request.
OpenFails(c) ==
  /\ step[c] = "requesting"
  /\ Shut({c})
  /\ Fails(c)
  /\ UNCHANGED <<pooled, edits, awaits>>

Publish(c) ==
  /\ step[c] = "publishing"
  /\ pooled' = {e \in pooled : Wanted[e] # Wanted[c]} \cup {c}
  /\ Returns(c, c)
  /\ UNCHANGED <<engines, edits, awaits>>

-----------------------------------------------------------------------------
(* acquire_async: the coroutine that awaits the worker *)

Ended(c) == step[c] \in {"returned", "failed"}

Resume(c) ==
  /\ waiter[c] = "waiting" /\ Ended(c)
  /\ waiter' = [waiter EXCEPT ![c] = "resumed"]
  /\ UNCHANGED <<acquiring, engines, edits, cancelled, tracked>>

\* Cancellation can come as long as the coroutine has not resumed, also after its worker ended.
\* A session that the worker tracked already is closed next.
Cancel(c) ==
  /\ waiter[c] = "waiting" /\ step[c] # "idle"
  /\ cancelled' = cancelled \cup {c}
  /\ waiter' = [waiter EXCEPT ![c] = IF c \in tracked THEN "closing" ELSE "joining"]
  /\ UNCHANGED <<acquiring, engines, edits, tracked>>

CloseTracked(c) ==
  /\ waiter[c] = "closing"
  /\ Shut({c})
  /\ waiter' = [waiter EXCEPT ![c] = "joining"]
  /\ UNCHANGED <<acquiring, edits, cancelled, tracked>>

Join(c) ==
  /\ waiter[c] = "joining" /\ Ended(c)
  /\ waiter' = [waiter EXCEPT ![c] = "cancelled"]
  /\ UNCHANGED <<acquiring, engines, edits, cancelled, tracked>>

-----------------------------------------------------------------------------
(* The notebook and the users of evaluations *)

\* Who holds an evaluation closes it when a request times out or is cancelled.
UserCloses(c) ==
  /\ got[c] # None /\ got[c] \notin shut
  /\ c \in Coroutines => waiter[c] = "resumed"
  /\ Shut({got[c]})
  /\ UNCHANGED <<acquiring, edits, awaits>>

\* A theme change replaces the definition.
Edit ==
  /\ IsOpen /\ spec < MaxEdits
  /\ spec' = spec + 1
  /\ UNCHANGED <<acquiring, engines, notebook, closings, awaits>>

\* NotebookController.close: from here on nothing may be opened ...
CloseNotebook ==
  /\ IsOpen
  /\ notebook' = "closed"
  /\ UNCHANGED <<acquiring, engines, spec, closings, awaits>>

\* ... and what is registered by now is closed, one after the other.
ListResources ==
  /\ notebook = "closed"
  /\ notebook' = "closing"
  /\ closings' = resources
  /\ UNCHANGED <<acquiring, engines, spec, awaits>>

CloseResource(e) ==
  /\ notebook = "closing" /\ e \in closings
  /\ closings' = closings \ {e}
  /\ Shut({e})
  /\ UNCHANGED <<acquiring, spec, notebook, awaits>>

-----------------------------------------------------------------------------
Acquire(c) ==
  \/ Lock(c) \/ Check(c) \/ Construct(c) \/ Register(c) \/ Track(c) \/ Open(c) \/ Publish(c)

Await(c) == Resume(c) \/ CloseTracked(c) \/ Join(c)

Next ==
  \/ \E c \in Callers : Start(c) \/ Acquire(c) \/ Opened(c) \/ OpenFails(c) \/ UserCloses(c)
  \/ \E c \in Coroutines : Cancel(c) \/ Await(c)
  \/ Edit \/ CloseNotebook \/ ListResources
  \/ \E e \in Callers : CloseResource(e)

\* Threads run, and get the lock in some order.  A request to open ends when the evaluation
\* is closed, which fails every pending request of its engine (EngineHost); an engine that is
\* left alone owes no answer.
Fairness ==
  /\ \A c \in Callers : SF_vars(Lock(c)) /\ WF_vars(Acquire(c))
                        /\ WF_vars(OpenFails(c) /\ c \in shut)
  /\ \A c \in Coroutines : WF_vars(Await(c))
  /\ WF_vars(ListResources) /\ WF_vars(\E e \in Callers : CloseResource(e))

Spec == Init /\ [][Next]_vars /\ Fairness

-----------------------------------------------------------------------------
(* Properties *)

\* One evaluation serves all callers of a selection: no two are open for the same cells of the
\* same definition, however their acquisitions interleave (acquire holds the lock throughout).
SharedBySelection ==
  \A e, f \in Callers :
    /\ e \in opened /\ f \in opened
    /\ Current(e) /\ Current(f) /\ Wanted[e] = Wanted[f]
    => e = f

\* An evaluation is handed to a caller, by the one that built it or out of the pool, only after
\* its engine opened, and it covers the cells the caller needs.
HandedIsOpened ==
  \A c \in Callers : got[c] # None =>
    got[c] \in opened /\ Wanted[c] \subseteq Wanted[got[c]]

\* A cancelled acquisition leaves no engine running that it started, whether the cancellation
\* came before, during or after construction (_evaluation_pool.py:125).
CancelledLeavesNothing ==
  \A c \in Coroutines : waiter[c] = "cancelled" /\ c \in built => c \in shut

\* No engine outlives its notebook: once close has closed what it listed, every evaluation is
\* closed, except one that is being opened, which open closes itself.
NothingOutlivesTheNotebook ==
  notebook = "closing" /\ closings = {} =>
    \A e \in Callers : e \in built /\ e \notin shut =>
      step[e] \in {"registering", "tracking", "opening"}

\* A cancellation comes to an end, also when the engine would never answer, provided nobody
\* else keeps the pool's lock.
CancellationEnds ==
  \A c \in Coroutines :
    [](waiter[c] \in {"closing", "joining"} => holder \in {c, None}) =>
      (waiter[c] \in {"closing", "joining"} ~> waiter[c] = "cancelled")
=============================================================================
