------------------------------- MODULE Inspector -------------------------------
(***************************************************************************)
(* The engine that static inspections share (_execution.py, _Inspector):   *)
(* leases, the timer that closes an idle engine, and inspections that time *)
(* out or are cancelled, which close it for everyone.                      *)
(*                                                                         *)
(* Taking and returning a lease are steps under the inspector's lock; a    *)
(* timer that has fired waits for the lock and can no longer be cancelled. *)
(* What an engine does with a request is EngineHost's matter.              *)
(***************************************************************************)
EXTENDS Integers, FiniteSets

CONSTANTS
  Callers,     \* threads and tasks that inspect notebooks
  MaxEngines   \* bound on engines started

\* What the constants satisfy.
InspectorAssumption == MaxEngines \in Nat \ {0} /\ IsFiniteSet(Callers)

VARIABLES
  shared,    \* _engine (0 for None), _leases, and whether _timer will still fire
  fired,     \* the engines whose _expire waits for the lock
  expiring,  \* the engines that _expire is about to close
  closed,    \* the engines that are closed
  caller,    \* what each caller does, and the engine it leases
  launched   \* engines started so far; history: the engines an inspection closed

inspectorVars == <<shared, fired, expiring, closed, caller, launched>>

InspectorInit ==
  /\ shared = [engine |-> 0, leases |-> 0, timer |-> FALSE]
  /\ fired = {} /\ expiring = {} /\ closed = {}
  /\ caller = [c \in Callers |-> [pc |-> "idle", engine |-> 0]]
  /\ launched = [count |-> 0, given_up |-> {}]

Become(c, pc, e) == caller' = [caller EXCEPT ![c] = [pc |-> pc, engine |-> e]]

Usable == shared.engine # 0 /\ shared.engine \notin closed

\* acquire: the engine is started under the lock.
Acquire(c) ==
  /\ caller[c].pc = "idle"
  /\ Usable \/ launched.count < MaxEngines
  /\ LET e == IF Usable THEN shared.engine ELSE launched.count + 1
     IN /\ shared' = [engine |-> e, leases |-> shared.leases + 1, timer |-> FALSE]
        /\ launched' = [launched EXCEPT !.count = IF Usable THEN @ ELSE @ + 1]
        /\ Become(c, "inspecting", e)
  /\ UNCHANGED <<fired, expiring, closed>>

\* The engine answers, or fails because it is closed.
Answered(c) ==
  /\ caller[c].pc = "inspecting"
  /\ Become(c, "done", caller[c].engine)
  /\ UNCHANGED <<shared, fired, expiring, closed, launched>>

\* The inspection times out or is cancelled, and closes the engine.
GiveUp(c) ==
  /\ caller[c].pc = "inspecting"
  /\ closed' = closed \cup {caller[c].engine}
  /\ launched' = [launched EXCEPT !.given_up = @ \cup {caller[c].engine}]
  /\ Become(c, "done", caller[c].engine)
  /\ UNCHANGED <<shared, fired, expiring>>

\* release: the last lease of the current engine starts the timer.
Release(c) ==
  /\ caller[c].pc = "done"
  /\ LET e == caller[c].engine
         last == shared.leases = 1 /\ shared.engine = e /\ e \notin closed
     IN shared' = [shared EXCEPT !.leases = @ - 1, !.timer = @ \/ last]
  /\ Become(c, "idle", 0)
  /\ UNCHANGED <<fired, expiring, closed, launched>>

Fire ==
  /\ shared.timer
  /\ shared' = [shared EXCEPT !.timer = FALSE]
  /\ fired' = fired \cup {shared.engine}
  /\ UNCHANGED <<expiring, closed, caller, launched>>

\* A lease taken after the timer fired keeps the engine.
Kept_ifOther(e) == shared.engine # e
Kept(e) == shared.leases # 0 \/ shared.engine # e

Expire(e) ==
  /\ e \in fired
  /\ fired' = fired \ {e}
  /\ IF Kept(e)
     THEN UNCHANGED <<shared, expiring>>
     ELSE /\ shared' = [shared EXCEPT !.engine = 0]
          /\ expiring' = expiring \cup {e}
  /\ UNCHANGED <<closed, caller, launched>>

\* The engine is closed outside the lock.
CloseIdle(e) ==
  /\ e \in expiring
  /\ expiring' = expiring \ {e}
  /\ closed' = closed \cup {e}
  /\ UNCHANGED <<shared, fired, caller, launched>>

InspectorNext ==
  \/ \E c \in Callers : Acquire(c) \/ Answered(c) \/ GiveUp(c) \/ Release(c)
  \/ Fire
  \/ \E e \in 1..MaxEngines : Expire(e) \/ CloseIdle(e)

InspectorSpec == InspectorInit /\ [][InspectorNext]_inspectorVars

-----------------------------------------------------------------------------
(* Properties *)

\* The idle timer takes an engine from nobody: a leased engine is closed only by an
\* inspection that timed out or was cancelled ("A lease taken after the timer fired
\* keeps the engine", _execution.py:496).
LeaseKeepsEngine ==
  \A c \in Callers :
    /\ caller[c].pc = "inspecting"
    /\ caller[c].engine \in closed \cup expiring
    => caller[c].engine \in launched.given_up

\* "It closes after idling for `_IDLE` seconds with no lease" (_execution.py:462):
\* an engine that nobody leases has a timer that will close it.
IdleEngineCloses ==
  Usable /\ (\A c \in Callers : caller[c].pc = "idle") => shared.timer \/ shared.engine \in fired
=============================================================================
