-------------------------- MODULE HeadlessEvaluation --------------------------
(***************************************************************************)
(* A headless evaluation (evaluate.ts): the cells without a view, the      *)
(* values they have for readers (notebook-values.ts), their diagnostics    *)
(* (diagnostics.ts, cell-evaluation.ts), and the requests of the engine    *)
(* service (service.ts) that wait for them: reads (read.ts), readiness     *)
(* (ready.ts) and discovery.                                               *)
(*                                                                         *)
(* A cell has one value: that of its name, or of the cell when it has no   *)
(* name.  A read keeps the entry it resolved with; `moved' is TRUE once    *)
(* the cell has another, which is all that comparing revisions tells.      *)
(* `handle' marks a read that names the entry in advance, by the revision  *)
(* of a dataset description.  Generators are left to NotebookMount.        *)
(***************************************************************************)
EXTENDS CellRuntime, ReadbackWire

CONSTANTS
  Reads, Checkpoints,   \* requests: reads, and those for readiness or discovery
  MaxChanges            \* bound on changes of the variables

ASSUME HeadlessAssumption == Generators = {} /\ Marred = {} /\ Reads \cap Checkpoints = {}

VARIABLES
  closed,       \* the evaluation is disposed
  entries,      \* NotebookValues: the status of each cell's entry
  errors,       \* DiagnosticCollector: the channels with a diagnostic of each cell
  request,      \* the requests of the service
  changes

state == <<es, cs, phase, detached>>
vars == <<es, cs, phase, detached, closed, entries, errors, request, changes>>

Requests == Reads \cup Checkpoints

Waiting(r) == request[r].stage = "waiting"

ValueChannel(c) == IF c \in Exposing THEN "variable" ELSE "display"

-----------------------------------------------------------------------------
(* NotebookValues: operators on the pair of entries and requests. *)

Values == [entries |-> entries, request |-> request]

\* The check of a read that waits, or starts, when its entry has this status.
Checked(q, status) ==
  [q EXCEPT !.stage = CASE q.moved            -> "failed"
                        [] status = "pending" -> "waiting"
                        [] status = "success" -> "resolved"
                        [] OTHER              -> "failed"]

\* A read of a cell whose entry is replaced by one with this status.
Reader(q, status) ==
  IF q.stage = "waiting" THEN Checked(q, status)
  ELSE IF q.stage \in {"handle", "resolved", "converting"} THEN [q EXCEPT !.moved = TRUE] ELSE q

\* Mutant: a settled value wakes nobody.
Settlers_asleep(v, moved) == v

\* The check of settle.
Settlers(v, moved) ==
  [v EXCEPT !.request = [r \in Requests |->
     IF @[r].op = "discover" /\ @[r].stage = "waiting" /\ (moved \/ \A c \in Cells : v.entries[c] # "pending")
     THEN [@[r] EXCEPT !.stage = "resolved"] ELSE @[r]]]

\* #set: the readers of the cell look at its new entry.
SetValue(v, c, status) ==
  Settlers([entries |-> [v.entries EXCEPT ![c] = status],
            request |-> [r \in Requests |->
              IF r \in Reads /\ v.request[r].cell = c THEN Reader(v.request[r], status) ELSE v.request[r]]],
           FALSE)

\* invalidate: whoever waits has missed the epoch, and the cells have no value.
NewEpoch(v, cells) ==
  LET failed == [r \in Requests |->
                   IF r \in Reads /\ v.request[r].stage = "waiting" THEN [v.request[r] EXCEPT !.stage = "failed"]
                   ELSE IF r \in Reads /\ v.request[r].cell \in cells THEN Reader(v.request[r], "pending")
                   ELSE v.request[r]]
  IN Settlers([entries |-> [c \in Cells |-> IF c \in cells THEN "pending" ELSE v.entries[c]], request |-> failed], TRUE)

\* A settlement that was queued when a read failed runs before the read's caller hears of it.
Queued(requests) ==
  [r \in Requests |->
     IF requests[r].stage = "failed" /\ request[r].stage # "failed"
     THEN [requests[r] EXCEPT !.behind = es'.settlement # NoRevision] ELSE requests[r]]

Assign(v) == entries' = v.entries /\ request' = Queued(v.request)

-----------------------------------------------------------------------------
(* readyState: what its check decides after a change.  Diagnostics of the   *)
(* runtime itself, which end the wait at once, are left out.                *)

Settled(s) == s.inputRevision # NoRevision /\ s.pending = {} /\ s.inputRevision = s.settledRevision

Diagnosed(e) == {c \in Cells : e[c] # {}}

\* Mutant: nobody asks whether the inputs are settled.
Ready_early(q, s, e) == [q EXCEPT !.stage = IF s.pending = {} THEN "resolved" ELSE @]

Ready(q, s, e) ==
  [q EXCEPT !.stage = IF ~Settled(s) THEN "waiting" ELSE IF Diagnosed(e) # {} THEN "failed" ELSE "resolved"]

\* Everyone who waits for readiness looks.
Look(v) ==
  [v EXCEPT !.request = [r \in Requests |->
     IF @[r].op = "ready" /\ @[r].stage = "waiting" THEN Ready(@[r], es', errors') ELSE @[r]]]

Settle(v) == Assign(Look(v))

-----------------------------------------------------------------------------
(* Starting *)

\* start: the aborted generation ends every read, the values are registered again.
StartCells(s, owned) ==
  LET fresh == Rendered(s, owned) IN
  /\ es' = fresh.es /\ cs' = fresh.cs
  /\ phase' = [c \in Cells |-> [ch \in {"display", "variable"} |->
                 IF ch \in Observed(c, owned) THEN "dirty" ELSE "unobserved"]]
  /\ detached' = owned
  /\ errors' = [c \in Cells |-> IF c \in Broken THEN {"analysis"} ELSE {}]

Registered == [c \in Cells |-> IF c \in Broken THEN "error" ELSE "pending"]

Aborted(q) ==
  IF q.stage = "waiting" THEN [q EXCEPT !.stage = "failed"]
  ELSE IF q.stage \in {"resolved", "converting", "handle"} THEN [q EXCEPT !.moved = TRUE] ELSE q

Restart(s, owned) ==
  /\ StartCells(s, owned)
  /\ LET v == NewEpoch([Values EXCEPT !.request = [r \in Requests |-> IF r \in Reads THEN Aborted(@[r]) ELSE @[r]]], Cells)
     IN Settle([v EXCEPT !.entries = Registered])

Init ==
  \E owned \in SUBSET Ownable :
    LET fresh == Rendered(InitialState, owned) IN
    /\ es = fresh.es /\ cs = fresh.cs
    /\ phase = [c \in Cells |-> [ch \in {"display", "variable"} |->
                  IF ch \in Observed(c, owned) THEN "dirty" ELSE "unobserved"]]
    /\ detached = owned
    /\ closed = FALSE
    /\ entries = Registered
    /\ errors = [c \in Cells |-> IF c \in Broken THEN {"analysis"} ELSE {}]
    /\ request = [r \in Requests |-> [op |-> IF r \in Reads THEN "read" ELSE "none", stage |-> "idle",
                                       cell |-> CHOOSE c \in Cells : TRUE, moved |-> FALSE, behind |-> FALSE]]
    /\ changes = 0

-----------------------------------------------------------------------------
(* Variables *)

Change == ~closed /\ changes < MaxChanges /\ changes' = changes + 1

\* What becomes a constant with the name of the cell.
Constant(c, ch) == ch = "variable" \/ c \notin Apart

\* The name is to have a new value: its own, once it is a constant.
Renewing(c) ==
  \E ch \in {"display", "variable"} :
    (c \in detached => Constant(c, ch)) /\ phase[c][ch] \in {"dirty", "running"}

\* updateVariables: the affected cells lose diagnostics, values and results.
BeginUpdate(roots) ==
  /\ Change
  /\ BeginAffected(roots)
  /\ errors' = [c \in Cells |-> IF c \in Affected(roots) THEN {} ELSE errors[c]]
  /\ Settle(NewEpoch(Values, Affected(roots)))
  /\ UNCHANGED <<cs, closed>>

UpdateVariable(roots) ==
  /\ BeginUpdate(roots)
  /\ Mark(Reevaluated(roots), "dirty")
  /\ UNCHANGED detached

\* A name of a cell becomes a constant, or the constant changes.
UpdateName(c) ==
  /\ c \in Views => c \in detached
  /\ BeginUpdate({c})
  /\ detached' = detached \cup {c}
  /\ Mark(({c} \X {ch \in {"display", "variable"} : Constant(c, ch) /\ phase[c][ch] # "unobserved"})
            \cup Reevaluated(Dependents(c)), "dirty")

\* A view's name starts everything again.
UpdateNewView(v) ==
  /\ v \in Views \ detached
  /\ Change
  /\ Restart(Invalidate(es), detached \cup {v})
  /\ UNCHANGED closed

ReplaceVariables(owned) ==
  /\ Change
  /\ Restart(Invalidate(es), owned)
  /\ UNCHANGED closed

Dispose ==
  /\ ~closed /\ closed' = TRUE
  /\ es' = Close(es) /\ phase' = Unrun
  /\ request' = [r \in Requests |-> Aborted(request[r])]
  /\ entries' = [c \in Cells |-> "pending"]
  /\ UNCHANGED <<cs, detached, errors, changes>>

-----------------------------------------------------------------------------
(* The Observable runtime and the observers of the cells *)

ComputeNow ==
  /\ ~closed /\ Frame /\ AnnounceAll
  /\ LET dirty == Variables("dirty")
         lost == {c \in Cells : <<c, ValueChannel(c)>> \in dirty}
         set[cells \in SUBSET Cells] ==
           IF cells = {} THEN Values
           ELSE LET c == CHOOSE c \in cells : TRUE IN SetValue(set[cells \ {c}], c, "pending")
     IN /\ errors' = [c \in Cells |-> IF <<c, "display">> \in dirty THEN {} ELSE errors[c]]
        /\ Settle(set[lost])
  /\ UNCHANGED <<detached, closed, changes>>

\* Mutant: only the display's own errors are reported.
Reported_once(c, ch, outcome) ==
  IF outcome = "error" /\ errors[c] = {} /\ c \in Exposing /\ ch = "variable"
  THEN [errors EXCEPT ![c] = @ \cup {"variable"}] ELSE errors

\* A variable's error is the cell's, if it has one.
Reported(c, ch, outcome) ==
  IF outcome # "error" THEN errors
  ELSE IF ch = "display" THEN [errors EXCEPT ![c] = @ \cup {"evaluation"}]
  ELSE [errors EXCEPT ![c] = IF "evaluation" \in @ THEN @ ELSE @ \cup {"variable"}]

Evaluated(c, ch, outcome) ==
  /\ phase[c][ch] = "running"
  /\ IF c \in detached /\ Constant(c, ch) THEN outcome = "success" ELSE \A u \in Upstream[c] : ~Renewing(u)
  /\ ch = "variable" => phase[c]["display"] \notin {"dirty", "running"} \/ c \in detached \cap Apart
  /\ ch = "variable" /\ c \notin detached => outcome = phase[c]["display"]
  /\ Mark({<<c, ch>>}, outcome)

Finish(c, ch, outcome) ==
  /\ Evaluated(c, ch, outcome)
  /\ Delivered(c, ch, outcome)
  /\ errors' = Reported(c, ch, outcome)
  /\ Settle(IF ch = ValueChannel(c) THEN SetValue(Values, c, outcome) ELSE Values)
  /\ UNCHANGED <<detached, closed, changes>>

Microtask ==
  /\ es.settlement # NoRevision
  /\ es' = RunSettlement(es)
  /\ UNCHANGED <<errors, cs, phase, detached, closed, changes>>
  /\ Settle(Values)

-----------------------------------------------------------------------------
(* Requests *)

Become(r, q) == UNCHANGED <<state, closed, entries, errors, changes>> /\ request' = Queued([request EXCEPT ![r] = q])

To(r, stage) == Become(r, [request[r] EXCEPT !.stage = stage])

\* Requests arrive when no microtask is left.
Arrives(r) == request[r].stage = "idle" /\ es.settlement = NoRevision

\* A dataset description names the entry it describes.
Describe(r, c) ==
  /\ r \in Reads /\ Arrives(r) /\ ~closed /\ entries[c] = "success"
  /\ Become(r, [request[r] EXCEPT !.stage = "handle", !.cell = c])

Read(r, c) ==
  /\ r \in Reads
  /\ \/ Arrives(r)
     \/ request[r].stage = "handle" /\ request[r].cell = c
  /\ IF closed THEN To(r, "failed")
     ELSE Become(r, Checked([request[r] EXCEPT !.cell = c], entries[c]))

AskReady(r) ==
  /\ r \in Checkpoints /\ Arrives(r)
  /\ LET q == [request[r] EXCEPT !.op = "ready"]
     IN Become(r, IF closed THEN [q EXCEPT !.stage = "failed"] ELSE Ready(q, es, errors))

\* settle: resolved at once when nothing is pending.
Discover(r) ==
  /\ r \in Checkpoints /\ Arrives(r)
  /\ Become(r, [request[r] EXCEPT !.op = "discover",
       !.stage = IF closed THEN "failed" ELSE IF \E c \in Cells : entries[c] = "pending" THEN "waiting" ELSE "resolved"])

\* The caller's signal, or that of a deadline: it ends a wait now and a conversion later.
Abort(r) ==
  /\ request[r].stage \in {"waiting", "resolved", "converting"} /\ ~request[r].moved
  /\ Become(r, Aborted(request[r]))

\* The continuation of a read converts the value, which may fail.
Convert(r) ==
  /\ r \in Reads /\ request[r].stage = "resolved"
  /\ \E stage \in {"converting", "failed"} : To(r, stage)

\* Mutant: what changed during the conversion does not matter.
Complete_anyway(r) ==
  /\ r \in Reads /\ request[r].stage = "converting"
  /\ To(r, "value")

Complete(r) ==
  /\ r \in Reads /\ request[r].stage = "converting"
  /\ To(r, IF request[r].moved THEN "failed" ELSE "value")

\* The service answers with a snapshot, which Python's ready() looks at again.
Answer(r) ==
  /\ r \in Checkpoints /\ request[r].stage = "resolved"
  /\ To(r, CASE request[r].op = "discover"                 -> "value"
             [] request[r].moved                            -> "failed"
             [] Diagnosed(errors) # {} \/ ~Settled(es)      -> "stale"
             [] OTHER                                       -> "value")

\* A failed read is answered with its error and a snapshot of the evaluation.
Refuse(r) ==
  /\ r \in Reads /\ request[r].stage = "failed" /\ ~closed
  /\ request[r].behind => es.settlement = NoRevision
  /\ To(r, "refused")

Next ==
  \/ \E roots \in InputRoots : UpdateVariable(roots)
  \/ \E c \in Ownable : UpdateName(c) \/ UpdateNewView(c)
  \/ \E owned \in SUBSET Ownable : ReplaceVariables(owned)
  \/ Dispose \/ ComputeNow \/ Microtask
  \/ \E c \in Cells, ch \in {"display", "variable"}, outcome \in Terminal : Finish(c, ch, outcome)
  \/ \E r \in Requests : AskReady(r) \/ Discover(r) \/ Abort(r) \/ Convert(r) \/ Complete(r) \/ Answer(r) \/ Refuse(r)
                         \/ \E c \in Cells : Describe(r, c) \/ Read(r, c)

\* Frames, microtasks and conversions keep coming and evaluations end.  The Observable
\* runtime's part of a step is enabled exactly when the whole step is.
Fairness ==
  /\ WF_phase(Frame) /\ WF_es(Microtask)
  /\ \A c \in Cells, ch \in {"display", "variable"} : WF_phase(\E outcome \in Terminal : Evaluated(c, ch, outcome))
  /\ \A r \in Requests : WF_request(Convert(r) \/ Complete(r) \/ Answer(r))

Spec == Init /\ [][Next]_vars /\ Fairness

-----------------------------------------------------------------------------
\* No value that this cell's name comes from is to be renewed.
Fresh(c) ==
  \A u \in Cells :
    u = c \/ (c \notin detached /\ c \in Reached(Dependents(u), Cells \ detached)) => ~Renewing(u)

\* A read returns what the current inputs give, whatever was changed, restarted or
\* taken over while it waited or converted (runtime/README.md:221).
ReadsAreCurrent ==
  [][\A r \in Reads : request'[r].stage = "value" /\ request[r].stage # "value" =>
       entries[request[r].cell] = "success" /\ Fresh(request[r].cell)]_vars

\* Once the inputs are settled the three records agree: a cell with an error has a
\* diagnostic, no other has one, and a cell without one can be read.
RecordsAgree ==
  ~closed /\ Settled(es) => \A c \in Selected :
    /\ es.results[c].status = "error" <=> errors[c] # {}
    /\ errors[c] = {} => entries[c] = "success"

\* What ready() resolved with are fresh results of every selected cell.
ReadyIsFresh ==
  [][\A r \in Checkpoints : request'[r].op = "ready" /\ request'[r].stage = "resolved" /\ request[r].stage # "resolved" =>
       \A c \in Selected : es'.results[c].status = "success" /\ Fresh(c)']_vars

\* The snapshot that goes with a failed read is one that Python accepts
\* ("non-pending readback must be settled", _readback.py:63).
RefusalsAreAccepted ==
  [][\A r \in Reads : request'[r].stage = "refused" /\ request[r].stage # "refused" => Accepted(es)]_vars

\* Every request that waits is answered, or fails, without any signal.
RequestsEnd == \A r \in Requests : Waiting(r) ~> ~Waiting(r)
=============================================================================
