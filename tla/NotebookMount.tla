----------------------------- MODULE NotebookMount -----------------------------
(***************************************************************************)
(* A mounted notebook: cells and their evaluation (CellRuntime), and the   *)
(* host's and the user's input changes (mount.ts, inputs.ts,               *)
(* view-inputs.ts).                                                        *)
(***************************************************************************)
EXTENDS CellRuntime

CONSTANTS
  Surprises,     \* which of "write fails", "view fails" and "override" can happen
  MaxChanges     \* bound on input changes, yields and replacements

ASSUME MountAssumption ==
  /\ Ownable \cap Apart = {}
  /\ Surprises \subseteq {"write fails", "view fails", "override"}

VARIABLES
  active,     \* the mount has a live runtime session
  control,    \* the control registered for each view
  restores,   \* a new control of the view will be written with a host value
  awaited,    \* host writes and control events that have not been delivered
  changes,    \* the number of changes so far
  surprised   \* history: a control was overridden, or failed to take a value

vars == <<es, cs, active, phase, detached, control, restores, awaited, changes, surprised>>

-----------------------------------------------------------------------------
(* Renders *)

\* A render of the state s, the host giving values for the names of these cells.
Render(s, owned, written) ==
  /\ es' = Rendered(s, owned).es
  /\ cs' = Rendered(s, owned).cs
  /\ phase' = [c \in Cells |-> [ch \in {"display", "variable"} |->
                 IF ch \in Observed(c, owned) THEN "dirty" ELSE "unobserved"]]
  /\ detached' = owned
  /\ control' = [v \in Views |-> "none"]
  /\ restores' = written
  /\ awaited' = [v \in Views |-> {}]
  /\ active' = TRUE

Init ==
  /\ es = InitialState
  /\ cs = [c \in Cells |-> Unconfigured]
  /\ active = FALSE
  /\ phase = Unrun
  /\ detached = {}
  /\ control = [v \in Views |-> "none"]
  /\ restores = {}
  /\ awaited = [v \in Views |-> {}]
  /\ changes = 0
  /\ surprised = FALSE

Mount(owned, written) ==
  /\ es.attempt = 0 /\ ~es.closed
  /\ Render(es, owned, written)
  /\ UNCHANGED changes

Change == active /\ changes < MaxChanges /\ changes' = changes + 1

\* replaceVariables, with host values for the given names.
Replace(owned, written) ==
  /\ Change
  /\ Render(Invalidate(es), owned, written)

-----------------------------------------------------------------------------
(* Input changes *)

\* updateVariables with a name that no cell defines.
UpdateVariable(roots) ==
  /\ Change
  /\ BeginAffected(roots)
  /\ Mark(Reevaluated(roots), "dirty")
  /\ UNCHANGED <<cs, active, detached, control, restores, awaited>>

\* updateVariables with a name that the cell c defines: the name is redefined
\* as a constant.
TakeName(c) ==
  /\ Change
  /\ BeginAffected({c})
  /\ detached' = detached \cup {c}
  /\ Mark(({c} \X {ch \in {"display", "variable"} : phase[c][ch] # "unobserved"})
            \cup Reevaluated(Dependents(c)), "dirty")
  /\ UNCHANGED <<cs, active, control, restores, awaited>>

\* updateVariables with a view's name: the value is awaited before it is written.
UpdateView(v) ==
  /\ Change
  /\ BeginAffected({v})
  /\ restores' = restores \cup {v}
  /\ awaited' = IF control[v] = "none" THEN awaited ELSE [awaited EXCEPT ![v] = @ \cup {"write"}]
  /\ UNCHANGED <<cs, active, phase, detached, control>>

\* An input event of a control, or setInputs.
Interact(v) ==
  /\ Change
  /\ control[v] # "none"
  /\ BeginAffected({v})
  /\ restores' = restores \ {v}
  /\ awaited' = IF control[v] = "live" /\ v \notin detached
                THEN [awaited EXCEPT ![v] = @ \cup {"yield"}] ELSE awaited
  /\ UNCHANGED <<cs, active, phase, detached, control>>

\* The end of write in inputs.ts, for the newest value.
WriteApplied(v) ==
  /\ "write" \in awaited[v]
  /\ IF v \in detached
     THEN /\ detached' = detached \ {v}
          /\ Mark({<<v, "variable">>} \cup Reevaluated(Dependents(v)), "dirty")
          /\ awaited' = [awaited EXCEPT ![v] = @ \ {"write"}]
     ELSE /\ awaited' = [awaited EXCEPT ![v] = (@ \ {"write"}) \cup
                           (IF control[v] = "live" THEN {"yield"} ELSE {})]
          /\ UNCHANGED <<phase, detached>>
  /\ UNCHANGED <<es, cs, active, control, restores, changes>>

\* The control cannot hold the value, or the value is a rejected promise: the
\* name becomes a constant, and the control's events reach no variable.
WriteOverridden(v) ==
  /\ "override" \in Surprises
  /\ "write" \in awaited[v]
  /\ detached' = detached \cup {v}
  /\ Mark({<<v, "variable">>} \cup Reevaluated(Dependents(v)), "dirty")
  /\ awaited' = [awaited EXCEPT ![v] = {}]
  /\ UNCHANGED <<es, cs, active, control, restores, changes>>

\* The control's setter throws: inputError.
WriteFailed(v) ==
  /\ "write fails" \in Surprises
  /\ "write" \in awaited[v]
  /\ es' = Fail(es, es.attempt)
  /\ awaited' = [awaited EXCEPT ![v] = @ \ {"write"}]
  /\ UNCHANGED <<cs, active, phase, detached, control, restores, changes>>

-----------------------------------------------------------------------------
(* The Observable runtime *)

\* The next frame: every dirty variable starts.
ComputeNow ==
  /\ Frame
  /\ AnnounceAll
  /\ UNCHANGED <<active, detached, control, restores, awaited, changes>>

Evaluated(c, ch, outcome) ==
  /\ phase[c][ch] = "running"
  /\ \A u \in Upstream[c] : ~Busy(u)
  /\ ch = "variable" => phase[c]["display"] \notin {"dirty", "running"}
  /\ c \in Views /\ ch = "display" /\ outcome = "error" => "view fails" \in Surprises
  /\ c \in Views \ detached /\ ch = "variable" => outcome = phase[c]["display"]
  /\ Mark({<<c, ch>>}, outcome)

\* An evaluation's value or error reaches its observer; a view's element is
\* registered before its cell hears of it (register in view-inputs.ts).
Finish(c, ch, outcome) ==
  /\ Evaluated(c, ch, outcome)
  /\ Delivered(c, ch, outcome)
  /\ IF c \in Views /\ ch = "display"
     THEN IF outcome = "success"
          THEN /\ control' = [control EXCEPT ![c] = "live"]
               /\ awaited' = [awaited EXCEPT ![c] = IF c \in restores THEN {"write"} ELSE {}]
          ELSE /\ control' = [control EXCEPT ![c] = IF @ = "none" THEN "none" ELSE "dead"]
               /\ awaited' = [awaited EXCEPT ![c] = @ \ {"yield"}]
     ELSE UNCHANGED <<control, awaited>>
  /\ UNCHANGED <<active, detached, restores, changes>>

\* A later value of a control or a generator reaches the cell's variable, and
\* what depends on it becomes dirty.
Yields(v) ==
  /\ "yield" \in awaited[v]
  /\ ~Busy(v)
  /\ awaited' = [awaited EXCEPT ![v] = @ \ {"yield"}]
  /\ Mark(Reevaluated(Dependents(v)), "dirty")

YieldControl(v) ==
  /\ Yields(v)
  /\ Delivered(v, "variable", "success")
  /\ UNCHANGED <<active, detached, control, restores, changes>>

YieldGenerator(c) ==
  /\ Change
  /\ c \notin detached /\ phase[c]["variable"] = "success" /\ ~Busy(c)
  /\ Delivered(c, "variable", "success")
  /\ Mark(Reevaluated(Dependents(c)), "dirty")
  /\ UNCHANGED <<active, detached, control, restores, awaited>>

-----------------------------------------------------------------------------

Microtask ==
  /\ es.settlement # NoRevision
  /\ es' = RunSettlement(es)
  /\ UNCHANGED <<cs, active, phase, detached, control, restores, awaited, changes>>

Dispose ==
  /\ active
  /\ es' = Close(es)
  /\ active' = FALSE
  /\ phase' = Unrun
  /\ awaited' = [v \in Views |-> {}]
  /\ UNCHANGED <<cs, detached, control, restores, changes>>

Expected ==
  \/ \E owned \in SUBSET Ownable, written \in SUBSET Views :
       Mount(owned, written) \/ Replace(owned, written)
  \/ \E roots \in InputRoots : UpdateVariable(roots)
  \/ \E c \in Ownable : TakeName(c)
  \/ \E v \in Views : UpdateView(v) \/ Interact(v) \/ WriteApplied(v) \/ YieldControl(v)
  \/ ComputeNow
  \/ \E c \in Cells, ch \in {"display", "variable"}, outcome \in Terminal : Finish(c, ch, outcome)
  \/ \E c \in Generators : YieldGenerator(c)
  \/ Microtask
  \/ Dispose

Unexpected == \E v \in Views : WriteOverridden(v) \/ WriteFailed(v)

Next ==
  \/ Expected /\ UNCHANGED surprised
  \/ Unexpected /\ surprised' = TRUE

\* Frames, microtasks and awaited writes keep coming, and a cell's evaluation is
\* assumed to end, one way or the other.  The Observable runtime's part of a step
\* is enabled exactly when the whole step is.
Fairness ==
  /\ WF_phase(Frame)
  /\ WF_es(Microtask)
  /\ \A v \in Views : WF_awaited(WriteApplied(v) \/ WriteOverridden(v) \/ WriteFailed(v))
                      /\ WF_awaited(Yields(v))
  /\ \A c \in Cells, ch \in {"display", "variable"} :
       WF_phase(\E outcome \in Terminal : Evaluated(c, ch, outcome))

Spec == Init /\ [][Next]_vars /\ Fairness

-----------------------------------------------------------------------------
(* Properties *)

Reaches(c) == {u \in Cells : c \in Reached({u}, Cells)}

Working(c) == \E u \in Reaches(c) : Busy(u) \/ (u \in Views /\ awaited[u] # {})

\* A cell is reported pending only while something that leads to it is still to
\* be evaluated, written or delivered ("Whether selected results are still
\* evaluating", packages/runtime/README.md:105), as long as every control takes the
\* values it is given.
PendingMeansEvaluating == active /\ ~surprised => \A c \in es.pending : Working(c)

\* Once nothing is left to evaluate, a finished cell is reported as failed
\* exactly when the last outcome of one of its channels is an error, or when its
\* failure was permanent (statuses, errors and settleIfReady in cell-state.ts).
ResultsMatchOutcomes ==
  active /\ (\A c \in Cells : ~Working(c)) =>
    \A c \in Selected : es.results[c].status \in Terminal =>
      (es.results[c].status = "error"
         <=> c \in Broken \cup Marred \/ \E ch \in {"display", "variable"} : phase[c][ch] = "error")

\* After an input event of a control, the cells that depend on it have no
\* finished result in the revision it opened before its value reaches them
\* ("Results from older revisions are ignored.",
\* apps/docs/docs/reference/values-and-graph.mdx:35).
OldWorkIsIgnored ==
  \A v \in Views, c \in Cells :
    "yield" \in awaited[v] /\ c \in Reached(Dependents(v), Cells) \ {v} =>
      ~(es.results[c].status \in Terminal /\ es.results[c].revision = es.inputRevision)

\* A host that finds both revisions equal finds every shown result computed from
\* the inputs of that revision.
SettledMeansFresh ==
  active /\ es.inputRevision = es.settledRevision => \A c \in Selected : ~Working(c)

\* Every revision settles, or a later one does, or the mount is disposed, as long
\* as every control takes the values it is given.
EventuallySettled ==
  (active /\ es.inputRevision # es.settledRevision)
    ~> (~active \/ es.inputRevision = es.settledRevision \/ surprised)
=============================================================================
