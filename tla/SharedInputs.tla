------------------------------ MODULE SharedInputs ------------------------------
(***************************************************************************)
(* Values that Python and several browser views of one notebook write      *)
(* under the same names: Python's variables (_controller.py), the widget   *)
(* session that carries them (_widget_session.py), and in the browser one  *)
(* session model that all views share (view.ts), with what each view's     *)
(* mount does with its controls (mount.ts, inputs.ts, view-inputs.ts).     *)
(*                                                                         *)
(* A handler of the browser and every change event it causes are one step, *)
(* the microtasks that write controls included.  Every name is a control   *)
(* that can represent every value.  External: the comm, which keeps each   *)
(* direction in order and does not echo what the browser sent, and         *)
(* the order in which a message's traits raise their events.               *)
(***************************************************************************)
EXTENDS Integers, Sequences, SequencesExt, Functions

CONSTANTS
  SharedNames,  \* names that are variables for Python and controls in the notebook
  Values,       \* values the protocol can share
  Local,        \* values it cannot: files, functions, DOM elements
  Views,        \* places where the notebook may be displayed
  Default,      \* what a control shows when nobody has set it
  MaxUpdates,   \* bound on Python's updates
  MaxInputs,    \* bound on interactions
  MaxMounts     \* bound on mounts

\* What the constants satisfy.
SharedAssumption ==
  /\ Values \cap Local = {} /\ Default \notin Values \cup Local
  /\ {MaxUpdates, MaxInputs, MaxMounts} \subseteq Nat

VARIABLES
  python,     \* the controller: variables, _view_values, _variable_update_seq
  browser,    \* the session model, the views in their order of subscription, what was sent
  toBrowser,  \* messages from Python
  toPython,   \* messages from the browser: whole _view_values mappings
  count,      \* interactions and mounts so far
  history     \* since a view applied Python's last value of a name: `touched', those that a
              \* user set, `undone', those whose input an update of other names changed

sharedVars == <<python, browser, toBrowser, toPython, count, history>>

Mappings(S) == UNION {[names -> S] : names \in SUBSET SharedNames}

Empty == Restrict(<<>>, {})

Without(map, names) == Restrict(map, DOMAIN map \ names)

\* What the first mapping says wins.
Over(first, second) ==
  [n \in DOMAIN first \cup DOMAIN second |-> IF n \in DOMAIN first THEN first[n] ELSE second[n]]

Only(n, x) == [m \in {n} |-> x]

-----------------------------------------------------------------------------
(* The browser. *)

\* What a control shows once it is registered: a shared input wins over a variable.
Rendered(inputs, variables) == Over(Over(inputs, variables), [n \in SharedNames |-> Default])

\* What mountView and its mount keep: `shared' and `last' are sharedValues and
\* lastSequence, `inputs' and `variables' the mount's, `control' what controls show.
Mounted(model) ==
  [shared |-> model.inputs, last |-> model.update.seq, inputs |-> model.inputs,
   variables |-> model.variables, control |-> Rendered(model.inputs, model.variables)]

\* setInputs: values that differ from the mount's are written into their controls.
SetInputs(view, next) ==
  LET changed == {n \in DOMAIN next : n \notin DOMAIN view.inputs \/ view.inputs[n] # next[n]}
  IN [view EXCEPT !.inputs = next, !.control = Over(Restrict(next, changed), @)]

OnSharedInputs(b, v) ==
  [b EXCEPT !.view[v] = SetInputs([@ EXCEPT !.shared = b.model.inputs], b.model.inputs)]

\* The change event of _view_values; a publisher ignores its own.
InputsChanged(b, publishers) ==
  FoldLeft(LAMBDA acc, v : IF v \in publishers THEN acc ELSE OnSharedInputs(acc, v), b, b.live)

\* Mutant: publishing raises no change event in the other views.
SetShared_silent(b, next, publishers) ==
  IF b.model.inputs = next \/ publishers # {} THEN [b EXCEPT !.model.inputs = next]
  ELSE InputsChanged([b EXCEPT !.model.inputs = next], {})

\* model.set of _view_values.
SetShared(b, next, publishers) ==
  IF b.model.inputs = next THEN b ELSE InputsChanged([b EXCEPT !.model.inputs = next], publishers)

\* save_changes sends what set has changed.
Save(before, after) ==
  IF after.model.inputs = before.model.inputs THEN after
  ELSE [after EXCEPT !.out = Append(@, after.model.inputs)]

\* A view takes names out of what the views share.
ClearInputs(b, v, names) ==
  LET next == Without(b.view[v].shared, names)
  IN IF next = b.view[v].shared THEN b
     ELSE Save(b, SetShared([b EXCEPT !.view[v].shared = next], next, {}))

UpdateVariables(view, values) ==
  [view EXCEPT !.inputs = Without(@, DOMAIN values), !.variables = Over(values, @),
               !.control = Over(values, @)]

\* The mount renders again: every control starts anew.
ReplaceVariables(view, values) ==
  LET kept == Without(view.inputs, DOMAIN view.variables \cup DOMAIN values)
  IN [view EXCEPT !.inputs = kept, !.variables = values, !.control = Rendered(kept, values)]

OnVariables(b, v) ==
  LET patch == b.model.update
      seen == [b EXCEPT !.view[v].last = patch.seq]
  IN CASE patch.seq <= b.view[v].last -> b
       [] patch.seq > b.view[v].last /\ patch.kind = "set" ->
            [ClearInputs(seen, v, DOMAIN patch.values)
               EXCEPT !.view[v] = UpdateVariables(@, patch.values)]
       [] patch.seq > b.view[v].last /\ patch.kind = "replace" ->
            [ClearInputs(seen, v, DOMAIN b.model.variables \cup DOMAIN patch.values)
               EXCEPT !.view[v] = ReplaceVariables(@, patch.values)]

VariablesChanged(b) == FoldLeft(OnVariables, b, b.live)

-----------------------------------------------------------------------------
SharedInit ==
  /\ python = [variables |-> Empty, inputs |-> Empty, seq |-> 0]
  /\ browser = [model |-> [variables |-> Empty, inputs |-> Empty,
                           update |-> [seq |-> 0, kind |-> "none", values |-> Empty]],
                live |-> <<>>, view |-> Empty, out |-> <<>>]
  /\ toBrowser = <<>> /\ toPython = <<>>
  /\ count = [inputs |-> 0, mounts |-> 0]
  /\ history = [touched |-> {}, undone |-> {}]

\* The browser after a turn; what it saved is on its way.
Turn(b) ==
  /\ browser' = [b EXCEPT !.out = <<>>]
  /\ toPython' = toPython \o b.out

\* mountView once the session model is resolved.
MountView(v) ==
  /\ v \notin ToSet(browser.live) /\ count.mounts < MaxMounts
  /\ browser' = [browser EXCEPT !.live = Append(@, v),
                                !.view = Over(Only(v, Mounted(browser.model)), @)]
  /\ count' = [count EXCEPT !.mounts = @ + 1]
  /\ UNCHANGED <<python, toBrowser, toPython, history>>

\* The view's signal is aborted: it is left or renders again.
Abort(v) ==
  /\ \E i \in DOMAIN browser.live :
       /\ browser.live[i] = v
       /\ browser' = [browser EXCEPT !.live = RemoveAt(@, i), !.view = Without(@, {v})]
  /\ UNCHANGED <<python, toBrowser, toPython, count, history>>

\* A user sets a control.
PublishInput(b, v, n, x) ==
  IF x \in Local \/ (n \in DOMAIN b.view[v].shared /\ b.view[v].shared[n] = x) THEN b
  ELSE LET next == Over(Only(n, x), b.view[v].shared)
       IN Save(b, SetShared([b EXCEPT !.view[v].shared = next], next, {v}))

Interact(v, n, x) ==
  /\ v \in ToSet(browser.live) /\ count.inputs < MaxInputs
  /\ browser.view[v].control[n] # x
  /\ LET typed == [browser EXCEPT !.view[v].control[n] = x]
         inputs == browser.view[v].inputs
     IN \/ n \in DOMAIN inputs /\ inputs[n] = x /\ Turn(typed)
        \/ ~(n \in DOMAIN inputs /\ inputs[n] = x)
           /\ Turn(PublishInput([typed EXCEPT !.view[v].inputs = Over(Only(n, x), @)], v, n, x))
  /\ count' = [count EXCEPT !.inputs = @ + 1]
  /\ history' = [history EXCEPT !.touched = @ \cup {n}]
  /\ UNCHANGED <<python, toBrowser>>

\* Python's three mutations end here: _clear_view_values, _variables and
\* _variable_update change under one hold, and the session sends what differs.
Publishes(kind, values, variables, names) ==
  LET cleared == names \cap DOMAIN python.inputs
      update == [seq |-> python.seq + 1, kind |-> kind, values |-> values]
  IN /\ python.seq < MaxUpdates
     /\ python' = [variables |-> variables, inputs |-> Without(python.inputs, cleared),
                   seq |-> python.seq + 1]
     /\ toBrowser' = Append(toBrowser, [variables |-> variables, update |-> update,
                                        withInputs |-> cleared # {}, inputs |-> python'.inputs])
     /\ UNCHANGED <<browser, toPython, count, history>>

Differs(values, n) == n \notin DOMAIN python.variables \/ python.variables[n] # values[n]

PatchVariables(values) ==
  LET changed == {n \in DOMAIN values : n \in DOMAIN python.inputs \/ Differs(values, n)}
      patch == Restrict(values, changed)
  IN /\ changed # {}
     /\ Publishes("set", patch, Over(patch, python.variables), DOMAIN values)

Replacement(values) ==
  LET names == DOMAIN python.variables \cup DOMAIN values
  IN /\ values # python.variables \/ names \cap DOMAIN python.inputs # {}
     /\ Publishes("replace", values, values, names)

ResetVariables(names) ==
  /\ names \cap DOMAIN python.variables # {}
  /\ Replacement(Without(python.variables, names))

\* The frontend applies a message's traits, then raises their events in some order.
Applied(b, m) == SetShared(b, IF m.withInputs THEN m.inputs ELSE b.model.inputs, {})

\* Names about which two mappings do not agree.
Changed(before, after) ==
  {n \in DOMAIN before \cup DOMAIN after :
     ~(n \in DOMAIN before \cap DOMAIN after /\ before[n] = after[n])}

ReceiveUpdate ==
  /\ toBrowser # <<>>
  /\ LET m == Head(toBrowser)
         set == [browser EXCEPT !.model.variables = m.variables, !.model.update = m.update]
         both == [set EXCEPT !.model.inputs = IF m.withInputs THEN m.inputs ELSE @]
         applied == IF browser.live = <<>> THEN {} ELSE DOMAIN m.update.values
     IN /\ \/ Turn(VariablesChanged(Applied(set, m)))
           \/ \* _variable_update first: _view_values are set already, their event comes last
              /\ both.model.inputs # browser.model.inputs
              /\ Turn(InputsChanged(VariablesChanged(both), {}))
        /\ history' =
             [touched |-> history.touched \ applied,
              undone |->
                (history.undone \cup Changed(browser.model.inputs, both.model.inputs)) \ applied]
  /\ toBrowser' = Tail(toBrowser)
  /\ UNCHANGED <<python, count>>

\* The session's _view_values change, and _inputs copies them to the controller.
ReceiveInputs ==
  /\ toPython # <<>>
  /\ python' = [python EXCEPT !.inputs = Head(toPython)]
  /\ toPython' = Tail(toPython)
  /\ UNCHANGED <<browser, toBrowser, count, history>>

SharedNext ==
  \/ \E v \in Views : MountView(v) \/ Abort(v)
  \/ \E v \in Views, n \in SharedNames, x \in Values \cup Local : Interact(v, n, x)
  \/ \E values \in Mappings(Values) : PatchVariables(values) \/ Replacement(values)
  \/ \E names \in SUBSET SharedNames : ResetVariables(names)
  \/ ReceiveUpdate \/ ReceiveInputs

SharedSpec == SharedInit /\ [][SharedNext]_sharedVars

Quiet == toBrowser = <<>> /\ toPython = <<>>

Shown(v, n) == browser.view[v].control[n]

\* Every view holds the variables of the last update that reached the browser, whether
\* it followed the patches one by one or was mounted in between; patches carry only
\* what changed.
VariablesReachViews ==
  \A v \in ToSet(browser.live) : browser.view[v].variables = browser.model.variables

\* Views of one notebook show the same value of a variable, whoever set it, but for a
\* name that an update of other names has just set back to what Python knew.
ViewsAgree ==
  \A v, w \in ToSet(browser.live), n \in DOMAIN browser.model.variables \ history.undone :
    Shown(v, n) \notin Local /\ Shown(w, n) \notin Local => Shown(v, n) = Shown(w, n)

\* A variable set by Python is what every control shows until a user sets it again, or
\* an update of other names brings back what a user had set before.
PythonUpdateWins ==
  \A v \in ToSet(browser.live),
     n \in DOMAIN browser.model.variables \ (history.touched \cup history.undone) :
    Shown(v, n) = browser.model.variables[n]

\* An update from Python to the value it set before is only a no-op when the browser
\* has not changed the shared input.
RepeatedUpdateApplies ==
  Quiet => \A v \in ToSet(browser.live), n \in DOMAIN python.variables :
             Shown(v, n) \in Values \ {python.variables[n]} => n \in DOMAIN python.inputs
=============================================================================
