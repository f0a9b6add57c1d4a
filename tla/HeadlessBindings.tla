--------------------------- MODULE HeadlessBindings ---------------------------
(***************************************************************************)
(* A headless evaluation as Python sees it (_execution.py): calls that     *)
(* bring the engine's variables up to date with the notebook's controller  *)
(* before they ask for a value or for readiness, and the snapshots they    *)
(* accept; with the engine service (service.ts) that applies updates and   *)
(* replacements, numbers snapshots and keeps requests waiting.             *)
(*                                                                         *)
(* read_async runs _sync_variables in a worker thread, so every call is a  *)
(* thread of its own, and so is whoever sets variables.  A write is named  *)
(* by its number, and `variables' maps each name to the last write that    *)
(* set or removed it: a mapping is current when it is nowhere behind.      *)
(***************************************************************************)
EXTENDS Integers, Sequences, FiniteSets

CONSTANTS
  Names,        \* the notebook's variables
  Calls,        \* calls of read and ready
  MaxWrites,    \* bound on writes
  MaxFailures   \* bound on updates the engine refuses

NoOne == "nobody"

\* What the constants satisfy.
BindingsAssumption ==
  /\ {MaxWrites, MaxFailures} \subseteq Nat /\ NoOne \notin Calls

VARIABLES
  controller,   \* NotebookController: seq, variables and the last update
  writer,       \* the thread that sets variables: the write it is doing
  evaluation,   \* Evaluation: _sequence, _variable_wire, _snapshot, the call that has _sync_lock
  call,         \* what each call does
  engine,       \* the service and its notebook
  wire          \* requests on their way to the engine, in order

bindingsVars == <<controller, writer, evaluation, call, engine, wire>>

NotBehind(variables, others) == \A n \in Names : variables[n] >= others[n]

Assign(variables, values) == [n \in Names |-> IF n \in DOMAIN values THEN values[n] ELSE variables[n]]

-----------------------------------------------------------------------------
(* The controller *)

At(c, pc) == call[c].pc = pc

Write(kind, names) ==
  /\ writer.pc = "idle" /\ controller.seq < MaxWrites
  /\ LET seq == controller.seq + 1
         values == [n \in IF kind = "set" THEN names ELSE Names |-> seq]
     IN /\ writer' = [pc |-> "variables", kind |-> kind, values |-> values]
        /\ controller' = [controller EXCEPT !.seq = seq]
  /\ UNCHANGED <<evaluation, call, engine, wire>>

WriteVariables ==
  /\ writer.pc = "variables"
  /\ writer' = [writer EXCEPT !.pc = "update"]
  /\ controller' = [controller EXCEPT !.variables = Assign(@, writer.values)]
  /\ UNCHANGED <<evaluation, call, engine, wire>>

WriteUpdate ==
  /\ writer.pc = "update"
  /\ writer' = [writer EXCEPT !.pc = "idle"]
  /\ controller' = [controller EXCEPT !.update = [seq |-> controller.seq, kind |-> writer.kind, values |-> writer.values]]
  /\ UNCHANGED <<evaluation, call, engine, wire>>

-----------------------------------------------------------------------------
(* A call: open, _sync_variables, and then its own request. *)

Nothing == [n \in Names |-> 0]

NoReply == [status |-> "none"]

Goto(c, pc) == call' = [call EXCEPT ![c].pc = pc]

Begin(c) ==
  /\ At(c, "idle")
  /\ call' = [call EXCEPT ![c] = [@ EXCEPT !.pc = "syncing", !.started = controller.variables]]
  /\ UNCHANGED <<controller, writer, evaluation, engine, wire>>

\* What c read does not belong together: variables older than its sequence, or an
\* update to patch with that is another write's.
OlderVariables(c, variables) == \A n \in Names : variables[n] < call[c].seq

Free == evaluation.lock = NoOne

Send(c, op, values) == wire' = Append(wire, [call |-> c, op |-> op, values |-> values])

\* What a method holds ends with it.
Left(c, pc) == [call EXCEPT ![c] = [@ EXCEPT !.pc = pc, !.op = "none", !.seq = 0, !.wire = Nothing, !.reply = NoReply]]

\* Mutant: the request is made even when the engine refused the update.
Fail_late(c) == call' = Left(c, IF At(c, "updating") THEN "synced" ELSE "failed")

\* An error of the engine is the call's error.
Fail(c) == call' = Left(c, "failed")

ReadSequence(c) ==
  /\ At(c, "syncing") /\ Free
  /\ evaluation' = [evaluation EXCEPT !.lock = c]
  /\ call' = [call EXCEPT ![c].pc = IF evaluation.opened THEN "sequenced" ELSE "opening", ![c].seq = controller.seq]
  /\ UNCHANGED <<controller, writer, engine, wire>>

\* open sends what it reads.
OpenEngine(c) ==
  /\ At(c, "opening")
  /\ call' = [call EXCEPT ![c].pc = "updating", ![c].wire = controller.variables]
  /\ Send(c, "open", controller.variables)
  /\ evaluation' = [evaluation EXCEPT !.torn = @ \/ OlderVariables(c, controller.variables)]
  /\ UNCHANGED <<controller, writer, engine>>

\* Nothing changed: the lock is free again.
ReadWire(c) ==
  /\ At(c, "sequenced")
  /\ \/ /\ call[c].seq = evaluation.sequence /\ controller.variables = evaluation.wire
        /\ call' = Left(c, "synced") /\ evaluation' = [evaluation EXCEPT !.lock = NoOne]
     \/ /\ ~(call[c].seq = evaluation.sequence /\ controller.variables = evaluation.wire)
        /\ call' = [call EXCEPT ![c].pc = "wired", ![c].wire = controller.variables]
        /\ UNCHANGED evaluation
  /\ UNCHANGED <<controller, writer, engine, wire>>

\* The only update that was missed can be sent as it is.
Patches(c) == call[c].seq = evaluation.sequence + 1 /\ controller.update.kind = "set"

OtherUpdate(c) == Patches(c) /\ controller.update.seq # call[c].seq

ReadUpdate(c) ==
  /\ At(c, "wired")
  /\ \/ Patches(c) /\ Send(c, "update", controller.update.values)
     \/ ~Patches(c) /\ Send(c, "replace", call[c].wire)
  /\ Goto(c, "updating")
  /\ evaluation' = [evaluation EXCEPT !.torn = @ \/ OlderVariables(c, call[c].wire) \/ OtherUpdate(c)]
  /\ UNCHANGED <<controller, writer, engine>>

\* Mutant: the snapshot that comes last counts.
Newer_last(snapshot) == snapshot

\* _accept_snapshot: only a newer revision replaces the snapshot.
Newer(snapshot) == IF snapshot.revision > evaluation.snapshot.revision THEN snapshot ELSE evaluation.snapshot

Replied(c) == call[c].reply.status # "none"

\* The engine's answer: an error leaves the sequence as it was.
Synced(c) ==
  /\ At(c, "updating") /\ Replied(c)
  /\ LET reply == call[c].reply
         accepted == [evaluation EXCEPT !.lock = NoOne, !.snapshot = Newer(reply.snapshot)]
     IN \/ /\ reply.status = "result"
           /\ evaluation' = [accepted EXCEPT !.sequence = call[c].seq, !.wire = call[c].wire, !.opened = TRUE]
           /\ call' = Left(c, IF evaluation.opened THEN "synced" ELSE "syncing")
        \/ reply.status = "error" /\ evaluation' = accepted /\ Fail(c)
  /\ UNCHANGED <<controller, writer, engine, wire>>

\* What the call is for makes no difference before this.
Ask(c, op) ==
  /\ At(c, "synced") /\ call' = [call EXCEPT ![c].pc = "asking", ![c].op = op]
  /\ Send(c, op, <<>>)
  /\ UNCHANGED <<controller, writer, evaluation, engine>>

\* What a call returns: the value's inputs, or those of the snapshot that ready() looks at.
Return(c) ==
  /\ At(c, "asking") /\ Replied(c)
  /\ LET reply == call[c].reply
         snapshot == Newer(reply.snapshot)
     IN \/ reply.status = "error" /\ Fail(c) /\ evaluation' = [evaluation EXCEPT !.snapshot = snapshot]
        \/ /\ reply.status = "result" /\ call[c].op = "read"
           /\ call' = [Left(c, "returned") EXCEPT ![c].wire = reply.snapshot.variables]
           /\ UNCHANGED evaluation
        \/ /\ reply.status = "result" /\ call[c].op = "ready"
           /\ evaluation' = [evaluation EXCEPT !.snapshot = snapshot]
           /\ call' = [Left(c, IF snapshot.pending THEN "failed" ELSE "returned") EXCEPT ![c].wire = snapshot.variables]
  /\ UNCHANGED <<controller, writer, engine, wire>>

-----------------------------------------------------------------------------
(* The engine *)

Snapshot(e) == [revision |-> e.revision + 1, variables |-> e.variables, pending |-> e.pending]

\* A response to the calls: each snapshot has a revision of its own.
Reply(e, c, status) ==
  /\ call' = [call EXCEPT ![c].reply = [status |-> status, snapshot |-> Snapshot(e)]]
  /\ engine' = [e EXCEPT !.revision = @ + 1]

\* update and replace start an evaluation, which ends the reads that wait.
Applied(values) ==
  [engine EXCEPT !.variables = Assign(@, values), !.pending = TRUE, !.broken = {c \in engine.waiting : call[c].op = "read"}]

Execute ==
  /\ wire # <<>> /\ wire' = Tail(wire)
  /\ LET m == Head(wire) IN
     \/ m.op \in {"open", "update", "replace"} /\ Reply(Applied(m.values), m.call, "result")
     \/ /\ m.op \in {"update", "replace"} /\ engine.failures < MaxFailures
        /\ Reply([engine EXCEPT !.failures = @ + 1], m.call, "error")
     \/ m.op \in {"read", "ready"} /\ engine' = [engine EXCEPT !.waiting = @ \cup {m.call}] /\ UNCHANGED call
  /\ UNCHANGED <<controller, writer, evaluation>>

Evaluate ==
  /\ engine.pending /\ engine' = [engine EXCEPT !.pending = FALSE]
  /\ UNCHANGED <<controller, writer, evaluation, call, wire>>

Answer(c) ==
  /\ c \in engine.waiting
  /\ LET e == [engine EXCEPT !.waiting = @ \ {c}, !.broken = @ \ {c}]
     IN \/ c \in engine.broken /\ Reply(e, c, "error")
        \/ c \notin engine.broken /\ ~engine.pending /\ \E status \in {"result", "error"} : Reply(e, c, status)
  /\ UNCHANGED <<controller, writer, evaluation, wire>>

-----------------------------------------------------------------------------
BindingsInit ==
  /\ controller = [seq |-> 0, variables |-> Nothing, update |-> [seq |-> 0, kind |-> "none", values |-> Nothing]]
  /\ writer = [pc |-> "idle"]
  /\ evaluation = [sequence |-> 0, wire |-> Nothing, opened |-> FALSE, lock |-> NoOne, torn |-> FALSE,
                   snapshot |-> [revision |-> 0, variables |-> Nothing, pending |-> TRUE]]
  /\ call = [c \in Calls |-> [pc |-> "idle", op |-> "none", started |-> Nothing, seq |-> 0, wire |-> Nothing,
                              reply |-> NoReply]]
  /\ engine = [variables |-> Nothing, pending |-> FALSE, revision |-> 0, waiting |-> {}, broken |-> {}, failures |-> 0]
  /\ wire = <<>>

BindingsNext ==
  \/ \E names \in SUBSET Names \ {{}} : Write("set", names)
  \/ Write("replace", Names) \/ WriteVariables \/ WriteUpdate
  \/ \E c \in Calls :
       \/ Begin(c) \/ \E op \in {"read", "ready"} : Ask(c, op)
       \/ ReadSequence(c) \/ OpenEngine(c) \/ ReadWire(c) \/ ReadUpdate(c) \/ Synced(c) \/ Return(c) \/ Answer(c)
  \/ Execute \/ Evaluate

BindingsSpec == BindingsInit /\ [][BindingsNext]_bindingsVars

-----------------------------------------------------------------------------
\* What a call returns was computed from every variable that was set before the call
\* ("Reads and checkpoints apply current controller bindings before requesting
\* values", _execution.py:68), whatever other calls and refused updates do.
ReturnsCurrentBindings == \A c \in Calls : At(c, "returned") => NotBehind(call[c].wire, call[c].started)

\* The same as long as no synchronisation has read what does not belong together.
ReturnsCurrentUntilTorn == evaluation.torn \/ ReturnsCurrentBindings

\* Until then, a synchronisation that finds nothing new would bring nothing new: the
\* engine has every variable of the controller.
SkipsAreSafe ==
  /\ Free /\ evaluation.opened /\ ~evaluation.torn
  /\ controller.seq = evaluation.sequence /\ controller.variables = evaluation.wire
  => NotBehind(engine.variables, controller.variables)

Advances ==
  /\ evaluation.snapshot.revision <= evaluation'.snapshot.revision
  /\ evaluation'.torn \/ NotBehind(evaluation'.snapshot.variables, evaluation.snapshot.variables)

\* Snapshots never go back, though replies reach their threads in any order; what they
\* were computed from does not go back until a synchronisation reads what does not
\* belong together.
SnapshotsAdvance == [][Advances]_bindingsVars
=============================================================================
