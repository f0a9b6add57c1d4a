----------------------------- MODULE ViewReadback -----------------------------
(***************************************************************************)
(* How the evaluation state of a mount in the browser becomes              *)
(* NotebookView.state in Python, and what NotebookView.ready() returns:    *)
(* the widget view that mounts and remounts the notebook (view.ts), its    *)
(* ReadbackPublisher (readback.ts), the transport, and the accepting side  *)
(* in Python (_view.py).                                                   *)
(*                                                                         *)
(* The mount makes the moves that RevisionProgress allows and              *)
(* EvaluationState implements, told apart by whether cells are pending and *)
(* whether there are results at all.  The transport is external: ipywidgets sends the traits     *)
(* saved since the last update as one message when it may, while custom    *)
(* messages (the replies to ready) leave at once and can overtake them.    *)
(* A view is displayed in one place at a time, as the documentation asks.  *)
(***************************************************************************)
EXTENDS Integers, Sequences

CONSTANTS
  Failures,     \* which of "resolve", "render", "mount" and "view" can fail
  MaxMounts,    \* bound on mounts
  MaxInput,     \* bound on the revisions that mounts open by themselves
  MaxUpdates,   \* bound on Python's variable updates
  MaxCalls,     \* bound on ready() calls
  MaxWire       \* bound on the messages in flight to Python

ASSUME ReadbackAssumption ==
  /\ Failures \subseteq {"resolve", "render", "mount", "view"}
  /\ {MaxMounts, MaxInput, MaxUpdates, MaxCalls, MaxWire} \subseteq Nat

VARIABLES
  seq,          \* Python: _variable_update_seq
  sessionSeq,   \* browser: the sequence in the session model's _variable_update
  mount,        \* browser: the current mount and what mountView keeps about it
  pub,          \* browser: the ReadbackPublisher and the view model's traits
  request,      \* browser: the readiness request it works on
  wire,         \* external: messages in flight to Python
  accepted,     \* Python: _accepted_readback, which state shows
  generation,   \* Python: the generation of the request channel, 0 for None
  ready         \* Python: the ready() call

vars == <<seq, sessionSeq, mount, pub, request, wire, accepted, generation, ready>>

NoRevision == -1

\* A wire snapshot, before a mount has reported.  History: `seq' is the last Python
\* update that the mount which published it had applied, NoRevision when nothing was
\* evaluated.
Blank(input, settled) ==
  [revision |-> 0, input |-> input, settled |-> settled, pending |-> FALSE, results |-> FALSE,
   seq |-> NoRevision]

Unseen == Blank(NoRevision, NoRevision)

\* What mountView and the mount keep, in the stages "away", "none", "resolving" and
\* "live".  `offset' and `generation' belong to the callback that start returned.
Unmounted(id, stage, offset, generationOfPublish) ==
  [id |-> id, stage |-> stage, session |-> FALSE, input |-> NoRevision,
   settled |-> NoRevision, pending |-> FALSE, results |-> FALSE, offset |-> offset,
   generation |-> generationOfPublish, lastSequence |-> 0]

-----------------------------------------------------------------------------
(* readback.ts: operators on pub *)

\* Mutant: the microtask is not queued.
Enqueue_unscheduled(p, snapshot) == [p EXCEPT !.input = snapshot.input, !.pending = <<snapshot>>]

Enqueue(p, snapshot) ==
  [p EXCEPT !.input = snapshot.input, !.pending = <<snapshot>>, !.scheduled = TRUE]

\* What start adds to the revisions of the next mount.
Offset(p) == p.input + 1

\* Mutant: the placeholder is published settled.
Started_settled(p) ==
  IF p.readback.input = NoRevision THEN [p EXCEPT !.pending = <<>>, !.generation = @ + 1]
  ELSE Enqueue([p EXCEPT !.generation = @ + 1],
               [Blank(Offset(p), Offset(p)) EXCEPT !.results = p.readback.results])

\* start: cells with a result are shown as pending until the next mount reports.
Started(p) ==
  LET previous == IF p.pending # <<>> THEN p.pending[1] ELSE p.readback
      begun    == [p EXCEPT !.pending = <<>>, !.generation = @ + 1]
      offset   == Offset(p)
  IN  IF previous.input = NoRevision THEN begun
      ELSE Enqueue(begun, [Blank(offset, IF previous.results THEN previous.settled ELSE offset)
                             EXCEPT !.pending = previous.results, !.results = previous.results])

Captured(m) ==
  [revision |-> 0, input |-> m.input + m.offset,
   settled |-> IF m.settled = NoRevision THEN NoRevision ELSE m.settled + m.offset,
   pending |-> m.pending, results |-> m.results, seq |-> m.lastSequence]

\* The callback that start returned, called with the state of the mount m.
Publish(p, m) ==
  IF m.generation = p.generation /\ m.input # NoRevision THEN Enqueue(p, Captured(m)) ELSE p

\* fail
Failed(p) == Enqueue([p EXCEPT !.generation = @ + 1], Blank(p.input + 1, p.input + 1))

\* save, unless nothing but the transport revision would change.
Saved(p, snapshot) ==
  IF [p.readback EXCEPT !.revision = 0] = snapshot THEN p
  ELSE [p EXCEPT !.input = snapshot.input,
                 !.transport = @ + 1,
                 !.readback = [snapshot EXCEPT !.revision = p.transport + 1],
                 !.unsent = TRUE]

Flushed(p) ==
  IF p.pending = <<>> THEN p ELSE Saved([p EXCEPT !.pending = <<>>], p.pending[1])

-----------------------------------------------------------------------------
(* view.ts *)

NoRequest == [call |-> 0, stage |-> "none", sequence |-> 0, generation |-> 0]

Init ==
  /\ seq = 0 /\ sessionSeq = 0
  /\ mount = Unmounted(0, "away", 0, 0)
  /\ pub = [transport |-> 0, input |-> NoRevision, generation |-> 0, scheduled |-> FALSE,
            pending |-> <<>>, readback |-> Unseen, inspection |-> 0, unsent |-> FALSE]
  /\ request = NoRequest
  /\ wire = <<>>
  /\ accepted = Unseen
  /\ generation = 0
  /\ ready = [call |-> 0, stage |-> "idle", sequence |-> 0, generation |-> 0, reply |-> Unseen]

Python == <<seq, accepted, generation, ready>>

\* Aborting a mount disposes of it, drops its requests and clears its metadata.
Aborted(p) == IF p.inspection = 0 THEN p ELSE [p EXCEPT !.inspection = 0, !.unsent = TRUE]

\* rerender with the publisher p
Mounts(p) ==
  /\ mount.id < MaxMounts
  /\ pub' = Started(Aborted(p))
  /\ mount' = Unmounted(mount.id + 1, "resolving", Offset(p), pub'.generation)
  /\ request' = NoRequest
  /\ UNCHANGED <<sessionSeq, wire, Python>>

\* The view is displayed: its publisher reads the revisions of the view model.
Display ==
  /\ mount.stage = "away"
  /\ Mounts([pub EXCEPT !.input = pub.readback.input, !.generation = 0,
                        !.pending = <<>>])

\* The notebook's definition or the view's selection changed.
Rerender ==
  /\ mount.stage # "away"
  /\ Mounts(pub)

\* The view leaves the page and closes its publisher.
Leave ==
  /\ mount.stage # "away"
  /\ mount' = Unmounted(mount.id, "away", 0, 0)
  /\ pub' = Aborted([pub EXCEPT !.generation = @ + 1, !.pending = <<>>, !.scheduled = FALSE])
  /\ request' = NoRequest
  /\ UNCHANGED <<sessionSeq, wire, Python>>

\* fail: the view shows the error and its mount is aborted.
ViewFails ==
  /\ pub' = Aborted(Failed(pub))
  /\ mount' = Unmounted(mount.id, "none", 0, 0)
  /\ request' = NoRequest

ResolveFails ==
  /\ "resolve" \in Failures
  /\ mount.stage = "resolving"
  /\ ViewFails
  /\ UNCHANGED <<sessionSeq, wire, Python>>

ViewError ==
  /\ "view" \in Failures
  /\ mount.stage = "live"
  /\ ViewFails
  /\ UNCHANGED <<sessionSeq, wire, Python>>

\* mountView once the session is resolved: the first render opens a revision or
\* fails, and the request channel is announced.
Mounted(outcome) ==
  /\ mount.stage = "resolving"
  /\ outcome = "failed" => "render" \in Failures
  /\ LET m == [mount EXCEPT !.stage = "live", !.session = (outcome = "rendered"),
                            !.lastSequence = sessionSeq, !.input = 0,
                            !.settled = IF outcome = "rendered" THEN NoRevision ELSE 0,
                            !.pending = (outcome = "rendered"),
                            !.results = (outcome = "rendered")]
     IN  /\ mount' = m
         /\ pub' = [Publish(pub, m) EXCEPT !.inspection = m.id, !.unsent = TRUE]
  /\ UNCHANGED <<sessionSeq, request, wire, Python>>

-----------------------------------------------------------------------------
(* The mount: openRevision, settleCell, the settlement microtask and fail *)

\* A revision opens.  After a failure it waits for every cell again.
Opened(m, pending) ==
  [m EXCEPT !.input = @ + 1, !.pending = pending, !.results = TRUE,
            !.settled = IF pending THEN @ ELSE m.input + 1]

\* Pending work goes on.
Opens(m) == {Opened(m, pending) : pending \in IF m.pending \/ ~m.results THEN {TRUE} ELSE BOOLEAN}

Evaluating ==
  /\ mount.stage = "live" /\ mount.session
  /\ UNCHANGED <<sessionSeq, request, wire, Python>>

MountOpens ==
  /\ Evaluating
  /\ pub.input < MaxInput
  /\ mount' \in Opens(mount)
  /\ pub' = Publish(pub, mount')

\* The last cell to finish publishes nothing: its revision is published settled.
MountFinishes ==
  /\ Evaluating
  /\ mount.pending
  /\ mount' = [mount EXCEPT !.pending = FALSE]
  /\ UNCHANGED pub

MountSettles ==
  /\ Evaluating
  /\ ~mount.pending /\ mount.settled # mount.input
  /\ mount' = [mount EXCEPT !.settled = mount.input]
  /\ pub' = Publish(pub, mount')

MountFails ==
  /\ "mount" \in Failures
  /\ Evaluating
  /\ pub.input < MaxInput \/ mount.pending
  /\ LET revision == IF mount.pending THEN mount.input ELSE mount.input + 1
     IN  mount' = [mount EXCEPT !.input = revision, !.settled = revision,
                                !.pending = FALSE, !.results = FALSE]
  /\ pub' = Publish(pub, mount')

-----------------------------------------------------------------------------
(* Python's variable updates *)

\* update_variables or replace_variables
Update ==
  /\ seq < MaxUpdates
  /\ seq' = seq + 1
  /\ UNCHANGED <<sessionSeq, mount, pub, request, wire, accepted, generation, ready>>

\* onVariables: the mount opens a revision, or, when its render failed, refuses
\* and fails the view.
ApplyUpdate ==
  /\ sessionSeq < seq
  /\ sessionSeq' = sessionSeq + 1
  /\ IF mount.stage # "live" THEN UNCHANGED <<mount, pub, request>>
     ELSE IF ~mount.session THEN ViewFails
     ELSE /\ mount' \in Opens([mount EXCEPT !.lastSequence = sessionSeq + 1])
          /\ pub' = Publish(pub, mount')
          /\ UNCHANGED request
  /\ UNCHANGED <<wire, Python>>

-----------------------------------------------------------------------------
(* Transport *)

Microtask ==
  /\ pub.scheduled
  /\ pub' = [Flushed(pub) EXCEPT !.scheduled = FALSE]
  /\ UNCHANGED <<sessionSeq, mount, request, wire, Python>>

Send ==
  /\ pub.unsent /\ Len(wire) < MaxWire
  /\ wire' = Append(wire, [call |-> 0, readback |-> pub.readback, generation |-> pub.inspection])
  /\ pub' = [pub EXCEPT !.unsent = FALSE]
  /\ UNCHANGED <<sessionSeq, mount, request, Python>>

\* Mutant: a snapshot that arrives late is accepted.
Accepting_late(snapshot) == snapshot

\* _validate_readback and _publish_readback_state
Accepting(snapshot) == IF snapshot.revision <= accepted.revision THEN accepted ELSE snapshot

\* The call raises.
Over(r) == [call |-> r.call, stage |-> "failed", sequence |-> 0, generation |-> 0, reply |-> Unseen]

\* _on_inspection: losing the generation that it was sent to fails the call.
\* Mutant: it does not.
Changed_ignored(r, new) == r

Changed(r, new) ==
  IF r.stage \in {"sent", "answered"} /\ r.generation # new
  THEN Over(r) ELSE r

Answered(readback) ==
  IF readback = Unseen THEN Over(ready)
  ELSE [ready EXCEPT !.stage = "answered", !.reply = readback]

\* A trait update, or the reply to a readiness request.
Receive ==
  /\ wire # <<>>
  /\ wire' = Tail(wire)
  /\ LET message == Head(wire)
     IN  IF message.call = 0
         THEN /\ accepted' = Accepting(message.readback)
              /\ generation' = message.generation
              /\ ready' = Changed(ready, message.generation)
         ELSE /\ ready' = IF /\ ready.stage = "sent" /\ ready.call = message.call
                             /\ message.generation = generation
                          THEN Answered(message.readback) ELSE ready
              /\ UNCHANGED <<accepted, generation>>
  /\ UNCHANGED <<seq, sessionSeq, mount, pub, request>>

-----------------------------------------------------------------------------
(* ready() *)

ReadyCall ==
  /\ ready.stage \notin {"called", "sent", "answered"} /\ ready.call < MaxCalls
  /\ ready' = [call |-> ready.call + 1, stage |-> "called", sequence |-> seq,
               generation |-> 0, reply |-> Unseen]
  /\ UNCHANGED <<seq, sessionSeq, mount, pub, request, wire, accepted, generation>>

\* The request leaves once a mount has announced its generation, and reaches the
\* mount if that is still the one.
ReadySend ==
  /\ ready.stage = "called" /\ generation # 0
  /\ ready' = [ready EXCEPT !.stage = "sent", !.generation = generation]
  /\ request' = [call |-> ready.call, stage |-> "coming", sequence |-> ready.sequence,
                 generation |-> generation]
  /\ UNCHANGED <<seq, sessionSeq, mount, pub, wire, accepted, generation>>

\* Mutant: the mount may not have seen them.
Waited_anySequence ==
  /\ request.stage = "coming"
  /\ mount.stage = "live" /\ request.generation = mount.id

\* The updates it names were applied to the mount that it was sent to.
Waited ==
  /\ request.stage = "coming"
  /\ mount.stage = "live" /\ request.generation = mount.id
  /\ mount.lastSequence >= request.sequence

\* notebook.ready resolves: the mount has settled.
ReadyReached ==
  /\ Waited
  /\ ~mount.pending /\ mount.settled = mount.input /\ mount.results
  /\ request' = [request EXCEPT !.stage = "reached"]
  /\ UNCHANGED <<sessionSeq, mount, pub, wire, Python>>

\* checkpoint: publish the state of this moment and answer with it.
Reply(readback) ==
  /\ Len(wire) < MaxWire
  /\ pub' = Flushed(Publish(pub, mount))
  /\ wire' = Append(wire, [call |-> request.call, readback |-> readback,
                           generation |-> request.generation])
  /\ request' = NoRequest
  /\ UNCHANGED <<sessionSeq, mount, Python>>

ReadyReply ==
  /\ request.stage = "reached"
  /\ Reply(Flushed(Publish(pub, mount)).readback)

\* notebook.ready rejects: a cell, the mount or the view has errors.
ReadyRejected ==
  /\ Waited
  /\ Reply(Unseen)

\* The coroutine resumes: accept the acknowledged snapshot, then return the state
\* or raise.  When updates were sent since the call it depends on the diagnostics
\* whether a settled state is returned.
ReadyReturn ==
  /\ ready.stage = "answered"
  /\ accepted' = Accepting(ready.reply)
  /\ \/ /\ ~accepted'.pending /\ accepted'.settled = accepted'.input
        /\ ready' = [ready EXCEPT !.stage = "returned", !.reply = accepted']
     \/ ready' = Over(ready)
  /\ UNCHANGED <<seq, sessionSeq, mount, pub, request, wire, generation>>

\* The call times out or is cancelled, and withdraws its request.
ReadyTimeout ==
  /\ ready.stage \in {"called", "sent", "answered"}
  /\ ready' = Over(ready)
  /\ request' = IF ready.stage = "sent" THEN NoRequest ELSE request
  /\ UNCHANGED <<seq, sessionSeq, mount, pub, wire, accepted, generation>>

Next ==
  \/ Display \/ Rerender \/ Leave \/ ResolveFails \/ ViewError
  \/ \E outcome \in {"rendered", "failed"} : Mounted(outcome)
  \/ MountOpens \/ MountFinishes \/ MountSettles \/ MountFails
  \/ Update \/ ApplyUpdate
  \/ Microtask \/ Send \/ Receive
  \/ ReadyCall \/ ReadySend \/ ReadyReached \/ ReadyReply \/ ReadyRejected
  \/ ReadyReturn \/ ReadyTimeout

Settling == \/ \E outcome \in {"rendered", "failed"} : Mounted(outcome)
            \/ ApplyUpdate \/ MountFinishes \/ MountSettles

Answering == ReadySend \/ ReadyReached \/ ReadyRejected \/ ReadyReply \/ ReadyReturn

\* Microtasks run, messages are sent and arrive, a displayed view mounts and its
\* cells finish, and coroutines resume.  Nobody need display the view, use it or
\* set variables.
Fairness ==
  WF_vars(Microtask) /\ WF_vars(Send \/ Receive) /\ WF_vars(Settling) /\ WF_vars(Answering)

Spec == Init /\ [][Next]_vars /\ Fairness

-----------------------------------------------------------------------------
(* Properties *)

\* The revision that NotebookView.state shows never falls, across mounts, displays
\* and readiness replies accepted late (readback.ts "offset", _validate_readback).
InputNeverFalls == [][accepted'.input >= accepted.input]_vars

\* A revision that Python saw settled is not reopened under the same number.
SettledIsFinal ==
  [][/\ accepted.input # NoRevision /\ accepted.settled = accepted.input
     /\ accepted'.input = accepted.input
     => accepted'.settled = accepted.settled]_vars

\* What ready() returns was evaluated, with every update sent before the call
\* (view.ts "ready", _view.py "ready").
ReadyReflectsUpdates ==
  ready.stage = "returned" =>
    /\ ready.reply.settled = ready.reply.input
    /\ ready.reply.seq >= ready.sequence

\* Python ends up with the browser's latest state and request channel, however
\* updates were batched.
PythonCatchesUp ==
  []<>(pub.pending = <<>> /\ accepted = pub.readback /\ generation = pub.inspection)

\* A ready() call without timeout returns or fails once the view is mounted and
\* its cells finish: replacing the mount it waits for fails it.
ReadyEnds ==
  ready.stage = "sent" ~> ready.stage \in {"returned", "failed"}
=============================================================================
