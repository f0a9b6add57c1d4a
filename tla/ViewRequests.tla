------------------------------ MODULE ViewRequests ------------------------------
(***************************************************************************)
(* The request channel of a view: the coroutines of ViewRequests.request   *)
(* (_requests.py), the comm thread that completes them, the browser's      *)
(* connectRequests (requests.ts), and the diagnostics of the view from     *)
(* DiagnosticPublisher (errors.ts) to _view.py, which decide whether       *)
(* Python still believes in the view.                                      *)
(*                                                                         *)
(* A coroutine may run in another thread than the comm, so every statement *)
(* of `request' that reads or writes shared state is a step.  A handler of *)
(* the comm thread or of the browser is one step.  External: the comm      *)
(* sends a custom message at once, the traits saved meanwhile later, as    *)
(* one message; the operations of a mount take arbitrarily long.           *)
(***************************************************************************)
EXTENDS Integers, Sequences, FiniteSets

CONSTANTS
  Calls,        \* calls of request
  Describes,    \* those whose operation is "describe"
  MaxMounts,    \* bound on mounts
  MaxReports,   \* bound on changes of the runtime's fatal diagnostics
  MaxUpdates    \* bound on Python's variable updates

ASSUME RequestsAssumption == Describes \subseteq Calls /\ {MaxMounts, MaxReports, MaxUpdates} \subseteq Nat

VARIABLES
  call,         \* Python: what each coroutine does
  channel,      \* Python: generation, _closed, _ready, _pending and a running close or fail
  accepted,     \* Python: _accepted_diagnostics, and _variable_update_seq
  browser,      \* browser: the mount with its requests, the view model's traits
  diag,         \* browser: the DiagnosticPublisher
  toBrowser, toPython

vars == <<call, channel, accepted, browser, diag, toBrowser, toPython>>

None == 0       \* no generation; mounts count theirs from 1

Over == {"returned", "stale", "closed", "fatal", "error", "timed out"}

Ended(c) == call[c].pc \in Over

-----------------------------------------------------------------------------
(* Python: a coroutine of request. *)

\* _diagnostics_current and _fatal_diagnostics.
Fatal ==
  /\ accepted.errors = "fatal"
  /\ accepted.seq >= accepted.updates \/ channel.generation = None

\* _require_open.
Refusal == IF channel.closed THEN "closed" ELSE IF Fatal THEN "fatal" ELSE "none"

At(c, pc) == call[c].pc = pc

Goto(c, pc) == call' = [call EXCEPT ![c].pc = pc]

End(c, outcome) == call' = [call EXCEPT ![c] = [@ EXCEPT !.pc = outcome, !.future = "none", !.queue = <<>>]]

\* set_result or set_exception is scheduled in the coroutine's own loop.
Complete(calls, outcome, current) ==
  [c \in Calls |-> IF c \in calls THEN [current[c] EXCEPT !.queue = Append(@, outcome)] ELSE current[c]]

Cancels(ids) == {[type |-> "cancel", id |-> c, generation |-> channel.pending[c]] : c \in ids}

Request(c) ==
  /\ At(c, "idle")
  /\ \/ Refusal # "none" /\ End(c, Refusal)
     \/ Refusal = "none" /\ channel.generation # None
        /\ call' = [call EXCEPT ![c].pc = "named", ![c].generation = channel.generation]
     \/ Refusal = "none" /\ channel.generation = None /\ Goto(c, "adding")
  /\ UNCHANGED <<channel, accepted, browser, diag, toBrowser, toPython>>

\* _wait_ready: into _ready, then look again, then await.
AddReady(c) ==
  /\ At(c, "adding") /\ Goto(c, "looking")
  /\ channel' = [channel EXCEPT !.ready = @ \cup {c}]
  /\ UNCHANGED <<accepted, browser, diag, toBrowser, toPython>>

LookAgain(c) ==
  /\ At(c, "looking")
  /\ \/ Refusal # "none" /\ End(c, Refusal) /\ channel' = [channel EXCEPT !.ready = @ \ {c}]
     \/ /\ Refusal = "none" /\ channel.generation # None
        /\ call' = [call EXCEPT ![c] = [@ EXCEPT !.pc = "named", !.generation = channel.generation, !.queue = <<>>]]
        /\ channel' = [channel EXCEPT !.ready = @ \ {c}]
     \/ Refusal = "none" /\ channel.generation = None /\ Goto(c, "waiting") /\ UNCHANGED channel
  /\ UNCHANGED <<accepted, browser, diag, toBrowser, toPython>>

\* The loop runs a scheduled completion; it does nothing once the future is done.
RunCompletion(c) ==
  /\ call[c].pc \in {"waiting", "sent"} /\ call[c].queue # <<>>
  /\ call' = [call EXCEPT ![c].queue = Tail(@),
                          ![c].future = IF @ = "none" THEN Head(call[c].queue) ELSE @]
  /\ UNCHANGED <<channel, accepted, browser, diag, toBrowser, toPython>>

\* The deadline, or the caller, cancels the coroutine while it awaits: even a future
\* that is done already then raises.
TimeOut(c) ==
  /\ call[c].pc \in {"waiting", "sent"} /\ call[c].future # "timed out"
  /\ call' = [call EXCEPT ![c].future = "timed out"]
  /\ UNCHANGED <<channel, accepted, browser, diag, toBrowser, toPython>>

ResumeReady(c) ==
  /\ At(c, "waiting") /\ call[c].future # "none"
  /\ \/ call[c].future = "named" /\ call' = [call EXCEPT ![c].pc = "named", ![c].future = "none"]
     \/ call[c].future \in Over /\ End(c, call[c].future)
  /\ channel' = [channel EXCEPT !.ready = @ \ {c}]
  /\ UNCHANGED <<accepted, browser, diag, toBrowser, toPython>>

\* Both times the request asks whether the view is open and still has this generation.
Objection(c) ==
  IF Refusal # "none" THEN Refusal
  ELSE IF channel.generation # call[c].generation THEN "stale" ELSE "none"

Check(c) ==
  /\ At(c, "named")
  /\ \/ Objection(c) # "none" /\ End(c, Objection(c))
     \/ Objection(c) = "none" /\ Goto(c, "checked")
  /\ UNCHANGED <<channel, accepted, browser, diag, toBrowser, toPython>>

Register(c) ==
  /\ At(c, "checked") /\ Goto(c, "registered")
  /\ channel' = [channel EXCEPT !.pending = [i \in DOMAIN @ \cup {c} |-> IF i = c THEN call[c].generation ELSE @[i]]]
  /\ UNCHANGED <<accepted, browser, diag, toBrowser, toPython>>

Dropped(ids) == [channel EXCEPT !.pending = [i \in DOMAIN @ \ ids |-> @[i]]]

\* Mutant: a request that gives up only leaves the table.
Finally_silent(c) == channel' = Dropped({c}) /\ UNCHANGED toBrowser

\* The finally: what is still pending is withdrawn.
Finally(c) ==
  /\ channel' = Dropped({c})
  /\ toBrowser' = toBrowser \o (IF c \in DOMAIN channel.pending
                                THEN <<[type |-> "cancel", id |-> c, generation |-> call[c].generation]>> ELSE <<>>)

\* Mutant: the registered request is sent without looking again.
Recheck_blind(c) ==
  /\ At(c, "registered") /\ Goto(c, "sending")
  /\ UNCHANGED <<channel, accepted, browser, diag, toBrowser, toPython>>

Recheck(c) ==
  /\ At(c, "registered")
  /\ \/ Objection(c) # "none" /\ End(c, Objection(c)) /\ Finally(c)
     \/ Objection(c) = "none" /\ Goto(c, "sending") /\ UNCHANGED <<channel, toBrowser>>
  /\ UNCHANGED <<accepted, browser, diag, toPython>>

SendRequest(c) ==
  /\ At(c, "sending") /\ Goto(c, "sent")
  /\ toBrowser' = Append(toBrowser, [type |-> "request", id |-> c, generation |-> call[c].generation])
  /\ UNCHANGED <<channel, accepted, browser, diag, toPython>>

Resume(c) ==
  /\ At(c, "sent") /\ call[c].future # "none"
  /\ \/ /\ call[c].future = "reply"
        /\ End(c, IF channel.generation = call[c].generation THEN "returned" ELSE "stale")
     \/ call[c].future \in Over /\ End(c, call[c].future)
  /\ Finally(c)
  /\ UNCHANGED <<accepted, browser, diag, toPython>>

-----------------------------------------------------------------------------
(* Python: the view. *)

\* NotebookView.close by whoever; its cancels and failures follow.  A fatal
\* diagnostic starts the same in `fail'.
Close ==
  /\ ~channel.closed /\ channel.failing = "none"
  /\ channel' = [channel EXCEPT !.closed = TRUE, !.generation = None, !.failing = "closed"]
  /\ UNCHANGED <<call, accepted, browser, diag, toBrowser, toPython>>

\* One cancel per pending request.
SendCancels ==
  /\ channel.failing \in {"closed", "fatal"} /\ ~channel.cancelled
  /\ LET ids == DOMAIN channel.pending
         order == CHOOSE s \in [1..Cardinality(ids) -> ids] : {s[i] : i \in 1..Cardinality(ids)} = ids
     IN toBrowser' = toBrowser \o [i \in 1..Cardinality(ids) |->
                       [type |-> "cancel", id |-> order[i], generation |-> channel.pending[order[i]]]]
  /\ channel' = [channel EXCEPT !.cancelled = TRUE]
  /\ UNCHANGED <<call, accepted, browser, diag, toPython>>

\* _fail_pending and the waiters; a closed view then closes its comm.
FailAll ==
  /\ channel.failing # "none" /\ channel.cancelled
  /\ call' = Complete(DOMAIN channel.pending \cup channel.ready, channel.failing, call)
  /\ channel' = [Dropped(DOMAIN channel.pending) EXCEPT !.ready = {}, !.failing = "none", !.cancelled = FALSE]
  /\ toBrowser' = IF channel.failing = "closed" THEN Append(toBrowser, [type |-> "close"]) ELSE toBrowser
  /\ UNCHANGED <<accepted, browser, diag, toPython>>

Update ==
  /\ accepted.updates < MaxUpdates /\ ~channel.closed
  /\ accepted' = [accepted EXCEPT !.updates = @ + 1]
  /\ toBrowser' = Append(toBrowser, [type |-> "update", seq |-> accepted.updates + 1])
  /\ UNCHANGED <<call, channel, browser, diag, toPython>>

\* _on_inspection: requests of another generation fail, waiters get the new one.
Renamed(generation, failing) ==
  LET lost == channel.generation # None /\ channel.generation # generation
      failed == IF lost THEN DOMAIN channel.pending ELSE {}
      woken == IF generation = None THEN {} ELSE channel.ready
  IN /\ channel' = [Dropped(failed) EXCEPT !.generation = generation, !.ready = @ \ woken, !.failing = failing]
     /\ call' = Complete(woken, "named",
                  Complete(failed, IF generation = None THEN "closed" ELSE "stale",
                    [c \in Calls |-> IF c \in woken THEN [call[c] EXCEPT !.generation = generation] ELSE call[c]]))

\* The traits of a message are cross-validated, then observed: an older revision of
\* _diagnostics keeps what was accepted, and fatal ones fail every request.
Accepts(m) == ~channel.closed /\ m.revision > accepted.revision

ReceiveTraits ==
  /\ toPython # <<>> /\ Head(toPython).type = "traits" /\ channel.failing = "none"
  /\ LET m == Head(toPython)
         fatal == Accepts(m) /\ m.errors = "fatal" /\ (m.seq >= accepted.updates \/ m.generation = None)
     IN /\ \/ Accepts(m) /\ accepted' = [accepted EXCEPT !.revision = m.revision, !.seq = m.seq, !.errors = m.errors]
           \/ ~Accepts(m) /\ UNCHANGED accepted
        /\ \/ channel.closed /\ UNCHANGED <<call, channel>>
           \/ ~channel.closed /\ Renamed(m.generation, IF fatal THEN "fatal" ELSE "none")
  /\ toPython' = Tail(toPython)
  /\ UNCHANGED <<browser, diag, toBrowser>>

\* _on_message.
ReceiveResponse ==
  /\ toPython # <<>> /\ Head(toPython).type = "response" /\ channel.failing = "none"
  /\ LET m == Head(toPython)
         wanted == /\ ~channel.closed /\ m.id \in DOMAIN channel.pending
                   /\ channel.pending[m.id] = m.generation /\ m.generation = channel.generation
     IN \/ wanted /\ call' = Complete({m.id}, m.outcome, call) /\ channel' = Dropped({m.id})
        \/ ~wanted /\ UNCHANGED <<call, channel>>
  /\ toPython' = Tail(toPython)
  /\ UNCHANGED <<accepted, browser, diag, toBrowser>>
-----------------------------------------------------------------------------
(* The browser: diagnostics. *)

\* #schedule and flush.  The microtask runs before the browser's next event, so both
\* are one step: a revision more, unless the model holds these errors and this sequence.
Publish(d, errors) ==
  LET seq == browser.applied IN
  IF d.model.seq = seq /\ d.model.errors = errors THEN [d EXCEPT !.errors = errors]
  ELSE [errors |-> errors, revision |-> d.revision + 1,
        model |-> [revision |-> d.revision + 1, seq |-> seq, errors |-> errors]]

\* Mutant: every render numbers its diagnostics from the start.
Publisher_restarts(d) == [d EXCEPT !.revision = 0]

\* A render makes a publisher, which goes on from the revision of the model.
Publisher(d) == [d EXCEPT !.revision = d.model.revision]

-----------------------------------------------------------------------------
(* The browser: the mount and its requests. *)

\* The signal of the mount is aborted.
Unmounted(stage) ==
  [browser EXCEPT !.stage = stage, !.generation = None, !.pending = {},
                  !.work = {[w EXCEPT !.aborted = TRUE] : w \in @},
                  !.inspection = None, !.unsent = @ \/ browser.generation # None]

\* The widget's render, or a change that renders again.
Rerender ==
  /\ browser.stage \in {"away", "live", "failed"} /\ browser.mounts < MaxMounts
  /\ \/ browser.stage = "away" /\ diag' = Publish(Publisher(diag), "none")
     \/ browser.stage # "away" /\ diag' = Publish(diag, "none")
  /\ browser' = [Unmounted("resolving") EXCEPT !.mounts = @ + 1, !.unsent = @ \/ diag'.model # diag.model]
  /\ UNCHANGED <<call, channel, accepted, toBrowser, toPython>>

\* mountView: the session is resolved, connectRequests publishes a new generation.
Connect ==
  /\ browser.stage = "resolving"
  /\ browser' = [browser EXCEPT !.stage = "live", !.generation = browser.mounts, !.applied = browser.session,
                                !.inspection = browser.mounts, !.unsent = TRUE]
  /\ UNCHANGED <<call, channel, accepted, diag, toBrowser, toPython>>

\* fail: report, flush at once, abort.
ViewFails ==
  /\ browser.stage \in {"resolving", "live"} /\ browser.reports < MaxReports
  /\ diag' = Publish(diag, "fatal")
  /\ browser' = [Unmounted("failed") EXCEPT !.reports = @ + 1, !.unsent = TRUE]
  /\ UNCHANGED <<call, channel, accepted, toBrowser, toPython>>

\* The signal of the render is aborted: nothing is published any more but the metadata.
Leave ==
  /\ browser.stage \in {"resolving", "live", "failed"}
  /\ browser' = Unmounted("away")
  /\ UNCHANGED <<call, channel, accepted, diag, toBrowser, toPython>>

\* The mount's diagnostics change: replace("runtime", ...).
Report(errors) ==
  /\ browser.stage = "live" /\ browser.reports < MaxReports /\ diag.errors # errors
  /\ diag' = Publish(diag, errors)
  /\ browser' = [browser EXCEPT !.reports = @ + 1, !.unsent = TRUE]
  /\ UNCHANGED <<call, channel, accepted, toBrowser, toPython>>

\* The comm sends the traits saved since the last time.
SendTraits ==
  /\ browser.unsent
  /\ browser' = [browser EXCEPT !.unsent = FALSE]
  /\ LET model == diag.model
     IN toPython' = Append(toPython, [type |-> "traits", generation |-> browser.inspection,
                             revision |-> model.revision, seq |-> model.seq, errors |-> model.errors])
  /\ UNCHANGED <<call, channel, accepted, diag, toBrowser>>

\* receive, while a mount listens.
ReceiveRequest(m) ==
  /\ m.type = "request"
  /\ \/ /\ m.generation = browser.generation /\ m.id \notin browser.pending
        /\ browser' = [browser EXCEPT !.pending = @ \cup {m.id},
                         !.work = @ \cup {[id |-> m.id, generation |-> m.generation, aborted |-> FALSE]}]
     \/ ~(m.generation = browser.generation /\ m.id \notin browser.pending) /\ UNCHANGED browser
  /\ UNCHANGED diag

ReceiveCancel(m) ==
  /\ m.type = "cancel"
  /\ \/ /\ m.generation = browser.generation
        /\ browser' = [browser EXCEPT !.pending = @ \ {m.id},
                         !.work = {IF w.id = m.id /\ w.id \in browser.pending THEN [w EXCEPT !.aborted = TRUE] ELSE w : w \in @}]
     \/ m.generation # browser.generation /\ UNCHANGED browser
  /\ UNCHANGED diag

ReceiveUpdate(m) ==
  /\ m.type = "update"
  /\ browser' = [browser EXCEPT !.session = m.seq, !.applied = IF browser.stage = "live" THEN m.seq ELSE @]
  /\ UNCHANGED diag

ReceiveClose(m) ==
  /\ m.type = "close"
  /\ browser' = [Unmounted("closed") EXCEPT !.unsent = FALSE]
  /\ UNCHANGED diag

ReceiveInBrowser ==
  /\ toBrowser # <<>>
  /\ LET m == Head(toBrowser) IN ReceiveRequest(m) \/ ReceiveCancel(m) \/ ReceiveUpdate(m) \/ ReceiveClose(m)
  /\ toBrowser' = Tail(toBrowser)
  /\ UNCHANGED <<call, channel, accepted, toPython>>

\* An operation ends; `describe' answers without asking whether it is still wanted.
Active(w) == ~w.aborted /\ w.id \in browser.pending

Finish(c) ==
  \E w \in browser.work, outcome \in {"reply", "error"} :
    /\ w.id = c
    /\ browser' = [browser EXCEPT !.work = @ \ {w}, !.pending = IF Active(w) THEN @ \ {c} ELSE @]
    /\ \/ /\ Active(w) \/ (outcome = "reply" /\ c \in Describes)
          /\ toPython' = Append(toPython, [type |-> "response", id |-> c, generation |-> w.generation, outcome |-> outcome])
       \/ /\ ~(Active(w) \/ (outcome = "reply" /\ c \in Describes))
          /\ UNCHANGED toPython
    /\ UNCHANGED <<call, channel, accepted, diag, toBrowser>>

-----------------------------------------------------------------------------
Init ==
  /\ call = [c \in Calls |-> [pc |-> "idle", generation |-> None, future |-> "none", queue |-> <<>>]]
  /\ channel = [generation |-> None, closed |-> FALSE, ready |-> {}, pending |-> [c \in {} |-> None],
                failing |-> "none", cancelled |-> FALSE]
  /\ accepted = [revision |-> 0, seq |-> 0, errors |-> "unknown", updates |-> 0]
  /\ browser = [stage |-> "away", generation |-> None, mounts |-> 0, reports |-> 0, session |-> 0, applied |-> 0,
                pending |-> {}, work |-> {}, inspection |-> None, unsent |-> FALSE]
  /\ diag = [revision |-> 0, errors |-> "none", model |-> [revision |-> 0, seq |-> 0, errors |-> "unknown"]]
  /\ toBrowser = <<>> /\ toPython = <<>>

Coroutine(c) ==
  \/ AddReady(c) \/ LookAgain(c) \/ RunCompletion(c) \/ ResumeReady(c) \/ Check(c) \/ Register(c) \/ Recheck(c)
  \/ SendRequest(c) \/ Resume(c)

Comm == SendCancels \/ FailAll \/ ReceiveTraits \/ ReceiveResponse

Transport == SendTraits \/ ReceiveInBrowser \/ Connect

Next ==
  \/ \E c \in Calls : Request(c) \/ Coroutine(c) \/ TimeOut(c) \/ Finish(c)
  \/ Comm \/ Transport \/ Close \/ Update \/ Rerender \/ ViewFails \/ Leave
  \/ \E errors \in {"none", "fatal"} : Report(errors)

\* Loops and threads run, the comm delivers, and operations end.
Fairness ==
  /\ \A c \in Calls : WF_vars(Coroutine(c)) /\ WF_vars(Finish(c))
  /\ WF_vars(SendCancels) /\ WF_vars(FailAll) /\ WF_vars(ReceiveTraits) /\ WF_vars(ReceiveResponse)
  /\ WF_vars(SendTraits) /\ WF_vars(ReceiveInBrowser) /\ WF_vars(Connect)

Spec == Init /\ [][Next]_vars /\ Fairness

-----------------------------------------------------------------------------
\* A call that has a generation to ask ends without any deadline: it is answered, or
\* failed when the mount it asked is replaced, fails or closes, whichever thread sees
\* that between two of its statements.
RequestsEnd ==
  \A c \in Calls : call[c].pc \in {"named", "checked", "registered", "sending", "sent"} ~> Ended(c)

\* A call that is over has left both tables; and in a view that reported no failure the
\* browser no longer works for one that gave up.
NothingIsLeftBehind ==
  \A c \in Calls : Ended(c) =>
    /\ c \notin DOMAIN channel.pending \cup channel.ready
    /\ At(c, "timed out") /\ toBrowser = <<>> /\ browser.reports = 0 => c \notin browser.pending

\* Python's diagnostics are those of the browser's live view once everything is sent
\* and received, across mounts, failures and new renders.
DiagnosticsAgree ==
  (/\ ~channel.closed /\ browser.stage \in {"resolving", "live", "failed"} /\ ~browser.unsent /\ toPython = <<>>) => accepted.errors = diag.errors
=============================================================================
