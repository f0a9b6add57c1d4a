-------------------------------- MODULE Isolate --------------------------------
(***************************************************************************)
(* One V8 isolate on its own thread, and the channels it shares with the   *)
(* handle that Python holds (engine-rust: worker.rs, isolate.rs), with the *)
(* JavaScript service that answers requests in it (engine-ts: embedded.ts, *)
(* service.ts).                                                            *)
(*                                                                         *)
(* The handle's side (sending, receiving, stopping) is operators over this *)
(* state, used by the actions of EngineHost.  The thread's side is the     *)
(* actions of this module.  Notebook code is external: a request that was  *)
(* accepted may be answered in any order, may ask Python for the source of *)
(* an import first, may loop for ever, or may exhaust the heap.            *)
(***************************************************************************)
EXTENDS Sequences, FiniteSets

CONSTANTS
  Requests,     \* the requests of Python, each with its own identifier
  Importing     \* the requests whose notebook imports another one by its name

VARIABLES
  signals,      \* what stop has done: see Signals
  inbound,      \* the requests and source replies not yet received
  outbound,     \* the messages not yet received by Python
  thread,       \* where the isolate's thread stands
  job,          \* what the service does for each request
  ending,       \* how the evaluation ended, once it has
  exit          \* Owner.exit, the error that the thread recorded

isolateVars == <<signals, inbound, outbound, thread, job, ending, exit>>

\* Owner.stopping is set; Owner.inbound is empty; V8 was told to terminate the execution;
\* Owner.shutdown holds a permit.
Signals == {"stopping", "sender_dropped", "terminated", "notified"}

Request(r) == [type |-> "request", id |-> r]
SourceOf(r) == [type |-> "source", id |-> r]
Response(r) == [type |-> "response", id |-> r]
Ready == [type |-> "ready"]

ToIsolate == {Request(r) : r \in Requests} \cup {SourceOf(r) : r \in Requests}
ToPython == {Ready} \cup {Response(r) : r \in Requests} \cup {SourceOf(r) : r \in Requests}

MessagesTypeOK == inbound \in Seq(ToIsolate) /\ outbound \in Seq(ToPython)

IsolateTypeOK ==
  /\ signals \subseteq Signals
  /\ thread \in {"creating", "published", "loading", "serving", "looping", "dropped", "finished"}
  /\ job \in [Requests -> {"absent", "running", "importing", "imported", "answered"}]
  /\ ending \in {"none", "closed", "runtime", "memory"}
  /\ exit \in {"none", "runtime", "memory"}

IsolateInit ==
  /\ signals = {}
  /\ inbound = <<>> /\ outbound = <<>>
  /\ thread = "creating"
  /\ job = [r \in Requests |-> "absent"]
  /\ ending = "none" /\ exit = "none"

-----------------------------------------------------------------------------
(* The handle's side *)

\* The thread holds both ends of the channels until the runtime is dropped.
Dropped == thread \in {"dropped", "finished"}

\* A message can be queued while the handle was not stopped and the thread listens.
CanSend == "sender_dropped" \notin signals /\ ~Dropped

\* Every message was received and no more can come; the thread's reason is recorded.
Disconnected == outbound = <<>> /\ thread = "finished"

\* stop: the first of its two steps, which the thread can run between.
MarkStopping == signals' = signals \cup {"stopping"}

\* Mutant: only the event loop is told to stop.
Terminate_politely == signals' = signals \cup {"sender_dropped", "notified"}

\* There is nothing to terminate before the handle is published.
Terminate ==
  signals' = signals \cup
    (IF thread = "creating" THEN {"sender_dropped", "notified"}
                            ELSE {"sender_dropped", "notified", "terminated"})

-----------------------------------------------------------------------------
(* The thread's side *)

\* The evaluation ends with this result; the runtime and its channel ends are dropped.
Leave(how) ==
  /\ thread' = "dropped"
  /\ ending' = how
  /\ inbound' = <<>>
  /\ UNCHANGED <<signals, outbound, job, exit>>

\* The isolate is created and its handle becomes visible to stop.
Publish ==
  /\ thread = "creating"
  /\ thread' = "published"
  /\ UNCHANGED <<signals, inbound, outbound, job, ending, exit>>

CreationFails == thread = "creating" /\ Leave("runtime")

\* A stop that came before the handle was published could not terminate anything.
CheckStopping ==
  /\ thread = "published"
  /\ \/ "stopping" \in signals /\ Leave("closed")
     \/ /\ "stopping" \notin signals
        /\ thread' = "loading"
        /\ UNCHANGED <<signals, inbound, outbound, job, ending, exit>>

Runs == "terminated" \notin signals

\* The bundle loads and announces itself.
Load ==
  /\ thread = "loading" /\ Runs
  /\ thread' = "serving"
  /\ outbound' = Append(outbound, Ready)
  /\ UNCHANGED <<signals, inbound, job, ending, exit>>

\* service.receive: a request starts to execute; a source reply settles its import.
Take ==
  /\ thread = "serving" /\ Runs
  /\ inbound # <<>>
  /\ LET m == Head(inbound)
     IN job' = [job EXCEPT ![m.id] = IF m.type = "request" THEN "running" ELSE "imported"]
  /\ inbound' = Tail(inbound)
  /\ UNCHANGED <<signals, outbound, thread, ending, exit>>

\* resolveNotebook: a notebook import needs a source that Python resolves.
AskSource(r) ==
  /\ thread = "serving" /\ Runs
  /\ r \in Importing /\ job[r] = "running"
  /\ job' = [job EXCEPT ![r] = "importing"]
  /\ outbound' = Append(outbound, SourceOf(r))
  /\ UNCHANGED <<signals, inbound, thread, ending, exit>>

\* execute ends, with a result or with diagnostics: both are one response.
Respond(r) ==
  /\ thread = "serving" /\ Runs
  /\ job[r] \in {"running", "imported"}
  /\ job' = [job EXCEPT ![r] = "answered"]
  /\ outbound' = Append(outbound, Response(r))
  /\ UNCHANGED <<signals, inbound, thread, ending, exit>>

\* External: a cell of the notebook never returns.
Loop(r) ==
  /\ thread = "serving" /\ Runs
  /\ job[r] # "absent"
  /\ thread' = "looping"
  /\ UNCHANGED <<signals, inbound, outbound, job, ending, exit>>

\* External: the heap limit is reached, or the bundle fails.
ThreadFails ==
  /\ thread \in {"loading", "serving", "looping"}
  /\ \E how \in {"runtime", "memory"} : Leave(how)

\* Termination stops running code; the permit is seen when no code runs.
Stopped ==
  /\ \/ thread \in {"loading", "serving", "looping"} /\ "terminated" \in signals
     \/ thread \in {"loading", "serving"} /\ "notified" \in signals
  /\ Leave("closed")

\* finish: an error that a stop explains is not recorded.
Finish ==
  /\ thread = "dropped"
  /\ thread' = "finished"
  /\ signals' = signals \cup {"stopping"}
  /\ exit' = IF ending = "memory" \/ (ending = "runtime" /\ "stopping" \notin signals)
                THEN ending ELSE exit
  /\ UNCHANGED <<inbound, outbound, job, ending>>

\* What the thread does by itself, whatever the notebook does.
IsolateRuns == Publish \/ CheckStopping \/ Load \/ Take \/ Stopped \/ Finish

IsolateNext ==
  \/ IsolateRuns
  \/ CreationFails \/ ThreadFails
  \/ \E r \in Requests : AskSource(r) \/ Respond(r) \/ Loop(r)
=============================================================================
