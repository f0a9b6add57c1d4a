------------------------------ MODULE EngineHost ------------------------------
(***************************************************************************)
(* Requests of Python threads and coroutines to one embedded engine        *)
(* (_host.py: EngineHost and EmbeddedEngine), composed with the isolate    *)
(* that answers them (Isolate).                                            *)
(*                                                                         *)
(* Every caller, the reader thread and the owner of the engine run         *)
(* concurrently.  A step is what one of them does while it holds the       *)
(* host's lock, or one call into the engine.                               *)
(***************************************************************************)
EXTENDS Isolate

CONSTANT Async       \* the requests made by coroutines, which can be cancelled

ASSUME HostAssumption ==
  /\ Async \subseteq Requests /\ Importing \subseteq Requests
  /\ {"owner", "reader"} \cap Requests = {}

VARIABLES
  ready,       \* EngineHost._ready
  table,       \* EngineHost._pending, the requests that can be answered
  future,      \* the future of each request
  call,        \* where each caller stands
  ended,       \* how each call ended
  closing,     \* how far each caller of close has come
  reader,      \* the reader thread, with the failure it stops for
  resolving    \* the imports that resolver threads work on

hostVars == <<ready, table, future, call, ended, closing, reader, resolving>>
engineVars == <<isolateVars, hostVars>>

Closers == Requests \cup {"owner", "reader"}
Failures == {"closed", "engine_failed", "protocol_error"}

\* EngineHost._closed: somebody began to close, which is for good.
Closed == \E c \in Closers : closing[c] # "no"

HostTypeOK ==
  /\ ready \in {"waiting", "done"} \cup Failures
  /\ table \subseteq Requests
  /\ future \in [Requests -> {"none", "answer"} \cup Failures]
  /\ call \in [Requests -> {"idle", "starting", "orphaned", "sending", "waiting",
                            "timed_out", "cancelled", "ended"}]
  /\ ended \in [Requests -> {"none", "answer", "timeout", "cancelled"} \cup Failures]
  /\ closing \in [Closers -> {"no", "failing", "marking", "terminating", "joining", "done"}]
  /\ reader \in {"reading", "closing", "ended"} \cup Failures
  /\ resolving \subseteq Requests

EngineTypeOK == IsolateTypeOK /\ MessagesTypeOK /\ HostTypeOK

EngineInit ==
  /\ IsolateInit
  /\ ready = "waiting" /\ table = {}
  /\ future = [r \in Requests |-> "none"]
  /\ call = [r \in Requests |-> "idle"]
  /\ ended = [r \in Requests |-> "none"]
  /\ closing = [c \in Closers |-> "no"]
  /\ reader = "reading" /\ resolving = {}

-----------------------------------------------------------------------------
(* Calling *)

End(r, how) ==
  /\ call' = [call EXCEPT ![r] = "ended"]
  /\ ended' = [ended EXCEPT ![r] = how]

\* request and request_async: wait until the engine is ready.
BeginCall(r) ==
  /\ call[r] = "idle"
  /\ call' = [call EXCEPT ![r] = "starting"]
  /\ UNCHANGED <<isolateVars, ready, table, future, ended, closing, reader, resolving>>

\* Mutant: a closed engine is not noticed.
Register_closed(r) ==
  /\ call[r] = "starting" /\ ready = "done"
  /\ table' = table \cup {r}
  /\ call' = [call EXCEPT ![r] = "sending"]
  /\ UNCHANGED <<isolateVars, ready, future, ended, closing, reader, resolving>>

\* _pending_request: an open engine accepts the request under the lock.
Register(r) ==
  /\ call[r] = "starting" /\ ready = "done"
  /\ \/ Closed /\ End(r, "closed") /\ UNCHANGED table
     \/ /\ ~Closed
        /\ table' = table \cup {r}
        /\ call' = [call EXCEPT ![r] = "sending"]
        /\ UNCHANGED ended
  /\ UNCHANGED <<isolateVars, ready, future, closing, reader, resolving>>

\* _wait_ready raises the failure that preparation ended with.
PreparationFailed(r) ==
  /\ call[r] = "starting" /\ ready \in Failures
  /\ End(r, ready)
  /\ UNCHANGED <<isolateVars, ready, table, future, closing, reader, resolving>>

PreparationTimesOut(r) ==
  /\ call[r] \in {"starting", "orphaned"} /\ ready = "waiting"
  /\ call' = [call EXCEPT ![r] = IF @ = "starting" THEN "timed_out" ELSE "cancelled"]
  /\ UNCHANGED <<isolateVars, ready, table, future, ended, closing, reader, resolving>>

\* The coroutine is cancelled while a worker thread waits for the engine in its stead.
CancelPreparation(r) ==
  /\ r \in Async /\ call[r] = "starting"
  /\ call' = [call EXCEPT ![r] = "orphaned"]
  /\ ended' = [ended EXCEPT ![r] = "cancelled"]
  /\ UNCHANGED <<isolateVars, ready, table, future, closing, reader, resolving>>

\* The thread that outlives its coroutine has nothing left to do.
OrphanEnds(r) ==
  /\ call[r] = "orphaned" /\ ready # "waiting"
  /\ call' = [call EXCEPT ![r] = "ended"]
  /\ UNCHANGED <<isolateVars, ready, table, future, ended, closing, reader, resolving>>

\* _send: an engine that stopped gives its reason, which may not be recorded yet.
Send(r) ==
  /\ call[r] = "sending"
  /\ \/ /\ CanSend
        /\ inbound' = Append(inbound, Request(r))
        /\ call' = [call EXCEPT ![r] = "waiting"]
        /\ UNCHANGED <<table, ended>>
     \/ /\ ~CanSend
        /\ \/ exit = "memory" /\ End(r, "engine_failed")
           \/ exit # "memory" /\ End(r, "closed")
        /\ table' = table \ {r}
        /\ UNCHANGED inbound
  /\ UNCHANGED <<signals, outbound, thread, job, ending, exit, ready, future, closing, reader, resolving>>

Complete(r) ==
  /\ call[r] = "waiting" /\ future[r] # "none"
  /\ End(r, future[r])
  /\ table' = table \ {r}
  /\ UNCHANGED <<isolateVars, ready, future, closing, reader, resolving>>

\* A coroutine's deadline or cancellation can overtake an answer on its way to the event loop.
GivesUp(r, how) ==
  /\ call[r] = "waiting" /\ (future[r] = "none" \/ r \in Async)
  /\ call' = [call EXCEPT ![r] = how]
  /\ table' = table \ {r}
  /\ UNCHANGED <<isolateVars, ready, future, ended, closing, reader, resolving>>

TimeOut(r) == GivesUp(r, "timed_out")

Cancel(r) == r \in Async /\ GivesUp(r, "cancelled")

-----------------------------------------------------------------------------
(* Closing *)

\* close: the first caller closes; another returns at once.
BeginClose(c) ==
  /\ closing' = [closing EXCEPT ![c] = IF Closed THEN "done" ELSE "failing"]

\* _fail: the table is emptied under the lock, and whoever waits gets the failure right after,
\* from the only thread that can still find its future.
FailAll(failure) ==
  /\ ready' = IF ready = "waiting" THEN failure ELSE ready
  /\ future' = [r \in Requests |->
                  IF r \in table /\ future[r] = "none" THEN failure ELSE future[r]]
  /\ table' = {}

CallerCloses(r) ==
  /\ call[r] \in {"timed_out", "cancelled"} /\ closing[r] = "no"
  /\ BeginClose(r)
  /\ UNCHANGED <<isolateVars, ready, table, future, call, ended, reader, resolving>>

\* Evaluation.close, or the inspector that gives its idle engine up.
OwnerCloses ==
  /\ closing["owner"] = "no"
  /\ BeginClose("owner")
  /\ UNCHANGED <<isolateVars, ready, table, future, call, ended, reader, resolving>>

FailPending(c) ==
  /\ closing[c] = "failing"
  /\ FailAll("closed")
  /\ closing' = [closing EXCEPT ![c] = "marking"]
  /\ UNCHANGED <<isolateVars, call, ended, reader, resolving>>

\* _shutdown: Owner.stop in its two steps.
StopMarks(c) ==
  /\ closing[c] = "marking"
  /\ MarkStopping
  /\ closing' = [closing EXCEPT ![c] = "terminating"]
  /\ UNCHANGED <<inbound, outbound, thread, job, ending, exit, ready, table, future, call, ended, reader, resolving>>

StopTerminates(c) ==
  /\ closing[c] = "terminating"
  /\ Terminate
  /\ closing' = [closing EXCEPT ![c] = "joining"]
  /\ UNCHANGED <<inbound, outbound, thread, job, ending, exit,
                 ready, table, future, call, ended, reader, resolving>>

Joined(c) ==
  /\ closing[c] = "joining" /\ thread = "finished"
  /\ closing' = [closing EXCEPT ![c] = "done"]
  /\ UNCHANGED <<isolateVars, ready, table, future, call, ended, reader, resolving>>

\* Mutant: the timeout is reported before the engine is closed.
Report_first(r) ==
  /\ call[r] \in {"timed_out", "cancelled"}
  /\ End(r, IF call[r] = "timed_out" THEN "timeout" ELSE "cancelled")
  /\ UNCHANGED <<isolateVars, ready, table, future, closing, reader, resolving>>

\* The caller that closed the engine reports why.
Report(r) ==
  /\ call[r] \in {"timed_out", "cancelled"} /\ closing[r] = "done"
  /\ End(r, IF call[r] = "timed_out" THEN "timeout" ELSE "cancelled")
  /\ UNCHANGED <<isolateVars, ready, table, future, closing, reader, resolving>>

-----------------------------------------------------------------------------
(* The reader thread and the resolvers *)

\* _deliver: an answer nobody waits for any more is dropped.
Deliver ==
  /\ reader = "reading" /\ outbound # <<>>
  /\ LET m == Head(outbound)
     IN \/ /\ m.type = "ready"
           /\ \/ ready = "waiting" /\ ready' = "done" /\ UNCHANGED reader
              \/ ready # "waiting" /\ reader' = "protocol_error" /\ UNCHANGED ready
           /\ UNCHANGED <<table, future, resolving>>
        \/ /\ m.type = "source"
           /\ resolving' = resolving \cup {m.id}
           /\ UNCHANGED <<ready, reader, table, future>>
        \/ /\ m.type = "response"
           /\ \/ m.id \in table /\ future[m.id] = "none" /\ future' = [future EXCEPT ![m.id] = "answer"]
              \/ (m.id \notin table \/ future[m.id] # "none") /\ UNCHANGED future
           /\ table' = table \ {m.id}
           /\ UNCHANGED <<ready, reader, resolving>>
  /\ outbound' = Tail(outbound)
  /\ UNCHANGED <<signals, inbound, thread, job, ending, exit, call, ended, closing>>

\* Mutant: the reader thread just ends.
Disconnect_silently ==
  /\ reader = "reading" /\ Disconnected
  /\ reader' = "ended"
  /\ UNCHANGED <<isolateVars, ready, table, future, call, ended, closing, resolving>>

\* _read: the isolate stopped.  A stop that Python asked for is no failure.
Disconnect ==
  /\ reader = "reading" /\ Disconnected
  /\ reader' = IF exit # "memory" /\ Closed THEN "ended" ELSE "engine_failed"
  /\ UNCHANGED <<isolateVars, ready, table, future, call, ended, closing, resolving>>

\* _stop: everyone gets the failure, then the reader closes the engine.
ReaderFails ==
  /\ reader \in Failures
  /\ FailAll(reader)
  /\ reader' = "closing"
  /\ UNCHANGED <<isolateVars, call, ended, closing, resolving>>

ReaderCloses ==
  /\ reader = "closing"
  /\ reader' = "ended"
  /\ BeginClose("reader")
  /\ UNCHANGED <<isolateVars, ready, table, future, call, ended, resolving>>

\* _resolve_source: the source, or the error instead of it, unless the engine stopped.
Resolve(r) ==
  /\ r \in resolving
  /\ resolving' = resolving \ {r}
  /\ inbound' = IF CanSend THEN Append(inbound, SourceOf(r)) ELSE inbound
  /\ UNCHANGED <<signals, outbound, thread, job, ending, exit, ready, table, future, call, ended, closing, reader>>

-----------------------------------------------------------------------------
CallGoesOn(r) == Register(r) \/ PreparationFailed(r) \/ OrphanEnds(r) \/ Send(r) \/ Complete(r)

Closes(c) == FailPending(c) \/ StopMarks(c) \/ StopTerminates(c) \/ Joined(c)

Reads == Deliver \/ Disconnect \/ ReaderFails \/ ReaderCloses

IsolateStep == IsolateNext /\ UNCHANGED hostVars

EngineNext ==
  \/ IsolateStep
  \/ \E r \in Requests :
       \/ BeginCall(r) \/ CallGoesOn(r)
       \/ PreparationTimesOut(r) \/ CancelPreparation(r) \/ TimeOut(r) \/ Cancel(r)
       \/ CallerCloses(r) \/ Report(r) \/ Resolve(r)
  \/ OwnerCloses
  \/ \E c \in Closers : Closes(c)
  \/ Reads

\* Threads run: those of Python, and the isolate's when no notebook code holds it.
\* Nothing obliges notebook code to return, a request to be answered, or a deadline to exist.
EngineFairness ==
  /\ WF_engineVars(IsolateRuns /\ UNCHANGED hostVars)
  /\ \A r \in Requests : WF_engineVars(CallGoesOn(r)) /\ WF_engineVars(CallerCloses(r) \/ Report(r))
  /\ \A c \in Closers : WF_engineVars(Closes(c))
  /\ WF_engineVars(Reads)

EngineSpec == EngineInit /\ [][EngineNext]_engineVars /\ EngineFairness

-----------------------------------------------------------------------------
(* Properties *)

\* Nobody waits for an answer that cannot come: whoever waits can still be answered or failed
\* (_deliver and _fail find it in the table), and a closed engine has nobody left in its table
\* once the caller that closed it has failed the pending requests.
NoWaiterIsForgotten ==
  /\ \A r \in Requests :
       call[r] \in {"sending", "waiting"} /\ future[r] = "none" => r \in table
  /\ Closed /\ (\A c \in Closers : closing[c] # "failing") => table = {} /\ ready # "waiting"

\* A timeout is reported only once the engine is closed, with the isolate told to stop unless
\* another thread is about to: notebook code that outlives its deadline does not keep running.
TimeoutStopsTheEngine ==
  \A r \in Requests : ended[r] = "timeout" =>
    Closed /\ ("stopping" \in signals \/ \E c \in Closers : closing[c] \in {"failing", "marking"})

\* No caller is told that the engine failed unless the isolate recorded an error: a stop that
\* Python asked for is never mistaken for a crash (isolate.rs, run; _host.py, _read).
FailureHasCause ==
  \A r \in Requests : ended[r] = "engine_failed" => exit # "none"

\* Closing ends the isolate's thread even while notebook code loops for ever or the isolate is
\* still being created: stop marks, then terminates what it can see (worker.rs, stop).
CloseStopsTheIsolate == Closed ~> thread = "finished"

\* Once the engine is closed or its isolate has ended, every request that began comes to an
\* end, also one without a deadline.
RequestsEnd ==
  \A r \in Requests :
    (call[r] # "idle" /\ (Closed \/ thread = "finished")) ~> call[r] = "ended"

\* A timeout or cancelled asynchronous request closes the engine (_host.py:73).
CancellationClosesTheEngine ==
  \A r \in Requests : ended[r] = "cancelled" => Closed
=============================================================================
