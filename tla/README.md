# A formal model of pyobservablejs

pyobservablejs runs Observable notebooks from Python: a TypeScript runtime mounts a
notebook in the browser (or headless in an embedded engine), an anywidget view connects a
mount to Python, and Python objects read values, set variables and wait for evaluation.
This directory models the parts whose correctness depends on the order of events.

## The system

| Part | State it keeps | Operations | Interacts with |
| --- | --- | --- | --- |
| Evaluation state (`packages/runtime/src/state.ts`) | revisions, pending cells, results, tokens' minimum revisions, settlement generation | start, begin, beginInput, beginCell, settleCell, fail, invalidate, close | called by the mount and by one cell-state object per cell; its microtask settles revisions; `onState` calls the host |
| Cell state (`cell-state.ts`) | expected channels, their status and errors | configure, pending, fulfilled, rejected, fail | observers of the Observable runtime call it |
| Mount (`mount.ts`, `composition.ts`, `cell-renderer.ts`) | the current attempt, host variables, inputs | render, updateVariables, replaceVariables, setInputs, dispose | creates everything above for each attempt |
| Inputs (`inputs.ts`, `view-inputs.ts`) | registered controls, write versions, overridden names | set, replace, setView, write, register, onInteraction | writes controls, redefines Observable variables, opens revisions |
| Headless evaluation (`evaluate.ts`) | the same without controls | updateVariables, replaceVariables, ready, read | engine service |
| Native values (`notebook-values.ts`, `read.ts`) | values per cell and name, epochs, datasets | pending, fulfilled, invalidate, read | observers and host reads |
| Widget view (`packages/widget/src/view.ts`, `readback.ts`) | transport revision, pending snapshot, last variable sequence, shared inputs | rerender, publish, flush, onVariables, onSharedInputs | traits shared with Python |
| Requests (`requests.ts`, `_requests.py`, `errors.ts`) | pending requests on both sides, generation, diagnostics | request, cancel, reply, report, close | custom messages, traits |
| Python view (`_view.py`) | accepted readback and diagnostics | validate, publish, ready, close | widget traits, requests |
| Shared inputs (`_controller.py`, `_widget_session.py`, `view.ts`) | Python's variables and their sequence, the inputs that views share | set, replace, reset; mount, interact, clear | session traits, change events |
| Value encoding (`packages/protocol/src/values.ts`, `_variables.py`) | none that outlives a call | encode, decode | every message that carries values |
| Dependencies (`graph.ts`, `_graph.py`, `_cell_ids.py`) | ids, the accepted graph | allocate, select, analyse, validate, walk | readback |
| Files (`attachments.ts`) | object URLs, promises of them, the page's SQLite module | url, db, cleanup, load | DuckDB and SQLite clients of cells |
| Module cache (`packages/engine-rust/src/cache.rs`, `network.rs`) | modules in memory and in a directory | load, read, write | imports of every engine, other processes |
| Evaluation host (`_host.py`, `_execution.py`, `_evaluation_pool.py`) | open evaluations, pool slots, bindings, inspector leases | acquire, release, request, close | Rust engine |
| Engine (`packages/engine-ts`, `packages/engine-rust`) | sessions, request table; worker thread, isolate | open, ready, read, close; send, terminate | Python host |
| Formats, rendering | none that outlives a call | parsing, DOM output | |

Hard behaviours: host callbacks that re-enter the evaluation state, results that arrive
after their inputs changed, microtask settlement, awaited control writes, several observer
channels per cell, batched traits and messages between two processes, timeouts racing
answers, and cancellation while a slot is handed over. `PROJECT.json` lists each hazard at
its line.

## Modules

* `EvaluationOps` holds every method of `EvaluationState` as an operator on one record, so
  a caller that runs several of them in one synchronous turn composes them into one step.
  `null` revisions are `NoRevision` (-1). `#settlementGeneration` and the queue of
  settlement microtasks are one field, `settlement`: the revision carried by the only
  microtask whose generation is still current.
* `EvaluationState` is one mount's state under everything its callers may do. A terminal
  event is two steps, `Observe` and `Settle`, because `beginCell` publishes a snapshot to host
  code (`state.ts:308`) and that code may call back. Between the two come the operations that
  such a callback can call, and nothing else: the event, its token and its settlement are one
  synchronous turn. The token is built after the callback, in `Settle`, so its revision is the one that the
  callback leaves (`state.ts:211`). `changes`, `basis` and `late` are history: which version of
  its inputs a result used, and which results come from an event whose own callback changed them.
* `RevisionProgress` is what a polling host may rely on: numbered waves, each waiting for a
  set of cells, settled when none is left and never reopened. `EvaluationState` implements
  it under the mapping `Progress`.
* `CellRuntime` is what a mounted and a headless evaluation share: the static graph, one
  cell-state object per cell, and the external Observable runtime (dirty, running and
  finished variables). It extends `EvaluationOps`. `Exposing` cells define a name; the display of
  such a cell is the name's own variable (`x =`), or a variable beside it (`Apart`: `const x`, `viewof x`),
  which goes on when the host makes the name a constant.
* `NotebookMount` extends it with what a mount does: host variables, names taken over by the
  host, controls with awaited writes. The constant `Surprises` names the failures a run
  lets happen.
* `HeadlessEvaluation` extends it with values for readers, diagnostics, and the requests of
  the engine service that wait: readiness, discovery, reads. `ReadbackWire` is what Python
  requires of each state it is sent; both sides of the wire are checked against it
  (`PublishedIsAccepted`, `ReadsAreCurrent`).
* `ViewReadback` follows a mount's state to Python: mounting and remounting in the widget,
  the `ReadbackPublisher`, batched trait updates and overtaking replies, the accepted
  readback in Python and `NotebookView.ready()`. Its mount makes the moves that `EvaluationState`
  was shown to make, reduced to the two facts that the publisher tells apart: whether
  cells are pending and whether there are results.
* `ViewRequests` is the request channel itself: the coroutine of `_requests.py` statement by
  statement against the comm thread, `requests.ts`, and the diagnostics that decide whether
  Python still believes in the view. `ViewReadback` keeps the one request it needs, `ready`,
  with its data; `ViewRequests` keeps every kind of request without data.
* `SharedInputs` is Python's variables and the inputs that the views of a notebook share, with
  the session's traits between them. Its one history variable, `history`, says of each name whether
  a user has set it since a view applied Python's last value, and whether an update of other names
  has changed its input.
* `HeadlessBindings` is the same question for an engine: how calls in several threads bring its
  variables up to date, and which snapshot they accept.
* `EvaluationPool` is the pool of headless evaluations of one notebook: threads that hold
  its lock while they build and open an engine, coroutines that await such a thread and may
  be cancelled, edits and the close of the notebook.
* `Isolate` is one V8 isolate on its thread: its channels, what Rust records when it ends,
  the JavaScript service in it. `EngineHost` extends it with the Python side: callers, the
  reader thread, resolver threads and everyone who may close the engine. The two modules
  share the channels and `stop`, so they are composed by `EXTENDS`: the operators of the
  handle in `Isolate` (`CanSend`, `MarkStopping`, `Terminate`, `Disconnected`) are used by
  the actions of `EngineHost`.
* `Inspector` is the engine that static inspections share: leases, its idle timer, and callers
  that close it for everyone.
* `ModuleCache` is a module's way into an engine through both caches and the network policy,
  with other processes and crashes.
* `Attachments` is the registry of a runtime's files: the object URLs made for DuckDB, the
  database over all files, the SQLite module of the page.
* `WireValues`, `NotebookGraph` and `SameValue` are algorithms against what they should
  compute: a value's way there and back, ids and dependencies on both sides, and the
  comparison of values with cycles and budgets. Each takes an input, runs step by step, and
  states the result in terms of the input alone. They hold the project's only `RECURSIVE`
  operators and are used by no module with proofs.
* `MCEvaluationState`, `MCNotebookMount`, `MCHeadlessEvaluation`, `MCEvaluationPool`,
  `MCSharedInputs`, `MCWireValues`, `MCNotebookGraph` and `MCSameValue` give the constants for TLC.
* `MCParts` puts eight modules that keep a state of their own side by side, each
  `INSTANCE`d with the registers as its variables. Each behaviour is one of one part: they
  meet only through values, so no step of one is a step of another. Their assumptions on
  constants are definitions that `MCParts` assumes together, since an instance's own
  `ASSUME` is not evaluated.

Operators named `X_how` are mutated forms of `X`, the mistakes that the properties are to catch.

The proofs are in modules of their own. `EvaluationOps_proofs` holds the lemmas about the operators
of `EvaluationOps`, and those about folds over sets. `CellRuntime_proofs` extends it with those about `CellRuntime`, for
`NotebookMount_proofs` and `HeadlessEvaluation_proofs`, which extend that. `ViewReadback_proofs`,
`ViewRequests_proofs`, `PythonHost_proofs` (`EvaluationPool` and `HeadlessBindings`) and `Parts_proofs`
(`EvaluationState`, `EngineHost`, `Attachments`, `Inspector`, `ModuleCache` and `SharedInputs`) hold the
other theorems. A name that two of these would share carries its component's (`EngineInit`,
`SharedInit`).

### How `NotebookMount` corresponds to the code

| Action | Code |
| --- | --- |
| `Mount`, `Replace` | `render` in `mount.ts` with `renderNotebookView`; `onReplace` invalidates first |
| `UpdateVariable`, `TakeName`, `UpdateView` | `updateVariables` with a name that no cell, a derived cell or a view defines |
| `Interact` | `onInteraction` or `setInputs` in `view-inputs.ts` |
| `WriteApplied`, `WriteOverridden`, `WriteFailed` | the three ends of the awaited `write` in `inputs.ts` |
| `ComputeNow`, `Finish`, `YieldControl`, `YieldGenerator` | observer calls of the Observable runtime into `cell-renderer.ts` and `cell-evaluation.ts` |
| `Microtask`, `Dispose` | the settlement microtask, `dispose` |

### How `ViewReadback` corresponds to the code

| Action | Code |
| --- | --- |
| `Display`, `Rerender`, `Leave` | `renderNotebookViewModel`: first render, change events, the abort of its signal |
| `ResolveFails`, `ViewError`, `Mounted` | `mountView` and the `fail` of `renderNotebookViewModel` |
| `MountOpens`, `MountFinishes`, `MountSettles`, `MountFails` | the mount, each publishing through the callback of `ReadbackPublisher.start` |
| `Update`, `ApplyUpdate` | `_patch_variables` in Python, `onVariables` in the view |
| `Microtask` | the microtask of `ReadbackPublisher.#enqueue` |
| `Send`, `Receive` | the transport; on arrival `_validate_readback`, `_on_inspection`, `_on_message` |
| `ReadyCall` to `ReadyTimeout` | `NotebookView.ready`, its request, and the `ready` and `checkpoint` of the view |

### How `EvaluationPool` corresponds to the code

| Action | Code |
| --- | --- |
| `Start`, `Lock`, `Check` | `_EvaluationPool.acquire` up to the lookup; stale evaluations leave the pool |
| `Construct`, `Register` | `Evaluation.__init__`, its registration last |
| `Track` | `_Acquisition.track`, which closes what a cancelled coroutine no longer wants |
| `Open`, `Opened`, `OpenFails` | `Evaluation.open`: its checks, and the two ends of its request |
| `Publish` | the pool keeps the evaluation and releases its lock |
| `Resume`, `Cancel`, `CloseTracked`, `Join` | `acquire_async` around its worker thread |
| `UserCloses`, `Edit`, `CloseNotebook`, `ListResources`, `CloseResource` | `Evaluation.close` by its users, a theme change, `NotebookController.close` step by step |

The engine is abstract here: a request to open may take for ever, and closing the evaluation
ends it. That is what `EngineHost` shows of the real one (`RequestsEnd`).

### How `EngineHost` and `Isolate` correspond to the code

| Action | Code |
| --- | --- |
| `BeginCall` to `OrphanEnds` | `_wait_ready`, in the caller's thread or in the worker thread of a coroutine, which goes on when the coroutine is cancelled |
| `Register`, `Send`, `Complete` | `_pending_request`: under the lock, the engine's `send`, and the answer |
| `TimeOut`, `Cancel`, `CallerCloses`, `Report` | the handlers of `request` and `request_async` |
| `OwnerCloses`, `FailPending`, `StopMarks`, `StopTerminates`, `Joined` | `close`: its lock, `_fail`, the two steps of `Owner::stop`, and the join |
| `Deliver`, `Disconnect`, `ReaderFails`, `ReaderCloses` | `_read` and `_stop` in the reader thread |
| `Resolve` | a resolver thread of `_resolve_source` |
| `Publish`, `CreationFails`, `CheckStopping`, `Load` | `evaluate` in `isolate.rs` until the bundle has loaded |
| `Take`, `AskSource`, `Respond`, `Loop`, `ThreadFails` | the service: requests run concurrently, may import, never return, or exhaust the heap |
| `Stopped`, `Finish` | the end of the event loop; `run` and `Owner::finish` record why |

`Owner::stop` is two steps because the thread checks `stopping` on its own between them;
`Leave` (channels dropped) and `Finish` (reason recorded) are two because Python can look in
between. `_fail` sets the failures of the futures just after it releases the lock; since
they are out of the table by then, nobody else can reach them and the model does both at
once. The reason is classified when it is recorded (`Finish`), in one step.

### Abstractions of `ViewReadback`

The transport is external. ipywidgets merges the traits saved while an update is in flight
into one later update, so `Send` takes the latest values; a reply leaves at once and can
overtake a merged update. Diagnostics are abstracted: a `ready()` call may raise at any
point where the code consults them. A view is displayed in one place at a time, as the
documentation requires.

### How the smaller modules correspond to the code

| Module | Action | Code |
| --- | --- | --- |
| `HeadlessEvaluation` | `UpdateVariable` to `ReplaceVariables`, `Dispose` | `evaluate.ts` with `setRuntimeVariables`, which restarts or takes over cells |
| | `AskReady`, `Abort`, `Answer`, `Refuse` | `readyState` (`ready.ts`): its looks, subscriptions and aborts |
| | `Discover`, `Describe`, `Read`, `Convert`, `Complete` | the reader of `notebook-values.ts` and `read.ts`, which awaits a value and then its conversion |
| `ViewRequests` | `Request`, `Coroutine`, `TimeOut`, `Finish` | `ViewRequests.request`, one step per statement that touches shared state |
| | `Comm`, `Transport`, `Close`, `Update` | what the comm thread receives, the traits in flight, `close` |
| | `Rerender`, `ViewFails`, `Leave`, `Report` | `connectRequests` and the `DiagnosticPublisher` of each mount |
| `SharedInputs` | `MountView`, `Abort`, `Interact` | `mountView` and its `onVariables`, `onSharedInputs`, `publish`, `clear` |
| | `PatchVariables`, `Replacement`, `ResetVariables` | `_controller.py` with `_clear_view_values` |
| | `ReceiveUpdate`, `ReceiveInputs` | one trait message at either end, with every change event it raises |
| `HeadlessBindings` | `Begin` to `Return` | `_sync_variables` and what its callers do around it |
| | `Write`, `WriteVariables`, `WriteUpdate` | the controller's setters, whose assignments other threads see one at a time |
| | `Execute`, `Evaluate`, `Answer` | `service.ts`, which numbers snapshots; their acceptance in Python |
| `Inspector` | `Acquire`, `Answered`, `GiveUp`, `Release`, `Fire`, `Expire`, `CloseIdle` | `_Inspector`: steps under its lock; a timer that fired waits for the lock |
| `ModuleCache` | `Import`, `Read`, `Redirected`, `SendFails`, `Receive`, `Serve` | `module` and `send` in `network.rs` |
| | `Create`, `Rename`, `WriteFails`, `Crash`, `Tick`, `Drop` | `ModuleCache::write` and what can interrupt it |
| `Attachments` | `Ask`, `CreateUrl`, `BlobLate`, `BlobFails`, `Answer`, `Interrupted` | `registeredBlobUrl`, `createRegisteredBlobUrl` |
| | `DisposeRegistry`, `OpenDb` to `DbFails` | `cleanup` after the runtime's invalidation; `fileDatabase` |
| | `LoadSqlite`, `SqliteLoaded`, `SqliteFails` | `loadSQLiteModule` |
| `WireValues` | `EncodeCellValue`, `Received`, `SetVariable`, `VariableArrives` | `encodeCellResult`, `decodeInputs`, `prepare_variables`, `decodeVariables` |
| `NotebookGraph` | `Author`, `View`, `Publish`, `Accept` | allocation and selection, `notebookViewIndexes`, `_validate_graph_wire` |
| `SameValue` | `Decide` | `sameValue`, as `writeViewValue` calls it |

## Checks

| Run | Question | Bounds |
| --- | --- | --- |
| `evaluation_state` | Python accepts every published state; results are current unless their own event's callback changed their inputs; no settlement is lost; disjoint work survives an input; refinement of `RevisionProgress` | two shown cells and a hidden one, two channels, 3 attempts, revisions 0 to 3, 2 events of a channel |
| `host_inputs` | settled means fresh and every revision settles, also for a name taken over by the host | two dependent cells and one that cannot be analysed, 3 changes |
| `controls` | pending means evaluating, results match outcomes, every revision settles, with an input control that fails or is overridden and a hidden generator | 3 cells, 2 changes |
| `readback` | what `ready()` returns reflects every earlier update; the shown revision never falls, whatever fails | 2 mounts, 1 update, 1 call, 1 message in flight |
| `readback_delivery` | Python catches up with the browser; every call ends; a settled revision is final | the same without failures and updates, with a revision that a mount opens itself |
| `view_requests` | no request, abort handle or answer is left behind; both sides agree on the diagnostics; every request ends | 1 call against 2 mounts, 1 report, 1 update, in a thread of its own |
| `headless` | records, values and diagnostics agree; a read returns what is current when it answers; readiness is fresh; every request ends | a cell that uses a view and an assigned name, both of which the host may take over, 1 read, 1 readiness or discovery request, 1 change |
| `evaluation_pool` | one open evaluation per selection; a cancelled acquisition and a closed notebook leave no engine running; cancellation ends | two coroutines that want one cell and a thread that wants two, 1 edit |
| `engine_host` | nobody waits in vain; a reported timeout stopped the engine; closing ends the isolate; every call ends with its engine | a thread's and a coroutine's request, the second with an import |
| `parts` | `InputsAgree`, `BindingsAreCurrent`, `SnapshotsAdvance`, `CachedAsDeclared`, `NetworkPolicyHolds`, `LeaseKeepsEngine`, `FilesAreServed`, `ValuesArrive`, `GraphsAgree`, `ComparesContents`, each about one part | see `MCParts`, below |

Two cells are enough for an affected and an unaffected one, three for a dependent with a
hidden source. Two changes are enough for a change during the work of another; four
revisions for a render, an event that opens one, and two changes in its callback. In `ViewReadback` two mounts are enough for one to
replace another, also by leaving the page and coming back, and one message in flight is
enough for a merged update to wait behind it and for a reply to overtake that. In
`EvaluationPool` two callers compete for one selection while the third publishes one that
encloses it, and the one edit makes an evaluation stale at every stage. In `EngineHost` two
requests are enough for one to time out, be cancelled or crash the isolate while the other
registers, sends or waits; each has its own identifier and there is one import in flight.
In `ViewRequests` requests do not interact except through the table, whose entries are per
request; what races is a request with its own timeout, answer, cancellation and generation.
In `HeadlessEvaluation` the two names are those that the host can take over in different ways (a
view's restarts everything, an assigned name's replaces its variable), and one change is enough for
it to fall anywhere between a request and its answer; two changes of two cells were checked too.

In `MCParts`, two views are what an echo needs (one writes, the other clears), with a value that
cannot be shared; a second name is needed for an update to bring back the input of another. Two
calls with two names let one call's patch be
overtaken by the other's; three URLs in two processes give a redirect, a cycle of redirects
and a policy that allows one end of a redirect but not the other; three engines let a lease
outlive two replacements; four calls on two files give a file three readers, one of them
under its encoded name. The values have depth 3 and meet budgets below, at and above their
size; the heaps are all those of three objects that the comparison can reach.
`MCParts` takes as symmetric the calls and variables of `HeadlessBindings`, the callers of
`Inspector`, and the names and views of `SharedInputs`, which these modules treat alike.
No run needs deadlock freedom: a disposed mount, a closed notebook or a closed engine does
nothing any more, and an algorithm ends.

### Disagreements between code and documentation

Two runs are expected to fail and are recorded under `findings`:

* `view_failure`: a host input for a view whose cell failed opens a revision that no control
  takes up, and cells stay pending that nothing will evaluate.
* `idle_engine`: *a* leases an engine and closes it by timing out; *b* acquires the next one
  and releases it first; the last release is that of the old engine, for which
  `_execution.py:488` starts no timer. The next engine stays open though `_execution.py:462`
  says that it closes after idling.

Nine more configurations are kept beside the runs. TLC reports a violation for each:

* `MCMountStaleResult` (module `MCNotebookMount`, `OldWorkIsIgnored`): a dependent that is
  still running when a control event opens a revision delivers its old result, and
  `cell-state.ts:62` takes a fresh token for it. `values-and-graph.mdx:35`: "Results from
  older revisions are ignored." The new value reaches the cell afterwards.
* `MCReadbackReopened` (`ViewReadback`, `SettledIsFinal`): after a failure, `start` shows the
  revision of the next mount as settled (`readback.ts:82-87`), which then reports it as pending.
  `values-and-graph.mdx:26` calls it the latest update "where every selected cell finished".
* `MCEngineCancelled` (`EngineHost`, `CancellationClosesTheEngine`): `request_async` awaits
  `_wait_ready` outside the `try` that closes the engine (`_host.py:122-130`); `_host.py:73`:
  "A timeout or cancelled asynchronous request closes the engine".
* `MCSharedInputsSwallowed` (`MCSharedInputs`, `RepeatedUpdateApplies`): `_clear_view_values`
  publishes what Python last received (`_controller.py:222-228`), so an input that the browser
  has just cleared comes back, and Python's repeated update is taken for a no-op;
  `variables-and-serialization.mdx:40` says that it clears the browser's value. With two names the
  same lines let an update of one bring back, or take away, the input of the other: Python's mapping
  may be older than the browser's. So `ViewsAgree` and `PythonUpdateWins` except the names that
  such an update has changed (`history.undone`) until a view applies a value of theirs. Without the
  exception TLC violates both.
* `MCHeadlessRefused` (`MCHeadlessEvaluation`, `RefusalsAreAccepted`): a read that is refused
  ships a state that Python's validation does not accept, so another exception is raised
  than the one that explains the refusal.
* `MCWireBigInts` (`MCWireValues`, `EverythingIsReadable`): any bigint is encoded
  (`values.ts:112-115`), and `int()` raises beyond 4300 digits (`_variables.py:257`), so the
  whole readback is rejected; `variables-and-serialization.mdx:100` promises an int.
* `MCEvaluationStale` (`MCEvaluationState`, `SettledIsCurrent`): a cell that has settled
  delivers a later value, for which `beginCell` opens a revision and publishes it; the host's
  `onState` changes an input of that cell; only then does `beginCell` read the revision of the
  token (`state.ts:211`). The token passes `#isCurrentToken`, the value of the old inputs
  settles as a result of the new revision, and that revision can settle before the cell is
  evaluated again, while `packages/runtime/README.md:104` calls it the "Latest wave with every
  selected result settled". The cell's new value opens another revision afterwards. No host in
  this repository has such a callback; `onState` is part of the runtime's interface.
* `MCHeadlessBindingsLost` (`HeadlessBindings`, `ReturnsCurrentBindings`): `_sync_variables`
  reads the controller's sequence, variables and update one after the other in a worker thread
  (`_execution.py:168-172`, `253`, `341`) and shares no lock with the writer
  (`_controller.py:166-180`). A sequence read with older variables, or with another write's
  update, is recorded as brought to the engine, and calls that begin afterwards return older
  values than they were made with. `_execution.py:68`: "Reads and checkpoints apply current
  controller bindings before requesting values."
* `MCSameValueTopology` (`MCSameValue`, `TopologyIsPreserved`): the early return for identical
  objects (`values.ts:59`) skips what they contain, so with `box = {}`, `l = {a: box}`, `r = {a:
  box}` and `box.a = l` the two are called the same although only `l` is its own grandchild. The
  test at `values.test.ts:82` is named "compares cyclic data and preserves reference topology".

`NotebookMount` violates `PendingMeansEvaluating` with the constants of `host_inputs` and `Cells <- Three`,
`Upstream <- ShownUsesSourceOnly`, `Exposing = {source, shown}`, `Broken = {other}`, `Ownable = {shown}`:
the host owns the name of a cell, and an input reaches that cell in the static graph.
`mount.ts:203-207` reopens it with everything else the input reaches (`graph.ts:112-117`), but its
variable is a constant by now, which nothing reevaluates: `setRuntimeVariables` redefines only
the names in the patch (`environment.ts:127`). The cell stays pending and its revision never settles,
while `packages/runtime/README.md:105` defines `pending` as "Whether selected results are still
evaluating."

`HeadlessEvaluation` shows one more stale result, with `Apart = {source}`, `Views = {}` and
`Ownable = {source}` in the configuration of its run: `source` is a `const x` cell, and the host sets `x`.
`setRuntimeVariables` redefines `x` as a constant, while the cell's own display goes on with what it
computes from the old inputs. The update has cleared the cell's diagnostic (`evaluate.ts:258`), but its
cell state counts both channels (`cell-state.ts:38`) and takes a fresh token for each late event
(`cell-state.ts:62`). So a display that failed before makes the new revision's result an error with no
diagnostic to go with it, and a new value of the name settles the revision while the display is still
running; TLC violates `RecordsAgree` and `ReadyIsFresh`. `packages/runtime/README.md:104` defines a
revision as settled when its selected results are. The run has no such name, and its theorems assume it (`Whole`).

The passing runs of `NotebookMount` exclude by their constants what they cannot promise:
`SettledMeansFresh` is checked where only the host's inputs start evaluations, and `PendingMeansEvaluating` where no view fails and no input reaches a cell whose
name the host took over. The hazards at `cell-state.ts:38`, `mount.ts:237`,
`view-inputs.ts:105` and `graph.ts:112` say what happens there.

### Fairness

`NotebookMount` assumes that frames, microtasks and awaited writes keep coming (the browser
schedules them) and that each running evaluation ends in a value or an error, provided its
dependencies did. Nothing is assumed of hosts and users. A notebook whose cell never
resolves has no settled revision, so `EventuallySettled` needs the last assumption.

`HeadlessEvaluation` assumes the same of frames, microtasks and evaluations, and that
conversions of values end. `RequestsEnd` needs no more: a request that waits for a cell whose
work is superseded waits for its successor.

`ViewRequests` assumes that event loops and threads run, that the comm delivers, and that
the operations of a mount end in the browser. Nothing makes a view appear or a timeout exist.

`ViewReadback` assumes that microtasks run, messages are sent and delivered, a displayed
view finishes mounting, the cells of a mount finish, and coroutines resume.

`EvaluationPool` assumes that threads and coroutines run, that the pool's lock is given to
each caller that keeps asking for it (strong fairness), and that a request to open ends when
its evaluation is closed. It assumes of no engine that it answers, so `CancellationEnds`
speaks of coroutines whose worker has the lock or can get it: a worker that waits behind
another caller's hanging open can only wait for that caller's timeout.

`EngineHost` assumes that the threads of Python and the isolate's thread run. Nothing makes
notebook code return, an import resolve, a request be answered or a deadline exist:
`CloseStopsTheIsolate` and `RequestsEnd` hold by what `stop` does to running code. The limit
of five seconds on teardown is not modelled: within it, V8 reacts to the termination.

## Proofs

`Parts_proofs` shows of `EvaluationState`, for every set of cells and channels, every selection and
all bounds:

* `TypeCorrect`: `Spec => []TypeOK`.
* `ResultsCurrent`: `Spec => []ResultsAreCurrent`. A terminal result was computed from the
  inputs that its cell has, unless the callback of its own event changed them.

The exception is what the code allows (`MCEvaluationStale`): the token of an event has the revision that the
callback leaves, so within one turn no comparison of revisions can refuse it. What the theorem
says is that nothing else gets through: no event of an ended attempt, also not one whose callback
replaces the variables or disposes of the mount, and no event that an earlier change overtook.
`ResultsAreCurrent` is not inductive: the step that settles an event must know that its value
has the present version of its cell's inputs, or that its callback changed them, or that its
attempt has ended. The inductive invariant adds that (`EventInv`), that a cell's basis is its current version
once a terminal result exists whose event did not change it, and that events never come from
a future attempt. Each operator has a lemma saying which fields it changes; the induction has one
step per action.

It goes on with what the state publishes, for the same constants:

* `ProgressHolds`: `Spec => [](IInv /\ ProgressInv)`. `ProgressInv` says that the records of
  an open state tell one story (`Coherent`): a result belongs to a revision that was opened
  and to a selected cell, the pending cells are exactly those with a pending result, a settled
  revision has none, and an evaluation that has revisions and no error has a result for
  every selected cell; and that a revision that waits for nothing is settled or will be
  (`Certain`).
* `PublishedAccepted`: `Spec => []PublishedIsAccepted`, what Python's validation asks of a
  snapshot. It asks of the snapshot what only several calls together establish: that the
  results stem from revisions not above the input revision, and that `pending` and
  `settled` agree with them.
* `SettlementCertain`: `Spec => []SettlementIsCertain`.
* `WorkSurvives`: `Spec => DisjointWorkSurvives`, an action property: an event whose callback
  changes inputs can still settle its cell if they do not reach it.
* `Implements`: `Spec => ImplementsProgress`, the refinement of `RevisionProgress`. Its safety
  part is all there is: `RevisionProgress` promises no progress of its own.

In `EvaluationOps_proofs` every operator of `EvaluationOps` has one lemma that says which move of `RevisionProgress`
it makes and that it keeps `Coherent` and `Certain`; whole renders and replacements are
chains of such moves in which all but one are stutters, and that is a lemma too.

`NotebookMount_proofs` shows, for every notebook that `NotebookAssumption` and `MountAssumption`
allow, every selection and set of surprises, and any bound on changes:

* `InvHolds`: `Spec => []Inv`, the types of all variables included.
* `ResultsMatch`: `Spec => []ResultsMatchOutcomes`.
* `WaveHolds`: under `Tame`, `Spec => [](Inv /\ Wave)`; from it `PendingEvaluating`: under `Tame`,
  `Spec => []PendingMeansEvaluating`.
* `SettledFresh`: under `Passive`, `Spec => []SettledMeansFresh`.

A cell's result and the runtime's variables are two records of one thing that only events
connect, and events are missed (stale evaluations), repeated (later values) or refused
(tokens). The inductive invariant relates them for each selected cell at all times, not only
when all is quiet (`Agrees`): the channels the cell waits for are those that are observed,
a channel whose variable is running counts as pending, one whose variable has ended has the
variable's outcome as its status, the errors are the channels with status "error", and a cell
with a finished result waits for none and says what its errors say; a cell that `fail` has ended
expects nothing but its failure.
`Follows` adds what makes a control's later values harmless: its variable ends as its display
does, and an event is awaited only from a control that is registered. `Live` joins these with
the state's `Coherent` and `Certain`; `Idle` speaks of the time before and after the mount.
Without `Follows`, `YieldControl` could deliver a success to a channel whose variable failed;
without `Coherent`, a settled token could leave a cell pending. TLC checked `Inv` in each of the four
configurations of `MCNotebookMount` before it was proved.

Whether anything is left that will end a pending cell is a question about the whole graph. `Wave`
answers it: what is to be evaluated has its dependents to be evaluated too (`BusyClosed`), a
pending cell is to be evaluated itself or is reached from a control with something awaited, and
`Regular` and `Registered` say which channels are observed and which controls exist. The set of
cells that an input reaches is computed twice, by `graph.ts` from the notebook and by the
Observable runtime from its variables, and the two differ at constants. So the theorem needs
`Tame`: the host takes over only names of cells without references, which no other input of its
own reaches, and no view fails. Both parts are necessary: the owned name above and the run
`view_failure` are what happens otherwise. The lemmas on `Reached` show that it is the least set
closed under dependents, from which everything else about the graph follows.

`Quiet` goes on for `SettledFresh`: a selected cell that is to be evaluated is pending, and the
variables of a cell become dirty together. `Passive` asks that only the host's inputs start
evaluations: no view, no generator, no cell whose source cannot be shown, and names as in
`Tame`. None of these can be dropped, TLC violates the property within eight states without:
a restored control's write is awaited after everything has settled; a later value of a
generator makes its dependents dirty and opens no revision; a render settles a cell that cannot
be shown while its display is still to run. The theorem is thus about every notebook of the kind
that the run `host_inputs` takes one of.

TLC checked `Wave` on three configurations of `MCNotebookMount` (controls, host inputs, failing
views with the last invariant left out) and `Quiet` on the host inputs before either was proved.

A render fails the cells of a set one after the other, and a frame announces those of another,
which the model writes as folds over sets. The value of a fold is defined by recursion, so
`FoldExists` (in `EvaluationOps_proofs`) first shows that a recursion of that form has a solution (the least relation closed
under its steps is a function, by `SubsetInduction`, for which `WFMin` of the library
replaces the induction theorems); the lemmas on `FailEach` and `AnnounceEach` then carry the
invariant along it.

`HeadlessEvaluation_proofs` shows, for every notebook that `NotebookAssumption` and
`HeadlessAssumption` allow, every selection, any reads and checkpoints and any bound on changes, under
`Whole`:

* `HeadlessInvHolds`: `Spec => []HeadlessInv`, the types included.
* `SettledRecordsAgree`: `Spec => []RecordsAgree`.
* `ReadsReturnFreshValues`: `Spec => ReadsAreCurrent`, an action property.
* `ReadyTellsTheTruth`: `Spec => ReadyIsFresh`, another one.

The evaluation keeps four records of a cell: its Observable variables, its result, its diagnostics and
the entry that readers see. They are written by different observers in one turn, and the last
three are reset at different moments: all by an input, the entry and the display's diagnostics by a frame.
The invariant therefore does not say that they are equal, but
what each may claim (`Stands`). `Shaped` says which variables a cell has and that they become dirty
together, that a name's variable ends as its display does, and that a constant has no error.
`Accounted` says that an entry that is no longer pending is its variable's outcome, that a diagnostic
belongs to an error that is still there, and that whatever is missing (an entry, or the diagnostic of an
error) makes a selected cell pending. So nothing is missing when nothing is pending,
and `RecordsAgree` follows together with `Agrees`, which `CellRuntime_proofs` carries for results
as in a mount. `Spreading` says that what is to be evaluated takes along its dependents, constants
excepted; since a working cell has no entry, an entry is a value that nothing outdates
(`ValuesAreFresh`), which is all that a read needs. Of a read, `Holds` says that it relies on
an entry only while nobody has moved it. `ready()` is told the truth because only `readyState`'s check
resolves it and it looks at all records at once (`Truthful`), after every step of whoever changes them.

`Whole` says that no name that the host takes over has a display of its own beside it, but for views,
whose takeover starts everything again. It is necessary: see the `const x` cell above. The invariant
fails there at `owned => ~Erred(p)` and at "dirty together". It admits
assigned names (`x =`) and views; `mutable x` keeps its initial value apart and is like `const x`.

TLC checked `HeadlessInv` before it was proved: with both kinds of names, with a cell that cannot be
analysed, and with hidden sources.

Two assumptions of `NotebookAssumption` were found while proving: a cell that cannot be
analysed exposes nothing and has no edges. They are what `cellGraphFromError` in `graph.ts`
makes of such a cell (no outputs, defines nothing, no references).

`ViewReadback_proofs` shows, for any set of failures and any bounds:

* `TypeCorrect`: `Spec => []TypeInv`, the messages on the wire included.
* `ReadyReflects`: `Spec => []ReadyReflectsUpdates`. What `ready()` returns is the later of
  two states, the reply's and the accepted one, and either may overtake the other; so the
  invariant orders all snapshots that exist anywhere by their transport revision
  (`SnapshotInv`, `OrderInv`) and says of every reply, on the wire or answered, that
  nothing of its generation that is as recent knows fewer updates (`ReplyInv`).
* `InputsRise`: `Spec => InputNeverFalls`, from `SnapshotInv`.
* `SettledFinal`: `Failures = {}` implies `Spec => SettledIsFinal`. The assumption is needed: when a
  mount fails, the placeholder is published as settled and the next mount reopens its
  revision, which TLC shows in a few steps (the run `readback_delivery`, where the
  property is checked, has no failures either). The invariant relates each snapshot that
  is settled to everything of the same input revision.

`ViewRequests_proofs` shows, for any calls, mounts, reports and updates:

* `TypeCorrect`: `Spec => []TypeInv`.
* `NothingLeft`: `Spec => []NothingIsLeftBehind`. A call that timed out has sent a cancellation,
  which names the generation of its request; the browser drops the request if that
  generation is still mounted, and has dropped it with its mount otherwise. So the
  invariant follows for every call where its request is (`Asks`), which table of Python
  holds it at which statement of the coroutine (`Named`, `Tabled`), and that what the browser keeps
  for it is alive or about to be cancelled (`Kept`), and for the whole channel what Python can
  still learn of generations (`TrailInv`) and when it learns of a fatal error (`FatalInv`).
* `DiagnosticsReach`: `Spec => []DiagnosticsAgree`, from `DiagInv`: the newest diagnostics
  have the highest revision, and are in Python, on their way, or waiting to be sent.

TLC checked this invariant as a whole, for one call with three mounts (5.2 million states)
and two calls with two mounts (9.2 million states), before it was proved.

`PythonHost_proofs` shows of `EvaluationPool`, for all callers, selections and any number of edits:
`TypeCorrect`, `CancelledLeaveNothing`, `NothingOutlives`, `Shared` and `HandedOpened`, each
`Spec => []P`, three of them for invariants that the run checks. The inductive invariant says who holds the
lock at each stage of `acquire` (so at most one caller is between `Lock` and its end), that
a cancelled coroutine whose evaluation is built is either about to close it or its worker is
about to learn of the cancellation, and that whatever is open and current is in the pool
under its selection or still with the caller that opens it.

Of `HeadlessBindings` it shows, for any names and calls and any number of writes and of refused
updates, with a write free to fall between any two reads of the controller:

* `ReturnsCurrent`: `BindingsSpec => []ReturnsCurrentUntilTorn`, and `SkipsSafe`: `BindingsSpec =>
  []SkipsAreSafe`, the two halves of `BindingsAreCurrent`, which the run `parts` checks for two calls.
* `SnapshotsRise`: `BindingsSpec => SnapshotsAdvance`.

Without a lock the first is false (`MCHeadlessBindingsLost`), so its statement names the
two ways in which a synchronisation goes wrong, and `evaluation.torn` records that one has: it read
variables that lack the write of its sequence (`OlderVariables`), or it sent the update of another write
as its patch (`OtherUpdate`). Every other order is covered: variables newer than their sequence, an update
that is replaced after it was sent, writes that finish while the engine answers, and the same of
other calls. Every variable is its last write's number, so the invariant compares mappings. All
mappings that matter have their place between what is certainly over and what may be seen (`Past`: the
controller's mapping and what each call began with; `Visible`: the last write that the
variables show). `Written` says that the controller has all writes up to the last complete one,
`Underway` where the call with the lock is and what it has read so far; and `Synchronised`, as
long as nothing is torn, that the engine follows what Python believes it has (`Follows`), that each call holds, at each
stage, what it began with (`CallsStand`), that each message brings the engine what its call has read
(`MessagesBring`), and that snapshots are numbered in the order of their variables wherever
they are (`Ordered`), so that it does not matter in which order replies are accepted, nor that `ready()`
returns another call's snapshot. `SkipsAreSafe` is not about sequences and mappings being equal, which
the code compares, but about the engine: a newer mapping may have been read under an older
sequence, and the next synchronisation then brings it once more.

`Parts_proofs` shows of `EngineHost`, for any requests, asynchronous and importing ones among them:
`EngineTypes`, `NobodyIsForgotten`, `TimeoutsStop` and `FailuresHaveCauses`. The inductive
invariant traces causes: a stop in the isolate comes from a closed host (`StopHasCause`), a
failure that someone learns of comes from the isolate's own record (`CrashHasCause`), and a
closed host has stopped its isolate or has a caller about to (`Closing`). Types, causes and
waiters are three inductions, the first two with one lemma for the isolate's steps and one
for Python's; the messages in the channels have a lemma of their own, because a reply must
name a request for the tables to keep their types. `EngineHost` writes its alternatives as
disjunctions, flags as sets of strings, and strings without blanks, partly for the provers' sake.

It shows `LeasesKeepEngines` of `Inspector` for any finite set of callers: `LeaseKeepsEngine`,
which the run `parts` checks for two. The inductive invariant says that the counter equals
the number of leases, which needs cardinalities, that what the timer closes is the shared
engine no longer, and that a caller inspects with the shared engine or one that an inspection
closed.

It shows `FilesServed` of `Attachments`, for any files, names and calls: `FilesAreServed`,
which the run `parts` checks for two files, with its parts `UrlsEnd` and `OneUrl`. The inductive
invariant says that a call that reads holds its file's promise while the file has no URL, that
calls share promises of their file only, and that what was answered is what the registry knows
as long as it lives. A failed read answers its call in the step that empties the table, which
is why the next call reads again (`Unanswered`); of all loads of the SQLite module only the one
that the page remembers has not failed (`OneLoad`); and no database is open in a runtime that
has ended, so that what it serves is still known (`DbEnds`).

It shows `CachesAsDeclared` and `PolicyHolds` of `ModuleCache` for any processes, imports, servers
and lifetimes. The inductive invariant says what each place may hold: an import at work has
a URL that its policy permits; the memory of a process has whole modules, those without a
lifetime from this life of the process; files are whole and have a lifetime; what an
import returns is its own or what a cache may give it at that time. A crash empties a memory and
leaves the files, and a failed write leaves no file, which is where the parts need each other.

It shows of `SharedInputs`, for any names, values and views and any bounds, what `InputsAgree`
joins and the run `parts` checks for two of each:

* `SharedInvHolds`: `SharedSpec => []SharedInv`, the types included.
* `VariablesReach`: `SharedSpec => []VariablesReachViews`.
* `ViewsAgreeHolds`: `SharedSpec => []ViewsAgree`.
* `PythonWins`: `SharedSpec => []PythonUpdateWins`.

What a control shows depends on an input, or else on a variable, or on the user, and each is kept
in several places: Python, the session model, what a view shares and what its mount keeps.
`SharedInv` says that the updates on their way lead from the model's variables to Python's
(`OneHistory`), so that a view that follows patches and one that was mounted in between have the
same; that the model has inputs only of names that a user set or an update changed (`Untouched`);
and what every live view may show (`Faithful`). That has two parts, because an update is one step of
the model but many events: `Tells`, which relates a view's controls to inputs and variables for all
but the names that the update may change and holds after each event, and `InSync`, which holds once
a view has heard of the model's inputs. Applying a message goes through two nested loops over the
views, since each view that applies an update may clear inputs, of which all others hear. Both are
folds; they are unfolded into chains of states (`InputsChangedUnfolds`, `VariablesChangedUnfolds`),
and the lemmas on their steps (`InformedStep`, `AlongStep`) say what the first *i* views have done.
The two orders of a message's events meet in `IsReceived`.

TLC checked `SharedInv` for two names, two views and three mounts (1.5 million states) before it was
proved. Both agreements had been stated without `undone` and checked with one name; the
attempt to prove them for more showed that they are false, and why.

The assumptions are those named in the modules: finite selections and distinct names.

Only model-checked:

* Liveness under fairness, which is beyond the prover: `EventuallySettled`,
  `PythonCatchesUp`, `ReadyEnds`, `RequestsEnd`, `CancellationEnds` and the like.
* What the recursive definitions of `WireValues`, `NotebookGraph` and `SameValue` compute.

## Plan

What is left, the most important first:

1. Theorems: of `HeadlessEvaluation`, what still holds for a `const` cell whose name the host
   takes over.
2. That `EngineHost` gives `EvaluationPool` and `Inspector` the engine they assume, as an
   abstract engine that `EngineHost` implements.
3. `DiagnosticCollector` (`diagnostics.ts`): deduplication and microtask publication; the
   conversion of datasets; a second display of one widget model (`index.ts`).

## Not modelled

* Parsing, compilation and source rewriting, HTML and document formats, Arrow frames and graph
  diagrams map values to values and keep no state.
* DOM output and themes are I/O around Observable's own libraries; the lint rules are tools.
* The Observable runtime, browsers, ipywidgets and asyncio are external: modelled only as
  the code uses them.
* A second cancellation of a coroutine that is being cancelled, the Chromium engine, and
  checks for forked processes.
* A page reload, which restores the browser's model from Python.
* `SameValue`: typed arrays, buffers and accessors. `WireValues`: tables and arrays of Python
  libraries, and objects with an own key `__observablejs_type__` whose value is "number",
  "bigint" or "datetime", which are judged writable by that key (`values.ts:282-283`).
* `ModuleCache`: `data:` URLs, parsing of headers, temporary files that a dead process left
  behind; their names are unique as long as process ids are.
* `Inspector`: a cancelled asynchronous acquisition (`_execution.py:546`), which keeps a lease.
* `Attachments`: the global registry of Notebook Kit, and how DuckDB's arguments become tables.
* `NotebookGraph`: the analysis of one cell; diagrams.
* `ViewRequests`: the checks of `describe` after the view closed, and a second render of one model.
