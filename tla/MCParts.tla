-------------------------------- MODULE MCParts --------------------------------
(***************************************************************************)
(* Parts of the system that keep a state of their own and meet the others  *)
(* only through values.  Every behaviour is one of one part, which keeps   *)
(* its variables in the registers.                                         *)
(***************************************************************************)
EXTENDS Integers, TLC

CONSTANTS
  file, v1, v2, a, b, x, y, latest, pinned, ring, free, bound, other, p, q,
  first, second, left, right

VARIABLES part, r1, r2, r3, r4, r5, r6

vars == <<part, r1, r2, r3, r4, r5, r6>>

Unused(r) == r = "unused"

\* Two controls, shared by two views that come and go.
Inputs == INSTANCE SharedInputs WITH
  SharedNames <- {left, right}, Values <- {1, 2}, Local <- {file}, Views <- {v1, v2}, Default <- 0,
  MaxUpdates <- 2, MaxInputs <- 2, MaxMounts <- 2,
  python <- r1, browser <- r2, toBrowser <- r3, toPython <- r4, count <- r5, history <- r6

\* Two calls that synchronise two variables while they are set.
Bindings == INSTANCE HeadlessBindings WITH
  Names <- {left, right}, Calls <- {first, second}, MaxWrites <- 2, MaxFailures <- 1,
  controller <- r1, writer <- r2, evaluation <- r3, call <- r4, engine <- r5, wire <- r6

\* Two processes share a cache directory; in one of them a second engine may only
\* reach one URL.
Redirects == latest :> pinned @@ ring :> ring
Process == free :> p @@ bound :> p @@ other :> q
Allowed == free :> {latest, pinned, ring} @@ bound :> {latest} @@ other :> {latest, pinned}

Imports == INSTANCE ModuleCache WITH
  Urls <- {latest, pinned, ring}, Lifetimes <- {1}, Loads <- {free, bound, other},
  Processes <- {p, q}, MaxHops <- 1, MaxTime <- 2, MaxCrashes <- 1,
  now <- r1, memory <- r2, disk <- r3, load <- r4, life <- r5

\* Two callers inspect notebooks, with up to three engines.
Inspections == INSTANCE Inspector WITH
  Callers <- {first, second}, MaxEngines <- 3,
  shared <- r1, fired <- r2, expiring <- r3, closed <- r4, caller <- r5, launched <- r6

\* A cell asks for one of two files by its encoded name, another by its own, and "db"
\* opens both.
Files == INSTANCE Attachments WITH
  Names <- {x, y}, Keys <- {x, y, latest}, Decoded <- x :> x @@ y :> y @@ latest :> x,
  Calls <- {a, b, p, q}, Key <- a :> latest @@ b :> x @@ p :> x @@ q :> y,
  DbCall <- x :> p @@ y :> q, Openers <- {a, b}, MaxLoads <- 2,
  registry <- r1, promises <- r2, doing <- r3, objects <- r4, db <- r5, sqlite <- r6

\* The values, notebooks and heaps that the MC modules of the three algorithms list.
SomeValues == INSTANCE MCWireValues WITH
  Texts <- {"x"}, JsValues <- {}, PyValues <- {}, Budgets <- {}, MaxDepth <- 3, Long <- 5,
  value <- r1, wire <- r2, arrived <- r3

Wire == INSTANCE WireValues WITH
  JsValues <- SomeValues!MCJsValues, PyValues <- SomeValues!MCPyValues,
  Budgets <- {4, 9, 40}, MaxDepth <- 3, Long <- 5,
  value <- r1, wire <- r2, arrived <- r3

SomeNotebooks == INSTANCE MCNotebookGraph WITH
  Names <- {"p", "q"}, MaxCellId <- 3, Notebooks <- {}, Selections <- {},
  authored <- r1, ids <- r2, selected <- r3, graph <- r4, accepted <- r5

Dependencies == INSTANCE NotebookGraph WITH
  Names <- {"p", "q"}, MaxCellId <- 3,
  Notebooks <- SomeNotebooks!MCNotebooks, Selections <- SomeNotebooks!MCSelections,
  authored <- r1, ids <- r2, selected <- r3, graph <- r4, accepted <- r5

SomeHeaps == INSTANCE MCSameValue WITH
  Objects <- {1, 2, 3}, Heaps <- {}, Pairs <- {}, MaxDepth <- 4, MaxNodes <- 5,
  heap <- r1, compared <- r2, verdict <- r3

Comparison == INSTANCE SameValue WITH
  Objects <- {1, 2, 3}, Heaps <- SomeHeaps!MCHeaps, Pairs <- SomeHeaps!MCPairs,
  MaxDepth <- 4, MaxNodes <- 5,
  heap <- r1, compared <- r2, verdict <- r3

\* The parts that use these treat them alike.
PartsSymmetry ==
  Permutations({first, second}) \cup Permutations({left, right}) \cup Permutations({v1, v2})

ASSUME PartsAssumption ==
  /\ Inputs!SharedAssumption /\ Bindings!BindingsAssumption /\ Imports!CacheAssumption
  /\ Inspections!InspectorAssumption /\ Files!AttachmentsAssumption /\ Wire!WireAssumption
  /\ Dependencies!GraphAssumption /\ Comparison!SameValueAssumption

Init ==
  \/ part = "inputs" /\ Inputs!SharedInit
  \/ part = "bindings" /\ Bindings!BindingsInit
  \/ part = "imports" /\ Imports!CacheInit /\ Unused(r6)
  \/ part = "inspections" /\ Inspections!InspectorInit
  \/ part = "files" /\ Files!AttachmentsInit
  \/ part = "wire" /\ Wire!Init /\ Unused(r4) /\ Unused(r5) /\ Unused(r6)
  \/ part = "dependencies" /\ Dependencies!Init /\ Unused(r6)
  \/ part = "comparison" /\ Comparison!Init /\ Unused(r4) /\ Unused(r5) /\ Unused(r6)

Next ==
  /\ UNCHANGED part
  /\ \/ part = "inputs" /\ Inputs!SharedNext
     \/ part = "bindings" /\ Bindings!BindingsNext
     \/ part = "imports" /\ Imports!CacheNext /\ UNCHANGED r6
     \/ part = "inspections" /\ Inspections!InspectorNext
     \/ part = "files" /\ Files!AttachmentsNext
     \/ part = "wire" /\ Wire!Next /\ UNCHANGED <<r4, r5, r6>>
     \/ part = "dependencies" /\ Dependencies!Next /\ UNCHANGED r6
     \/ part = "comparison" /\ Comparison!Next /\ UNCHANGED <<r4, r5, r6>>

Spec == Init /\ [][Next]_vars

-----------------------------------------------------------------------------
(* Properties: those of the parts, in their part's behaviours *)

\* Shared inputs: views hold Python's variables and agree with each other, and what
\* Python set last stays until a user touches the control (view.ts:175-219,
\* _controller.py:153-228).
InputsAgree ==
  part = "inputs" => Inputs!VariablesReachViews /\ Inputs!ViewsAgree /\ Inputs!PythonUpdateWins

\* Headless evaluation: until a synchronisation reads the controller in the middle of
\* a write and takes what does not belong together, no call returns bindings older than
\* those it was made with, and synchronising is skipped only when the engine has them
\* all (_execution.py:162-180).
BindingsAreCurrent ==
  part = "bindings" => Bindings!ReturnsCurrentUntilTorn /\ Bindings!SkipsAreSafe

\* Snapshots never go back, nor, until then, what they were computed from
\* (_execution.py:356-392).
SnapshotsAdvance == [][part = "bindings" => Bindings!Advances]_vars

\* A cached module is used no longer than its server declared, in no other process
\* than it may be (cache.rs:53-142).
CachedAsDeclared == part = "imports" => Imports!CachedAsDeclared

\* No engine gets a module that its network policy forbids, from whatever cache
\* (network.rs:208-273).
NetworkPolicyHolds == part = "imports" => Imports!NetworkPolicyHolds

\* The idle timer takes the inspector's engine from nobody (_execution.py:494-500).
LeaseKeepsEngine == part = "inspections" => Inspections!LeaseKeepsEngine

\* Files of a runtime: one URL each while it lives and none afterwards, a database
\* that reads them, and failures that do not stick (runtime/src/attachments.ts).
FilesAreServed == part = "files" => Files!FilesAreServed

\* What cells produce arrives in Python and in other views as what it is, and what
\* Python sets arrives in cells, and values are cut off before they exceed the wire's
\* budgets (values.ts, _variables.py).
ValuesArrive ==
  part = "wire" =>
    /\ Wire!PythonReadsTheValue /\ Wire!ViewsGetTheValue /\ Wire!VariablesArriveUnchanged
    /\ Wire!PaysForWhatItSends

\* Every notebook that can have ids gets them, and both sides agree on what its cells
\* depend on (_cell_ids.py, graph.ts, _graph.py).
GraphsAgree ==
  part = "dependencies" =>
    Dependencies!CellsGetIds /\ Dependencies!GraphsAreAccepted /\ Dependencies!SidesAgree

\* Two values are called the same exactly if their contents agree and their objects
\* correspond one to one, where an object that both hold is not looked into, as far as
\* the budget goes (runtime/src/values.ts:42-105).
ComparesContents ==
  part = "comparison" => Comparison!SameMeansMatching /\ Comparison!DifferentMeansMismatch
=============================================================================
