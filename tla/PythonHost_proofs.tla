--------------------------- MODULE PythonHost_proofs ---------------------------
(***************************************************************************)
(* Proofs about the Python side of headless evaluation: EvaluationPool,    *)
(* for every set of callers and coroutines, every selection they may want, *)
(* and every number of edits; HeadlessBindings, for every set of names and *)
(* calls and any number of writes and of updates that the engine refuses.  *)
(***************************************************************************)
EXTENDS EvaluationPool, HeadlessBindings, TLAPS

-----------------------------------------------------------------------------
(* EvaluationPool *)

Critical == {"checking", "constructing", "registering", "tracking", "opening", "requesting",
             "publishing"}
Building == Critical \ {"checking"}

\* The lock is held by whoever is between taking and releasing it, and by nobody else.
Exclusive == \A c \in Callers : step[c] \in Critical <=> holder = c

\* What is known of an evaluation from where its builder stands.
Progress ==
  \A c \in Callers :
    /\ c \in built => step[c] \notin {"idle", "queued", "checking", "constructing"}
    /\ step[c] \in Building \ {"constructing"} => c \in built
    /\ c \in opened => step[c] \in {"publishing", "returned"} /\ c \in built
    /\ step[c] = "publishing" => c \in opened
    /\ based[c] <= spec

\* Only opened evaluations are pooled and handed out, to callers whose cells they cover.
Handed ==
  /\ \A e \in pooled : e \in opened /\ step[e] = "returned"
  /\ HandedIsOpened

\* What is open for the current definition is in the pool as soon as the lock is free, and
\* nothing in the pool serves the selection that is being built.
Lookup ==
  /\ \A e \in Callers : e \in opened /\ Current(e) /\ step[e] = "returned" => e \in pooled
  /\ \A e, f \in pooled : Wanted[e] = Wanted[f] => e = f
  /\ \A c \in Callers : step[c] \in Building =>
       \A e \in pooled : Wanted[e] = Wanted[c] => ~Current(e)

\* Who is cancelled has the flag set; what was not tracked in time closes itself when tracked.
Cancelling ==
  \A c \in Coroutines :
    /\ c \in tracked => step[c] \in {"opening", "requesting", "publishing", "returned", "failed"}
    /\ c \in built => c \in tracked \/ step[c] \in {"registering", "tracking"}
    /\ waiter[c] \in {"closing", "joining", "cancelled"} => c \in cancelled
    /\ waiter[c] \in {"joining", "cancelled"} /\ c \in built /\ c \notin shut =>
         step[c] \in {"registering", "tracking"}
    /\ waiter[c] = "cancelled" => step[c] \in {"returned", "failed"}

\* Every open evaluation is registered with the notebook, or about to be; once the notebook's
\* close has listed its resources, what it did not list has not passed open's checks.
Owned ==
  /\ \A e \in Callers : e \in built /\ e \notin shut =>
       e \in resources \/ step[e] = "registering"
  /\ notebook = "closing" =>
       \A e \in Callers : e \in built /\ e \notin shut =>
         e \in closings \/ step[e] \in {"registering", "tracking", "opening"}

IInv == TypeOK /\ Exclusive /\ Progress /\ Handed /\ Lookup /\ Cancelling /\ Owned

-----------------------------------------------------------------------------
\* The invariant holds at first: nothing is built, pooled or cancelled.
LEMMA InitInv == Init => IInv
BY PoolAssumption DEF Init, IInv, TypeOK, Exclusive, Progress, Handed, Lookup, Cancelling, Owned, Critical, Building, HandedIsOpened, Stages

\* No step of any caller, coroutine, user or of the notebook breaks it.
LEMMA NextInv == IInv /\ [Next]_vars => IInv'
<1> SUFFICES ASSUME IInv, [Next]_vars
             PROVE  IInv'
  OBVIOUS
<1> USE PoolAssumption DEF IInv, TypeOK, Exclusive, Progress, Handed, Lookup, Cancelling, Owned, Critical, Building, HandedIsOpened,
                           Current, Stages, GoTo, acquiring, engines, edits, awaits
<1>1. ASSUME NEW c \in Callers, Start(c)
      PROVE  IInv'
  BY <1>1, SMTT(30) DEF Start
<1>2. ASSUME NEW c \in Callers, Lock(c)
      PROVE  IInv'
  BY <1>2, SMTT(30) DEF Lock, IsOpen, Fails
<1>3. ASSUME NEW c \in Callers, Check(c)
      PROVE  IInv'
  BY <1>3, SMTT(30) DEF Check, Shut, Returns, Exact, Enclosing
<1>4. ASSUME NEW c \in Callers, Construct(c)
      PROVE  IInv'
  BY <1>4, SMTT(30) DEF Construct, IsOpen, Fails
<1>5. ASSUME NEW c \in Callers, Register(c)
      PROVE  IInv'
  BY <1>5, SMTT(30) DEF Register
<1>6. ASSUME NEW c \in Callers, Track(c)
      PROVE  IInv'
  BY <1>6, SMTT(30) DEF Track, Shut, Fails
<1>7. ASSUME NEW c \in Callers, Open(c)
      PROVE  IInv'
  BY <1>7, SMTT(30) DEF Open, IsOpen, Shut, Fails
<1>8. ASSUME NEW c \in Callers, Publish(c)
      PROVE  IInv'
  BY <1>8, SMTT(30) DEF Publish, Returns
<1>9. ASSUME NEW c \in Callers, Opened(c)
      PROVE  IInv'
  BY <1>9, SMTT(30) DEF Opened
<1>10. ASSUME NEW c \in Callers, OpenFails(c)
      PROVE  IInv'
  BY <1>10, SMTT(30) DEF OpenFails, Shut, Fails
<1>11. ASSUME NEW c \in Callers, UserCloses(c)
      PROVE  IInv'
  BY <1>11, SMTT(30) DEF UserCloses, Shut
<1>12. ASSUME NEW c \in Coroutines, Cancel(c)
      PROVE  IInv'
  BY <1>12, SMTT(30) DEF Cancel
<1>13. ASSUME NEW c \in Coroutines, Resume(c)
      PROVE  IInv'
  BY <1>13, SMTT(30) DEF Resume, Ended
<1>14. ASSUME NEW c \in Coroutines, CloseTracked(c)
      PROVE  IInv'
  BY <1>14, SMTT(30) DEF CloseTracked, Shut
<1>15. ASSUME NEW c \in Coroutines, Join(c)
      PROVE  IInv'
  BY <1>15, SMTT(30) DEF Join, Ended
<1>16. ASSUME NEW c \in Callers, CloseResource(c)
      PROVE  IInv'
  BY <1>16, SMTT(30) DEF CloseResource, Shut
<1>17. CASE Edit
  BY <1>17, SMTT(30) DEF Edit, IsOpen
<1>18. CASE CloseNotebook
  BY <1>18, SMTT(30) DEF CloseNotebook, IsOpen
<1>19. CASE ListResources
  BY <1>19, SMTT(30) DEF ListResources
<1>20. CASE UNCHANGED vars
  BY <1>20 DEF vars
<1> QED
  BY <1>1, <1>2, <1>3, <1>4, <1>5, <1>6, <1>7, <1>8, <1>9, <1>10, <1>11, <1>12, <1>13, <1>14, <1>15, <1>16, <1>17, <1>18, <1>19, <1>20 DEF Next, Acquire, Await

\* The type invariant, for every value of the constants.
THEOREM TypeCorrect == Spec => []TypeOK
<1>1. IInv => TypeOK
  BY DEF IInv
<1> QED
  BY <1>1, InitInv, NextInv, PTL DEF Spec

\* However many coroutines are cancelled, at whatever moment of their acquisition, none leaves
\* an engine running that it started.
THEOREM CancelledLeaveNothing == Spec => []CancelledLeavesNothing
<1>1. IInv => CancelledLeavesNothing
  BY DEF IInv, Cancelling, CancelledLeavesNothing
<1> QED
  BY <1>1, InitInv, NextInv, PTL DEF Spec

\* However a notebook's close interleaves with acquisitions that passed their checks before
\* it, no engine outlives it that is not about to be closed by its own open.
THEOREM NothingOutlives == Spec => []NothingOutlivesTheNotebook
<1>1. IInv => NothingOutlivesTheNotebook
  BY DEF IInv, Owned, NothingOutlivesTheNotebook
<1> QED
  BY <1>1, InitInv, NextInv, PTL DEF Spec

\* At most one evaluation is open for a selection and the current definition.
THEOREM Shared == Spec => []SharedBySelection
<1>1. IInv => SharedBySelection
  BY DEF IInv, TypeOK, Exclusive, Progress, Handed, Lookup, SharedBySelection, Critical, Building,
         Current
<1> QED
  BY <1>1, InitInv, NextInv, PTL DEF Spec

\* Callers get opened evaluations that cover the cells they asked for.
THEOREM HandedOpened == Spec => []HandedIsOpened
<1>1. IInv => HandedIsOpened
  BY DEF IInv, Handed
<1> QED
  BY <1>1, InitInv, NextInv, PTL DEF Spec

-----------------------------------------------------------------------------
(* HeadlessBindings: what its variables hold *)

Mapping == [Names -> Nat]

Patch == UNION {[names -> Nat] : names \in SUBSET Names}

Snapshots == [revision : Nat, variables : Mapping, pending : BOOLEAN]

Updates == {"open", "update", "replace"}

Messages ==
  [call : Calls, op : Updates, values : Patch] \cup [call : Calls, op : {"read", "ready"}, values : {<<>>}]

Locked == {"sequenced", "opening", "wired", "updating"}

CallRecords ==
  [pc : Locked \cup {"idle", "syncing", "synced", "asking", "returned", "failed"},
   op : {"none", "read", "ready"}, started : Mapping, seq : Nat, wire : Mapping,
   reply : {NoReply} \cup [status : {"result", "error"}, snapshot : Snapshots]]

Evaluations ==
  [sequence : Nat, wire : Mapping, opened : BOOLEAN, lock : Calls \cup {NoOne}, torn : BOOLEAN,
   snapshot : Snapshots]

EngineRecords ==
  [variables : Mapping, pending : BOOLEAN, revision : Nat, waiting : SUBSET Calls, broken : SUBSET Calls,
   failures : Nat]

BindingsTypeOK ==
  /\ controller \in [seq : Nat, variables : Mapping,
                     update : [seq : Nat, kind : {"none", "set", "replace"}, values : Patch]]
  /\ writer.pc \in {"idle", "variables", "update"}
  /\ writer.pc # "idle" =>
       writer \in [pc : {"variables", "update"}, kind : {"set", "replace"}, values : Patch]
  /\ evaluation \in Evaluations
  /\ call \in [Calls -> CallRecords]
  /\ engine \in EngineRecords
  /\ wire \in Seq(Messages)

\* The call that synchronises has the lock, and only a call that waits has an answer.
Locks ==
  \A c \in Calls :
    /\ call[c].pc \in Locked <=> evaluation.lock = c
    /\ call[c].pc \notin {"updating", "asking"} => call[c].reply.status = "none"

\* A request under way is that of a call that waits for it.
Delivers(m, k, waiting) ==
  /\ k.reply.status = "none"
  /\ m.op \in Updates => k.pc = "updating"
  /\ m.op \notin Updates => k.pc = "asking" /\ m.call \notin waiting

Underway ==
  /\ \A i \in DOMAIN wire : Delivers(wire[i], call[wire[i].call], engine.waiting)
  /\ \A i, j \in DOMAIN wire : wire[i].call = wire[j].call => i = j
  /\ \A c \in engine.waiting : call[c].pc = "asking" /\ call[c].reply.status = "none"

\* The mappings that matter: the controller's, and what each call began with.
Past == {controller.variables} \cup {call[c].started : c \in Calls}

\* The last write that the controller's variables show.
Visible == IF writer.pc = "variables" THEN controller.seq - 1 ELSE controller.seq

\* These are the values of write seq.
Of(values, seq, past, variables) ==
  \A n \in Names :
    /\ n \in DOMAIN values => values[n] = seq /\ variables[n] >= seq
    /\ \A v \in past : v[n] = seq => n \in DOMAIN values

\* The controller between two assignments.
Written ==
  /\ \A v \in Past : NotBehind(controller.variables, v)
  /\ \A n \in Names : controller.variables[n] <= Visible
  /\ controller.update.seq <= Visible
  /\ Of(controller.update.values, controller.update.seq, Past, controller.variables)
  /\ writer.pc # "idle" => \A n \in DOMAIN writer.values : writer.values[n] = controller.seq
  /\ writer.pc = "update" => Of(writer.values, controller.seq, Past, controller.variables)

\* A mapping that has every write of the past up to seq.
UpTo(past, seq, has) == \A v \in past : \A n \in Names : v[n] <= seq => has[n] >= v[n]

Within(variables, seq) == \A n \in Names : variables[n] <= seq

\* What a call has read of the controller, and what the engine has of what it began
\* with, at each of its stages.
Stands(k, past, variables, has, visible) ==
  /\ k.pc \in Locked => Within(k.started, k.seq)
  /\ k.pc \in {"sequenced", "opening", "wired"} => Within(has, k.seq)
  /\ k.pc = "wired" =>
       /\ NotBehind(k.wire, has) /\ NotBehind(variables, k.wire)
       /\ (\E n \in Names : k.wire[n] >= k.seq) => UpTo(past, k.seq, k.wire)
  /\ k.pc = "updating" => k.seq <= visible
  /\ k.pc = "updating" /\ k.reply.status = "result" => UpTo(past, k.seq, has)
  /\ k.pc \in {"synced", "asking"} => NotBehind(has, k.started)
  /\ k.pc = "asking" /\ k.reply.status # "none" => NotBehind(k.reply.snapshot.variables, k.started)
  /\ k.pc = "returned" => NotBehind(k.wire, k.started)

CallsStand == \A c \in Calls : Stands(call[c], Past, controller.variables, engine.variables, Visible)

\* An update brings the engine forward, to every write up to its call's sequence.
Brings(values, seq, past, variables, has) ==
  /\ NotBehind(Assign(has, values), has)
  /\ NotBehind(variables, Assign(has, values))
  /\ UpTo(past, seq, Assign(has, values))

MessagesBring ==
  \A i \in DOMAIN wire : wire[i].op \in Updates =>
    Brings(wire[i].values, call[wire[i].call].seq, Past, controller.variables, engine.variables)

\* The engine has every write up to the sequence that Python believes it has, and
\* nothing that was never set.
Follows ==
  /\ NotBehind(controller.variables, engine.variables)
  /\ evaluation.sequence <= Visible
  /\ UpTo(Past, evaluation.sequence, engine.variables)

SnapshotsSeen ==
  {s \in Snapshots : \/ s = evaluation.snapshot
                     \/ \E c \in Calls : Replied(c) /\ s = call[c].reply.snapshot}

\* Snapshots are numbered in the order of their variables.
Ordered ==
  \A s \in SnapshotsSeen :
    /\ s.revision <= engine.revision /\ NotBehind(engine.variables, s.variables)
    /\ \A t \in SnapshotsSeen : s.revision <= t.revision => NotBehind(t.variables, s.variables)

Synchronised == Follows /\ CallsStand /\ MessagesBring /\ Ordered

BindingsInv ==
  BindingsTypeOK /\ Locks /\ Underway /\ Written /\ (evaluation.torn \/ Synchronised)

-----------------------------------------------------------------------------

LEMMA NotBehindTransitive ==
  ASSUME NEW u \in Mapping, NEW v \in Mapping, NEW w \in Mapping, NotBehind(u, v), NotBehind(v, w)
  PROVE  NotBehind(u, w)
BY DEF Mapping, NotBehind

LEMMA NotBehindItself == ASSUME NEW u \in Mapping PROVE NotBehind(u, u)
BY DEF Mapping, NotBehind

LEMMA AssignIsMapping ==
  ASSUME NEW variables \in Mapping, NEW values \in Patch PROVE Assign(variables, values) \in Mapping
BY DEF Assign, Mapping, Patch

\* A whole mapping replaces another.
LEMMA AssignWhole ==
  ASSUME NEW variables \in Mapping, NEW values \in Mapping PROVE Assign(variables, values) = values
BY DEF Assign, Mapping

LEMMA WholeIsPatch == ASSUME NEW values \in Mapping PROVE values \in Patch
BY DEF Mapping, Patch

\* A mapping that is nowhere behind the past has all of it.
LEMMA UpToAhead ==
  ASSUME NEW past \in SUBSET Mapping, NEW seq \in Int, NEW has \in Mapping,
         \A v \in past : NotBehind(has, v)
  PROVE  UpTo(past, seq, has)
BY DEF UpTo, NotBehind, Mapping

LEMMA StandsForFewer ==
  ASSUME NEW past, NEW fewer \in SUBSET past, NEW k, NEW variables, NEW has, NEW visible,
         Stands(k, past, variables, has, visible)
  PROVE  Stands(k, fewer, variables, has, visible)
BY DEF Stands, UpTo

LEMMA SeenAre == ASSUME BindingsTypeOK PROVE
  /\ evaluation.snapshot \in SnapshotsSeen
  /\ \A c \in Calls : Replied(c) => call[c].reply \in [status : {"result", "error"}, snapshot : Snapshots]
                                    /\ call[c].reply.snapshot \in SnapshotsSeen
<1>1. evaluation.snapshot \in Snapshots
  BY DEF BindingsTypeOK, Evaluations, EngineRecords
<1>2. ASSUME NEW c \in Calls, Replied(c)
      PROVE  call[c].reply \in [status : {"result", "error"}, snapshot : Snapshots]
  BY <1>2 DEF BindingsTypeOK, CallRecords, Replied, NoReply
<1> QED
  BY <1>1, <1>2 DEF SnapshotsSeen

\* Snapshots stay in order when none is new.
LEMMA OrderKept ==
  ASSUME BindingsTypeOK, Ordered, SnapshotsSeen' \subseteq SnapshotsSeen,
         engine'.revision \in Nat, engine.revision <= engine'.revision,
         engine'.variables \in Mapping, NotBehind(engine'.variables, engine.variables)
  PROVE  Ordered'
<1>1. \A s \in SnapshotsSeen : s \in Snapshots
  BY DEF SnapshotsSeen
<1>2. engine.revision \in Nat /\ engine.variables \in Mapping
  BY DEF BindingsTypeOK, EngineRecords
<1> QED
  BY <1>1, <1>2, NotBehindTransitive DEF Ordered, Snapshots

\* They stay in order when the engine adds one.
LEMMA OrderExtended ==
  ASSUME BindingsTypeOK, Ordered, NEW s \in Snapshots,
         SnapshotsSeen' \subseteq SnapshotsSeen \cup {s},
         engine'.revision = engine.revision + 1, s.revision = engine'.revision,
         engine'.variables = s.variables, NotBehind(s.variables, engine.variables)
  PROVE  Ordered'
<1>1. \A t \in SnapshotsSeen : t \in Snapshots
  BY DEF SnapshotsSeen
<1>2. engine.revision \in Nat /\ engine.variables \in Mapping /\ s.variables \in Mapping
  BY DEF BindingsTypeOK, EngineRecords, Snapshots
<1>3. \A t \in SnapshotsSeen : t.revision < s.revision /\ NotBehind(s.variables, t.variables)
  BY <1>1, <1>2, NotBehindTransitive DEF Ordered, Snapshots
<1>4. NotBehind(s.variables, s.variables)
  BY <1>2, NotBehindItself
<1>5. ASSUME NEW t \in SnapshotsSeen', NEW r \in SnapshotsSeen', t.revision <= r.revision
      PROVE  NotBehind(r.variables, t.variables)
  <2>1. CASE t \in SnapshotsSeen /\ r \in SnapshotsSeen
    BY <1>5, <2>1 DEF Ordered
  <2>2. CASE r = s
    BY <1>3, <1>4, <2>2
  <2>3. CASE t = s /\ r \in SnapshotsSeen
    BY <1>1, <1>3, <1>5, <2>3 DEF Snapshots
  <2> QED
    BY <2>1, <2>2, <2>3
<1>6. \A t \in SnapshotsSeen' : t.revision <= engine'.revision /\ NotBehind(engine'.variables, t.variables)
  BY <1>1, <1>2, <1>3, <1>4 DEF Snapshots
<1> QED
  BY <1>5, <1>6 DEF Ordered

LEMMA BindingsInitInv == ASSUME BindingsAssumption, BindingsInit PROVE BindingsInv
<1>1. Nothing \in Mapping /\ Nothing \in Patch /\ DOMAIN Nothing = Names /\ \A n \in Names : Nothing[n] = 0
  BY DEF Nothing, Mapping, Patch
<1>2. /\ controller.seq = 0 /\ controller.variables = Nothing /\ controller.update.values = Nothing
      /\ controller.update.kind = "none" /\ controller.update.seq = 0
      /\ engine.variables = Nothing /\ engine.revision = 0 /\ evaluation.wire = Nothing
      /\ evaluation.sequence = 0 /\ evaluation.snapshot.variables = Nothing /\ writer.pc = "idle"
      /\ evaluation.snapshot.revision = 0 /\ wire = <<>> /\ engine.waiting = {}
      /\ evaluation.lock = NoOne
      /\ \A c \in Calls : /\ call[c].pc = "idle" /\ call[c].reply.status = "none" /\ call[c].started = Nothing
                          /\ call[c].seq = 0
  BY DEF BindingsInit, NoReply
<1>3. BindingsTypeOK
  <2>1. evaluation.snapshot \in Snapshots
    BY <1>1 DEF BindingsInit, Snapshots
  <2>2. call \in [Calls -> CallRecords]
    BY <1>1 DEF BindingsInit, CallRecords, NoReply
  <2>3. wire \in Seq(Messages)
    BY <1>2
  <2> QED
    BY <1>1, <1>2, <2>1, <2>2, <2>3 DEF BindingsInit, BindingsTypeOK, Evaluations, EngineRecords
<1>4. Locks
  BY <1>2 DEF Locks, Locked, BindingsAssumption
<1>5. DOMAIN wire = {}
  BY <1>2
<1>6. Underway /\ MessagesBring
  BY <1>2, <1>5 DEF Underway, MessagesBring
<1>7. Past = {Nothing} /\ Visible = 0 /\ NotBehind(Nothing, Nothing)
  BY <1>1, <1>2, NotBehindItself DEF Past, Visible
<1>8. Written
  BY <1>1, <1>2, <1>7 DEF Written, Of
<1>9. Follows
  BY <1>1, <1>2, <1>7 DEF Follows, UpTo
<1>10. CallsStand
  BY <1>2 DEF CallsStand, Stands, Locked
<1>11. \A s \in SnapshotsSeen : s = evaluation.snapshot
  BY <1>2 DEF SnapshotsSeen, Replied
<1>12. Ordered
  BY <1>2, <1>7, <1>11 DEF Ordered
<1> QED
  BY <1>3, <1>4, <1>6, <1>8, <1>9, <1>10, <1>12 DEF BindingsInv, Synchronised

-----------------------------------------------------------------------------
(* The controller is written *)

\* What stays the same while no call moves.
LEMMA StillCalls ==
  ASSUME BindingsInv, UNCHANGED <<evaluation, call, engine, wire>>
  PROVE  Locks' /\ Underway' /\ (Ordered => Ordered')
BY DEF BindingsInv, Locks, Underway, Ordered, SnapshotsSeen, Replied

LEMMA PastIs ==
  ASSUME BindingsTypeOK
  PROVE  /\ Past \in SUBSET Mapping /\ controller.variables \in Past /\ \A c \in Calls : call[c].started \in Past
         /\ controller.variables \in Mapping /\ controller.seq \in Nat /\ Visible \in Int
         /\ Visible <= controller.seq /\ engine.variables \in Mapping /\ evaluation.sequence \in Nat
         /\ controller.update.seq \in Nat /\ controller.update.values \in Patch
         /\ \A c \in Calls : call[c] \in CallRecords
<1>1. /\ controller.variables \in Mapping /\ controller.seq \in Nat /\ engine.variables \in Mapping
      /\ evaluation.sequence \in Nat /\ controller.update.seq \in Nat /\ controller.update.values \in Patch
      /\ \A c \in Calls : call[c] \in CallRecords
  BY DEF BindingsTypeOK, Evaluations, EngineRecords
<1>2. \A c \in Calls : call[c].started \in Mapping
  BY <1>1 DEF CallRecords
<1> QED
  BY <1>1, <1>2 DEF Past, Visible

\* A write begins: only the sequence changes, and nothing shows it yet.
LEMMA WriteInv ==
  ASSUME BindingsInv, NEW kind \in {"set", "replace"}, NEW names \in SUBSET Names, Write(kind, names)
  PROVE  BindingsInv'
<1> DEFINE seq == controller.seq + 1
           values == [n \in IF kind = "set" THEN names ELSE Names |-> seq]
<1>1. /\ writer.pc = "idle"
      /\ writer' = [pc |-> "variables", kind |-> kind, values |-> values]
      /\ controller' = [controller EXCEPT !.seq = seq]
      /\ UNCHANGED <<evaluation, call, engine, wire>>
  BY DEF Write
<1>2. controller.seq \in Nat /\ controller.variables \in Mapping
  BY PastIs DEF BindingsInv
<1>3. values \in Patch /\ \A n \in DOMAIN values : values[n] = seq
  BY <1>2 DEF Patch
<1>4. /\ controller'.seq = seq /\ controller'.variables = controller.variables
      /\ controller'.update = controller.update
      /\ writer'.pc = "variables" /\ writer'.values = values
  BY <1>1 DEF BindingsInv, BindingsTypeOK
<1> HIDE DEF values
<1>5. BindingsTypeOK'
  BY <1>1, <1>2, <1>3 DEF BindingsInv, BindingsTypeOK
<1>6. Past' = Past /\ Visible' = Visible
  BY <1>1, <1>2, <1>4 DEF Past, Visible
<1>7. Written'
  BY <1>1, <1>3, <1>4, <1>6 DEF BindingsInv, Written
<1>8. Synchronised => Synchronised'
  BY <1>1, <1>4, <1>6, StillCalls DEF Synchronised, Follows, CallsStand, MessagesBring
<1> QED
  BY <1>1, <1>5, <1>7, <1>8, StillCalls DEF BindingsInv

\* The names that are set get the number of the write, which exceeds what anyone has.
LEMMA WriteVariablesInv ==
  ASSUME BindingsInv, WriteVariables
  PROVE  BindingsInv'
<1> DEFINE variables == Assign(controller.variables, writer.values)
           seq == controller.seq
<1>1. /\ writer.pc = "variables" /\ writer' = [writer EXCEPT !.pc = "update"]
      /\ controller' = [controller EXCEPT !.variables = variables]
      /\ UNCHANGED <<evaluation, call, engine, wire>>
  BY DEF WriteVariables
<1>2. /\ seq \in Nat /\ controller.variables \in Mapping /\ writer.values \in Patch
      /\ \A c \in Calls : call[c] \in CallRecords
      /\ evaluation.sequence \in Nat /\ engine.variables \in Mapping
      /\ Past \in SUBSET Mapping /\ controller.update.seq \in Nat /\ controller.update.values \in Patch
  BY <1>1, PastIs DEF BindingsInv, BindingsTypeOK
<1>3. /\ variables \in Mapping
      /\ \A n \in Names : variables[n] = IF n \in DOMAIN writer.values THEN seq ELSE controller.variables[n]
      /\ \A n \in Names : controller.variables[n] < seq
      /\ \A n \in DOMAIN writer.values : writer.values[n] = seq
  BY <1>1, <1>2 DEF BindingsInv, Written, Visible, Assign, Mapping, Patch
<1>4. NotBehind(variables, controller.variables)
  BY <1>2, <1>3 DEF NotBehind, Mapping
<1>5. /\ controller'.seq = seq /\ controller'.variables = variables
      /\ controller'.update = controller.update
      /\ writer'.pc = "update" /\ writer'.values = writer.values
  BY <1>1 DEF BindingsInv, BindingsTypeOK
<1>6. Visible = seq - 1 /\ Visible' = seq
  BY <1>1, <1>5 DEF Visible
<1>7. \A v \in Past' : v \in Past \/ v = variables
  BY <1>1, <1>5 DEF Past
<1> HIDE DEF variables
<1>8. ASSUME NEW s \in Nat, NEW w \in Mapping, s < seq, UpTo(Past, s, w) PROVE UpTo(Past', s, w)
  <2> SUFFICES ASSUME NEW v \in Past', NEW n \in Names, v[n] <= s PROVE w[n] >= v[n]
    BY DEF UpTo
  <2>1. CASE v \in Past
    BY <1>8, <2>1 DEF UpTo
  <2>2. CASE v = variables
    <3>1. variables[n] = controller.variables[n]
      BY <1>2, <1>3, <1>8, <2>2
    <3> QED
      BY <1>8, <2>2, <3>1, PastIs DEF UpTo, BindingsInv
  <2> QED
    BY <1>7, <2>1, <2>2
<1>9. BindingsTypeOK'
  BY <1>1, <1>2, <1>3 DEF BindingsInv, BindingsTypeOK
<1>10. \A v \in Past : \A n \in Names : v[n] \in Nat /\ v[n] < seq
  BY <1>2, <1>3 DEF BindingsInv, Written, NotBehind, Mapping
<1>11. Written'
  <2>1. \A v \in Past' : NotBehind(variables, v)
    BY <1>2, <1>3, <1>4, <1>7, NotBehindTransitive, NotBehindItself DEF BindingsInv, Written
  <2>2. \A n \in Names : variables[n] <= seq
    BY <1>2, <1>3 DEF Mapping
  <2>3. controller.update.seq < seq
    BY <1>2, <1>6 DEF BindingsInv, Written
  <2>4. Of(controller.update.values, controller.update.seq, Past, controller.variables)
    BY DEF BindingsInv, Written
  <2>5. Of(controller.update.values, controller.update.seq, Past', variables)
    <3>1. \A n \in Names : variables[n] >= controller.variables[n]
      BY <1>4 DEF NotBehind
    <3>2. \A n \in Names : variables[n] \in Nat /\ controller.variables[n] \in Nat
      BY <1>2, <1>3 DEF Mapping
    <3>3. \A n \in Names : variables[n] = controller.update.seq => variables[n] = controller.variables[n]
      BY <1>2, <1>3, <2>3
    <3>4. controller.variables \in Past
      BY DEF Past
    <3> QED
      BY <1>2, <1>7, <2>4, <3>1, <3>2, <3>3, <3>4 DEF Of
  <2>6. Of(writer.values, seq, Past', variables)
    <3>1. \A v \in Past : \A n \in Names : v[n] # seq
      BY <1>2, <1>10
    <3>2. \A n \in Names : n \in DOMAIN writer.values => variables[n] = seq
      BY <1>3
    <3>3. \A n \in Names : variables[n] = seq => n \in DOMAIN writer.values
      BY <1>2, <1>3 DEF Mapping
    <3> QED
      BY <1>2, <1>3, <1>7, <3>1, <3>2, <3>3 DEF Of
  <2> QED
    BY <1>2, <1>3, <1>5, <1>6, <2>1, <2>2, <2>3, <2>5, <2>6 DEF Written
<1>12. ASSUME Synchronised PROVE Synchronised'
  <2>1. Follows'
    <3>1. evaluation.sequence < seq /\ evaluation.sequence <= seq
      BY <1>2, <1>6, <1>12 DEF Synchronised, Follows
    <3>2. UpTo(Past', evaluation.sequence, engine.variables)
      BY <1>2, <1>8, <1>12, <3>1 DEF Synchronised, Follows
    <3>3. NotBehind(variables, engine.variables)
      BY <1>2, <1>3, <1>4, <1>12, NotBehindTransitive DEF Synchronised, Follows
    <3> QED
      BY <1>1, <1>5, <1>6, <3>1, <3>2, <3>3 DEF Follows
  <2>2. ASSUME NEW c \in Calls PROVE Stands(call[c], Past', variables, engine.variables, seq)
    <3>1. /\ call[c].seq \in Nat /\ call[c].wire \in Mapping
          /\ Stands(call[c], Past, controller.variables, engine.variables, seq - 1)
      BY <1>2, <1>6, <1>12 DEF CallRecords, Synchronised, CallsStand
    <3>2. CASE call[c].pc = "wired"
      <4>1. NotBehind(controller.variables, call[c].wire)
        BY <3>1, <3>2 DEF Stands
      <4>2. NotBehind(variables, call[c].wire)
        BY <1>2, <1>3, <1>4, <3>1, <4>1, NotBehindTransitive
      <4>3. ASSUME NEW n \in Names, call[c].wire[n] >= call[c].seq PROVE UpTo(Past', call[c].seq, call[c].wire)
        <5>1. call[c].seq < seq
          BY <1>2, <1>3, <3>1, <4>1, <4>3 DEF NotBehind, Mapping
        <5> QED
          BY <1>8, <3>1, <3>2, <4>3, <5>1 DEF Stands
      <4> QED
        BY <3>1, <3>2, <4>2, <4>3 DEF Stands
    <3>3. CASE call[c].pc = "updating"
      <4>1. call[c].seq < seq /\ call[c].seq <= seq
        BY <1>2, <3>1, <3>3 DEF Stands
      <4>2. call[c].reply.status = "result" => UpTo(Past', call[c].seq, engine.variables)
        BY <1>2, <1>8, <3>1, <3>3, <4>1 DEF Stands
      <4> QED
        BY <3>1, <3>3, <4>1, <4>2 DEF Stands
    <3>4. CASE call[c].pc \notin {"wired", "updating"}
      BY <3>1, <3>4 DEF Stands
    <3> QED
      BY <3>2, <3>3, <3>4
  <2>3. MessagesBring'
    <3> SUFFICES ASSUME NEW i \in DOMAIN wire, wire[i].op \in Updates
                 PROVE  Brings(wire[i].values, call[wire[i].call].seq, Past', variables, engine.variables)
      BY <1>1, <1>5 DEF MessagesBring
    <3> DEFINE k == call[wire[i].call]
               then == Assign(engine.variables, wire[i].values)
    <3>1. wire[i] \in Messages
      BY DEF BindingsInv, BindingsTypeOK
    <3>2. wire[i].call \in Calls /\ wire[i].values \in Patch
      BY <3>1 DEF Messages, Updates
    <3>3. k.pc = "updating" /\ k.seq \in Nat
      BY <1>2, <3>2 DEF BindingsInv, Underway, Delivers, CallRecords
    <3>4. k.seq < seq
      BY <1>2, <1>6, <1>12, <3>2, <3>3 DEF Synchronised, CallsStand, Stands
    <3>5. /\ NotBehind(then, engine.variables) /\ NotBehind(controller.variables, then)
          /\ UpTo(Past, k.seq, then)
      BY <1>12 DEF Synchronised, MessagesBring, Brings
    <3>6. then \in Mapping
      BY <1>2, <3>2, AssignIsMapping
    <3> HIDE DEF then, k
    <3>7. NotBehind(variables, then) /\ UpTo(Past', k.seq, then)
      BY <1>2, <1>3, <1>4, <1>8, <3>3, <3>4, <3>5, <3>6, NotBehindTransitive
    <3> QED
      BY <3>5, <3>7 DEF Brings, then, k
  <2> QED
    BY <1>1, <1>5, <1>6, <1>12, <2>1, <2>2, <2>3, StillCalls DEF Synchronised, CallsStand
<1> QED
  BY <1>1, <1>9, <1>11, <1>12, StillCalls DEF BindingsInv

LEMMA WriteUpdateInv ==
  ASSUME BindingsInv, WriteUpdate
  PROVE  BindingsInv'
<1>1. /\ writer.pc = "update" /\ writer' = [writer EXCEPT !.pc = "idle"]
      /\ controller' = [controller EXCEPT !.update = [seq |-> controller.seq, kind |-> writer.kind,
                                                      values |-> writer.values]]
      /\ UNCHANGED <<evaluation, call, engine, wire>>
  BY DEF WriteUpdate
<1>2. writer \in [pc : {"variables", "update"}, kind : {"set", "replace"}, values : Patch]
  BY <1>1 DEF BindingsInv, BindingsTypeOK
<1>3. /\ controller'.seq = controller.seq /\ controller'.variables = controller.variables
      /\ controller'.update.values = writer.values /\ controller'.update.seq = controller.seq
      /\ writer'.pc = "idle"
  BY <1>1, <1>2 DEF BindingsInv, BindingsTypeOK
<1>4. BindingsTypeOK'
  BY <1>1, <1>2 DEF BindingsInv, BindingsTypeOK
<1>5. Past' = Past /\ Visible' = Visible /\ Visible = controller.seq
  BY <1>1, <1>3 DEF Past, Visible
<1>6. controller.seq \in Nat
  BY DEF BindingsInv, BindingsTypeOK
<1>7. Written'
  BY <1>1, <1>3, <1>5, <1>6 DEF BindingsInv, Written
<1>8. Synchronised => Synchronised'
  BY <1>1, <1>3, <1>5, StillCalls DEF Synchronised, Follows, CallsStand, MessagesBring
<1> QED
  BY <1>1, <1>4, <1>7, <1>8, StillCalls DEF BindingsInv

-----------------------------------------------------------------------------
(* Calls *)

\* A call that waits for nothing has no request in the engine.
Silent(c) == c \notin engine.waiting /\ \A i \in DOMAIN wire : wire[i].call # c

LEMMA SilentCalls ==
  ASSUME BindingsInv, NEW c \in Calls, call[c].pc \notin {"updating", "asking"} \/ Replied(c)
  PROVE  Silent(c)
BY DEF BindingsInv, Underway, Delivers, Silent, Replied

LEMMA CallIs ==
  ASSUME BindingsInv, NEW c \in Calls
  PROVE  /\ call[c] \in CallRecords /\ call[c].started \in Past /\ evaluation \in Evaluations
         /\ evaluation.snapshot \in SnapshotsSeen /\ wire \in Seq(Messages)
         /\ call[c].pc \notin {"updating", "asking"} => call[c].reply.status = "none"
BY PastIs, SeenAre DEF BindingsInv, BindingsTypeOK, Locks

\* What Synchronised says of the calls.
LEMMA CallStands ==
  ASSUME BindingsInv, ~evaluation.torn
  PROVE  /\ \A c \in Calls : Stands(call[c], Past, controller.variables, engine.variables, Visible)
         /\ NotBehind(controller.variables, engine.variables)
         /\ evaluation.sequence <= Visible /\ UpTo(Past, evaluation.sequence, engine.variables)
BY DEF BindingsInv, Synchronised, CallsStand, Follows

\* A step of one call, which sends at most one request.
LEMMA CallInv ==
  ASSUME BindingsInv, NEW c \in Calls, NEW k \in CallRecords, call' = [call EXCEPT ![c] = k],
         UNCHANGED <<controller, writer, engine>>,
         evaluation' \in Evaluations, wire' \in Seq(Messages), Locks', Underway',
         k.started \in Past, k.reply.status = "none" \/ k.reply = call[c].reply,
         evaluation.torn => evaluation'.torn,
         ~evaluation'.torn =>
           /\ Stands(k, Past, controller.variables, engine.variables, Visible)
           /\ \/ evaluation'.sequence = evaluation.sequence
              \/ /\ evaluation'.sequence <= Visible
                 /\ UpTo(Past, evaluation'.sequence, engine.variables)
           /\ evaluation'.snapshot \in SnapshotsSeen
           /\ \A i \in DOMAIN wire' :
                \/ i \in DOMAIN wire /\ wire'[i] = wire[i] /\ wire[i].call # c
                \/ /\ wire'[i].call = c
                   /\ wire'[i].op \in Updates =>
                        Brings(wire'[i].values, k.seq, Past, controller.variables, engine.variables)
  PROVE  BindingsInv'
<1>1. call'[c] = k /\ \A d \in Calls \ {c} : call'[d] = call[d]
  BY DEF BindingsInv, BindingsTypeOK
<1>2. Past' \in SUBSET Past /\ Visible' = Visible
  BY <1>1 DEF Past, Visible
<1>3. BindingsTypeOK'
  BY DEF BindingsInv, BindingsTypeOK
<1>4. Written'
  BY <1>2 DEF BindingsInv, Written, Of
<1>5. ASSUME ~evaluation'.torn PROVE Synchronised'
  <2>1. Synchronised
    BY <1>5 DEF BindingsInv
  <2>2. Follows'
    BY <1>2, <1>5, <2>1 DEF Synchronised, Follows, UpTo
  <2>3. CallsStand'
    <3> SUFFICES ASSUME NEW d \in Calls
                 PROVE  Stands(call'[d], Past', controller.variables, engine.variables, Visible)
      BY <1>2 DEF CallsStand
    <3>1. Stands(call'[d], Past, controller.variables, engine.variables, Visible)
      BY <1>1, <1>5, <2>1 DEF Synchronised, CallsStand
    <3> QED
      BY <1>2, <3>1, StandsForFewer
  <2>4. MessagesBring'
    <3> SUFFICES ASSUME NEW i \in DOMAIN wire', wire'[i].op \in Updates
                 PROVE  Brings(wire'[i].values, call'[wire'[i].call].seq, Past', controller.variables,
                               engine.variables)
      BY DEF MessagesBring
    <3>1. \A j \in DOMAIN wire : wire[j].call \in Calls
      BY DEF BindingsInv, BindingsTypeOK, Messages
    <3>2. Brings(wire'[i].values, call'[wire'[i].call].seq, Past, controller.variables, engine.variables)
      BY <1>1, <1>5, <2>1, <3>1 DEF Synchronised, MessagesBring
    <3> QED
      BY <1>2, <3>2 DEF Brings, UpTo
  <2>5. Ordered'
    <3>1. SnapshotsSeen' \subseteq SnapshotsSeen
      BY <1>1, <1>5 DEF SnapshotsSeen, Replied
    <3>2. engine.revision \in Nat /\ engine.variables \in Mapping
      BY DEF BindingsInv, BindingsTypeOK, EngineRecords
    <3> QED
      BY <2>1, <3>1, <3>2, OrderKept, NotBehindItself DEF BindingsInv, Synchronised
  <2> QED
    BY <2>2, <2>3, <2>4, <2>5 DEF Synchronised
<1> QED
  BY <1>3, <1>4, <1>5 DEF BindingsInv

\* A call that sends nothing.
LEMMA QuietInv ==
  ASSUME BindingsInv, NEW c \in Calls, NEW k \in CallRecords, call' = [call EXCEPT ![c] = k],
         UNCHANGED <<controller, writer, engine, wire>>, evaluation' \in Evaluations, Silent(c), Locks',
         k.started \in Past, k.reply.status = "none", evaluation'.torn = evaluation.torn,
         ~evaluation.torn =>
           /\ Stands(k, Past, controller.variables, engine.variables, Visible)
           /\ \/ evaluation'.sequence = evaluation.sequence
              \/ /\ evaluation'.sequence <= Visible
                 /\ UpTo(Past, evaluation'.sequence, engine.variables)
           /\ evaluation'.snapshot \in SnapshotsSeen
  PROVE  BindingsInv'
<1>1. \A d \in Calls \ {c} : call'[d] = call[d]
  BY DEF BindingsInv, BindingsTypeOK
<1>2. \A i \in DOMAIN wire : wire[i].call \in Calls
  BY DEF BindingsInv, BindingsTypeOK, Messages
<1>3. engine.waiting \subseteq Calls
  BY DEF BindingsInv, BindingsTypeOK, EngineRecords
<1>4. Underway'
  BY <1>1, <1>2, <1>3 DEF BindingsInv, Underway, Silent
<1>5. \A i \in DOMAIN wire' : i \in DOMAIN wire /\ wire'[i] = wire[i] /\ wire[i].call # c
  BY DEF Silent
<1>6. wire' \in Seq(Messages)
  BY CallIs
<1> QED
  BY <1>4, <1>5, <1>6, CallInv

\* The lock stays with whom has it.
LEMMA LockKept ==
  ASSUME BindingsInv, NEW c \in Calls, NEW k, call' = [call EXCEPT ![c] = k],
         evaluation'.lock = evaluation.lock, k.pc \in Locked <=> call[c].pc \in Locked,
         k.reply.status = "none"
  PROVE  Locks'
<1>1. call'[c] = k /\ \A d \in Calls \ {c} : call'[d] = call[d]
  BY DEF BindingsInv, BindingsTypeOK
<1> QED
  BY <1>1 DEF BindingsInv, Locks

LEMMA LockFreed ==
  ASSUME BindingsAssumption, BindingsInv, NEW c \in Calls, NEW k, call' = [call EXCEPT ![c] = k],
         call[c].pc \in Locked, k.pc \notin Locked, evaluation'.lock = NoOne, k.reply.status = "none"
  PROVE  Locks'
<1>1. call'[c] = k /\ \A d \in Calls \ {c} : call'[d] = call[d]
  BY DEF BindingsInv, BindingsTypeOK
<1>2. evaluation.lock = c
  BY DEF BindingsInv, Locks
<1>3. \A d \in Calls \ {c} : call'[d].pc \notin Locked
  BY <1>1, <1>2 DEF BindingsInv, Locks
<1> QED
  BY <1>1, <1>3 DEF BindingsInv, Locks, BindingsAssumption

\* A call that sends its own request.
LEMMA SentInv ==
  ASSUME BindingsInv, NEW c \in Calls, NEW k \in CallRecords, call' = [call EXCEPT ![c] = k], Silent(c),
         UNCHANGED <<controller, writer, engine>>, NEW m \in Messages, m.call = c,
         wire' = Append(wire, m), Delivers(m, k, engine.waiting),
         k.pc \in Locked <=> call[c].pc \in Locked,
         k.started \in Past, evaluation' \in Evaluations, evaluation'.lock = evaluation.lock,
         evaluation'.sequence = evaluation.sequence, evaluation'.snapshot = evaluation.snapshot,
         evaluation.torn => evaluation'.torn,
         ~evaluation'.torn =>
           /\ Stands(k, Past, controller.variables, engine.variables, Visible)
           /\ m.op \in Updates => Brings(m.values, k.seq, Past, controller.variables, engine.variables)
  PROVE  BindingsInv'
<1>1. call'[c] = k /\ \A d \in Calls \ {c} : call'[d] = call[d]
  BY DEF BindingsInv, BindingsTypeOK
<1>2. wire \in Seq(Messages) /\ engine.waiting \subseteq Calls
  BY DEF BindingsInv, BindingsTypeOK, EngineRecords
<1>3. \A i \in DOMAIN wire : wire[i].call \in Calls
  BY <1>2 DEF Messages
<1>4. /\ \A i \in DOMAIN wire : wire'[i] = wire[i]
      /\ wire'[Len(wire) + 1] = m /\ DOMAIN wire' = DOMAIN wire \cup {Len(wire) + 1}
      /\ wire' \in Seq(Messages)
  BY <1>2
<1>5. \A i \in DOMAIN wire' : Delivers(wire'[i], call'[wire'[i].call], engine.waiting)
  BY <1>1, <1>3, <1>4 DEF BindingsInv, Underway, Silent
<1>6. \A i, j \in DOMAIN wire' : wire'[i].call = wire'[j].call => i = j
  BY <1>4 DEF BindingsInv, Underway, Silent
<1>7. \A d \in engine.waiting : call'[d].pc = "asking" /\ call'[d].reply.status = "none"
  BY <1>1, <1>2 DEF BindingsInv, Underway, Silent
<1>8. Underway'
  BY <1>4, <1>5, <1>6, <1>7 DEF Underway
<1>9. k.reply.status = "none"
  BY DEF Delivers
<1>10. Locks'
  BY <1>9, LockKept
<1>11. \A i \in DOMAIN wire' :
         \/ i \in DOMAIN wire /\ wire'[i] = wire[i] /\ wire[i].call # c
         \/ wire'[i] = m
  BY <1>4 DEF Silent
<1> QED
  BY <1>4, <1>8, <1>9, <1>10, <1>11, CallIs, CallInv

LEMMA BeginInv ==
  ASSUME BindingsInv, NEW c \in Calls, Begin(c) PROVE BindingsInv'
<1> DEFINE k == [call[c] EXCEPT !.pc = "syncing", !.started = controller.variables]
<1>1. /\ call[c].pc = "idle" /\ call' = [call EXCEPT ![c] = k]
      /\ UNCHANGED <<controller, writer, evaluation, engine, wire>>
  BY DEF Begin, At
<1>2. controller.variables \in Past /\ controller.variables \in Mapping
  BY PastIs DEF BindingsInv
<1>3. /\ k \in CallRecords /\ k.pc = "syncing" /\ k.started = controller.variables
      /\ k.reply.status = "none"
  BY <1>1, <1>2, CallIs DEF CallRecords
<1> HIDE DEF k
<1>4. Silent(c)
  BY <1>1, SilentCalls
<1>5. Locks'
  BY <1>1, <1>3, LockKept DEF Locked
<1>6. Stands(k, Past, controller.variables, engine.variables, Visible)
  BY <1>3 DEF Stands, Locked
<1> QED
  BY <1>1, <1>2, <1>3, <1>4, <1>5, <1>6, CallIs, QuietInv

LEMMA ReadSequenceInv ==
  ASSUME BindingsAssumption, BindingsInv, NEW c \in Calls, ReadSequence(c) PROVE BindingsInv'
<1> DEFINE k == [call[c] EXCEPT !.pc = IF evaluation.opened THEN "sequenced" ELSE "opening",
                                !.seq = controller.seq]
<1>1. /\ call[c].pc = "syncing" /\ evaluation.lock = NoOne
      /\ evaluation' = [evaluation EXCEPT !.lock = c] /\ call' = [call EXCEPT ![c] = k]
      /\ UNCHANGED <<controller, writer, engine, wire>>
  BY DEF ReadSequence, At, Free
<1>2. controller.seq \in Nat /\ controller.variables \in Mapping /\ Visible \in Int
      /\ Visible <= controller.seq /\ Past \in SUBSET Mapping /\ engine.variables \in Mapping
  BY PastIs DEF BindingsInv
<1>3. /\ k \in CallRecords /\ k.pc \in {"sequenced", "opening"} /\ k.started = call[c].started
      /\ k.seq = controller.seq /\ k.reply.status = "none"
  BY <1>1, <1>2, CallIs DEF CallRecords, Locked
<1> HIDE DEF k
<1>4. /\ evaluation' \in Evaluations /\ evaluation'.lock = c /\ evaluation'.torn = evaluation.torn
      /\ evaluation'.sequence = evaluation.sequence /\ evaluation'.snapshot = evaluation.snapshot
  BY <1>1, CallIs DEF Evaluations
<1>5. Locks'
  <2>1. call'[c] = k /\ \A d \in Calls \ {c} : call'[d] = call[d]
    BY <1>1 DEF BindingsInv, BindingsTypeOK
  <2>2. \A d \in Calls : call[d].pc \notin Locked
    BY <1>1 DEF BindingsInv, Locks, BindingsAssumption
  <2>3. k.pc \in Locked
    BY <1>3 DEF Locked
  <2> QED
    BY <1>3, <1>4, <2>1, <2>2, <2>3 DEF BindingsInv, Locks
<1>6. Within(controller.variables, controller.seq)
  BY <1>2 DEF BindingsInv, Written, Within, Mapping
<1>7. Within(call[c].started, controller.seq)
  BY <1>2, <1>6, CallIs DEF BindingsInv, Written, NotBehind, Within, Mapping
<1>8. ASSUME ~evaluation.torn PROVE Within(engine.variables, controller.seq)
  BY <1>2, <1>6, <1>8, CallStands DEF NotBehind, Within, Mapping
<1>9. ~evaluation.torn => Stands(k, Past, controller.variables, engine.variables, Visible)
  BY <1>3, <1>7, <1>8 DEF Stands
<1> QED
  BY <1>1, <1>3, <1>4, <1>5, <1>9, SilentCalls, CallIs, QuietInv

\* The controller's variables are behind no mapping of the past.
LEMMA VariablesUpTo == ASSUME BindingsInv, NEW seq \in Nat PROVE UpTo(Past, seq, controller.variables)
BY PastIs, UpToAhead DEF BindingsInv, Written

\* A write that someone has read is one that the controller shows.
LEMMA ReadIsVisible ==
  ASSUME BindingsInv, NEW variables \in Mapping, NEW seq \in Nat,
         NotBehind(controller.variables, variables), \E n \in Names : variables[n] >= seq
  PROVE  seq <= Visible
BY PastIs DEF BindingsInv, Written, NotBehind, Mapping

LEMMA OpenEngineInv ==
  ASSUME BindingsInv, NEW c \in Calls, OpenEngine(c) PROVE BindingsInv'
<1> DEFINE k == [call[c] EXCEPT !.pc = "updating", !.wire = controller.variables]
           m == [call |-> c, op |-> "open", values |-> controller.variables]
<1>1. /\ call[c].pc = "opening" /\ call' = [call EXCEPT ![c] = k] /\ wire' = Append(wire, m)
      /\ evaluation' = [evaluation EXCEPT !.torn = @ \/ OlderVariables(c, controller.variables)]
      /\ UNCHANGED <<controller, writer, engine>>
  BY DEF OpenEngine, At, Send
<1>2. controller.variables \in Mapping /\ engine.variables \in Mapping
  BY PastIs DEF BindingsInv
<1>3. /\ k \in CallRecords /\ k.pc = "updating" /\ k.seq = call[c].seq /\ k.seq \in Nat
      /\ k.started = call[c].started /\ k.wire = controller.variables /\ k.reply.status = "none"
  BY <1>1, <1>2, CallIs DEF CallRecords, Locked
<1>4. m \in Messages /\ m.call = c /\ m.op = "open" /\ m.values = controller.variables
  BY <1>2, WholeIsPatch DEF Messages, Updates
<1> HIDE DEF k, m
<1>5. /\ evaluation' \in Evaluations /\ evaluation'.lock = evaluation.lock
      /\ evaluation'.sequence = evaluation.sequence /\ evaluation'.snapshot = evaluation.snapshot
      /\ evaluation'.torn <=> evaluation.torn \/ OlderVariables(c, controller.variables)
  <2>1. OlderVariables(c, controller.variables) \in BOOLEAN
    BY DEF OlderVariables
  <2> QED
    BY <1>1, <2>1, CallIs DEF Evaluations
<1>6. Delivers(m, k, engine.waiting)
  BY <1>3, <1>4 DEF Delivers, Updates
<1>7. ASSUME ~evaluation'.torn
      PROVE  /\ Stands(k, Past, controller.variables, engine.variables, Visible)
             /\ Brings(m.values, k.seq, Past, controller.variables, engine.variables)
  <2>1. ~evaluation.torn /\ \E n \in Names : controller.variables[n] >= k.seq
    BY <1>2, <1>3, <1>5, <1>7 DEF OlderVariables, Mapping
  <2>2. k.seq <= Visible
    BY <1>2, <1>3, <2>1, ReadIsVisible, NotBehindItself
  <2>3. Within(k.started, k.seq) /\ NotBehind(controller.variables, engine.variables)
    BY <1>1, <1>3, <2>1, CallStands DEF Stands, Locked
  <2>4. Stands(k, Past, controller.variables, engine.variables, Visible)
    BY <1>3, <2>2, <2>3 DEF Stands
  <2>5. Brings(m.values, k.seq, Past, controller.variables, engine.variables)
    BY <1>2, <1>3, <1>4, <2>3, AssignWhole, VariablesUpTo, NotBehindItself DEF Brings
  <2> QED
    BY <2>4, <2>5
<1> QED
  BY <1>1, <1>3, <1>4, <1>5, <1>6, <1>7, SilentCalls, CallIs, SentInv DEF Locked

LEMMA ReadWireInv ==
  ASSUME BindingsAssumption, BindingsInv, NEW c \in Calls, ReadWire(c) PROVE BindingsInv'
<1>1. call[c].pc = "sequenced" /\ UNCHANGED <<controller, writer, engine, wire>>
  BY DEF ReadWire, At
<1>2. Silent(c)
  BY <1>1, SilentCalls
<1>3. call[c].reply.status = "none" /\ call[c].pc \in Locked /\ call[c].seq \in Nat
      /\ controller.variables \in Mapping /\ engine.variables \in Mapping
      /\ call[c].started \in Mapping /\ evaluation.sequence \in Nat
  BY <1>1, CallIs, PastIs DEF CallRecords, Locked, BindingsInv
<1>4. ASSUME call[c].seq = evaluation.sequence, call' = Left(c, "synced"),
             evaluation' = [evaluation EXCEPT !.lock = NoOne]
      PROVE  BindingsInv'
  <2> DEFINE k == [call[c] EXCEPT !.pc = "synced", !.op = "none", !.seq = 0, !.wire = Nothing, !.reply = NoReply]
  <2>1. call' = [call EXCEPT ![c] = k]
    BY <1>4 DEF Left
  <2>2. k \in CallRecords /\ k.pc = "synced" /\ k.started = call[c].started /\ k.reply.status = "none"
    BY CallIs DEF CallRecords, NoReply, Nothing, Mapping
  <2> HIDE DEF k
  <2>3. /\ evaluation' \in Evaluations /\ evaluation'.lock = NoOne /\ evaluation'.torn = evaluation.torn
        /\ evaluation'.sequence = evaluation.sequence /\ evaluation'.snapshot = evaluation.snapshot
    BY <1>4, CallIs DEF Evaluations
  <2>4. Locks'
    BY <1>3, <2>1, <2>2, <2>3, LockFreed DEF Locked
  <2>5. ASSUME ~evaluation.torn PROVE Stands(k, Past, controller.variables, engine.variables, Visible)
    <3>1. Within(call[c].started, evaluation.sequence)
      BY <1>3, <1>4, <2>5, CallStands DEF Stands
    <3>2. UpTo(Past, evaluation.sequence, engine.variables) /\ call[c].started \in Past
      BY <2>5, CallStands, CallIs
    <3>3. NotBehind(engine.variables, call[c].started)
      BY <3>1, <3>2 DEF UpTo, Within, NotBehind
    <3> QED
      BY <2>2, <3>3 DEF Stands, Locked
  <2> QED
    BY <1>1, <1>2, <2>1, <2>2, <2>3, <2>4, <2>5, CallIs, QuietInv
<1>5. ASSUME call' = [call EXCEPT ![c].pc = "wired", ![c].wire = controller.variables],
             UNCHANGED evaluation
      PROVE  BindingsInv'
  <2> DEFINE k == [call[c] EXCEPT !.pc = "wired", !.wire = controller.variables]
  <2>1. call' = [call EXCEPT ![c] = k]
    BY <1>5
  <2>2. /\ k \in CallRecords /\ k.pc = "wired" /\ k.wire = controller.variables
        /\ k.started = call[c].started /\ k.seq = call[c].seq /\ k.reply.status = "none"
    BY <1>3, CallIs DEF CallRecords, Locked
  <2> HIDE DEF k
  <2>3. Locks'
    BY <1>3, <1>5, <2>1, <2>2, LockKept DEF Locked
  <2>4. ASSUME ~evaluation.torn PROVE Stands(k, Past, controller.variables, engine.variables, Visible)
    <3>1. /\ Within(call[c].started, call[c].seq) /\ Within(engine.variables, call[c].seq)
          /\ NotBehind(controller.variables, engine.variables)
      BY <1>1, <1>3, <2>4, CallStands DEF Stands
    <3>2. UpTo(Past, call[c].seq, controller.variables)
      BY <1>3, VariablesUpTo
    <3> QED
      BY <1>3, <2>2, <3>1, <3>2, NotBehindItself DEF Stands
  <2> QED
    BY <1>1, <1>2, <1>5, <2>1, <2>2, <2>3, <2>4, CallIs, QuietInv
<1> QED
  BY <1>4, <1>5 DEF ReadWire

\* A patch that is the write after those that the engine has.
LEMMA PatchBrings ==
  ASSUME BindingsInv, ~evaluation.torn, NEW c \in Calls, call[c].pc = "wired", Patches(c), ~OtherUpdate(c)
  PROVE  Brings(controller.update.values, call[c].seq, Past, controller.variables, engine.variables)
<1> DEFINE values == controller.update.values
           seq == call[c].seq
           then == Assign(engine.variables, values)
<1>1. /\ evaluation.sequence \in Nat /\ controller.variables \in Mapping /\ engine.variables \in Mapping
      /\ values \in Patch /\ Past \in SUBSET Mapping
  BY PastIs DEF BindingsInv
<1>2. seq = evaluation.sequence + 1 /\ controller.update.seq = seq
  BY DEF Patches, OtherUpdate
<1>3. Of(values, seq, Past, controller.variables)
  BY <1>2 DEF BindingsInv, Written
<1>4. /\ Within(engine.variables, seq) /\ NotBehind(controller.variables, engine.variables)
      /\ UpTo(Past, evaluation.sequence, engine.variables)
  BY CallStands DEF Stands
<1>5. \A n \in Names : then[n] = IF n \in DOMAIN values THEN seq ELSE engine.variables[n]
  BY <1>3 DEF Assign, Of
<1> HIDE DEF values, seq, then
<1>6. NotBehind(then, engine.variables)
  BY <1>1, <1>2, <1>4, <1>5 DEF NotBehind, Within, Mapping
<1>7. NotBehind(controller.variables, then)
  BY <1>1, <1>2, <1>3, <1>4, <1>5 DEF NotBehind, Of, Mapping
<1>8. UpTo(Past, seq, then)
  <2> SUFFICES ASSUME NEW v \in Past, NEW n \in Names, v[n] <= seq PROVE then[n] >= v[n]
    BY DEF UpTo
  <2>1. v[n] \in Nat /\ engine.variables[n] \in Nat
    BY <1>1 DEF Mapping
  <2>2. CASE n \in DOMAIN values
    BY <1>1, <1>2, <1>5, <2>1, <2>2
  <2>3. CASE n \notin DOMAIN values
    <3>1. v[n] <= evaluation.sequence
      BY <1>1, <1>2, <1>3, <2>1, <2>3 DEF Of
    <3> QED
      BY <1>4, <1>5, <2>3, <3>1 DEF UpTo
  <2> QED
    BY <2>2, <2>3
<1> QED
  BY <1>6, <1>7, <1>8 DEF Brings, then, values, seq

LEMMA ReadUpdateInv ==
  ASSUME BindingsInv, NEW c \in Calls, ReadUpdate(c) PROVE BindingsInv'
<1> DEFINE k == [call[c] EXCEPT !.pc = "updating"]
           patch == [call |-> c, op |-> "update", values |-> controller.update.values]
           whole == [call |-> c, op |-> "replace", values |-> call[c].wire]
<1>1. /\ call[c].pc = "wired" /\ call' = [call EXCEPT ![c] = k]
      /\ evaluation' = [evaluation EXCEPT !.torn = @ \/ OlderVariables(c, call[c].wire) \/ OtherUpdate(c)]
      /\ UNCHANGED <<controller, writer, engine>>
  BY DEF ReadUpdate, At, Goto
<1>2. /\ k \in CallRecords /\ k.pc = "updating" /\ k.seq = call[c].seq /\ k.seq \in Nat
      /\ k.started = call[c].started /\ k.wire = call[c].wire /\ k.reply.status = "none"
      /\ call[c].wire \in Mapping
  BY <1>1, CallIs DEF CallRecords, Locked
<1>3. controller.variables \in Mapping /\ engine.variables \in Mapping /\ controller.update.values \in Patch
  BY PastIs DEF BindingsInv
<1> HIDE DEF k
<1>4. /\ evaluation' \in Evaluations /\ evaluation'.lock = evaluation.lock
      /\ evaluation'.sequence = evaluation.sequence /\ evaluation'.snapshot = evaluation.snapshot
      /\ evaluation'.torn <=> evaluation.torn \/ OlderVariables(c, call[c].wire) \/ OtherUpdate(c)
  <2>1. OlderVariables(c, call[c].wire) \in BOOLEAN /\ OtherUpdate(c) \in BOOLEAN
    BY DEF OlderVariables, OtherUpdate, Patches
  <2> QED
    BY <1>1, <2>1, CallIs DEF Evaluations
<1>5. ASSUME ~evaluation'.torn
      PROVE  /\ ~evaluation.torn /\ ~OtherUpdate(c)
             /\ Stands(k, Past, controller.variables, engine.variables, Visible)
             /\ NotBehind(call[c].wire, engine.variables) /\ NotBehind(controller.variables, call[c].wire)
             /\ UpTo(Past, k.seq, call[c].wire)
  <2>1. ~evaluation.torn /\ ~OtherUpdate(c) /\ \E n \in Names : call[c].wire[n] >= k.seq
    BY <1>2, <1>4, <1>5 DEF OlderVariables, Mapping
  <2>2. /\ Within(k.started, k.seq) /\ NotBehind(call[c].wire, engine.variables)
        /\ NotBehind(controller.variables, call[c].wire) /\ UpTo(Past, k.seq, call[c].wire)
    BY <1>1, <1>2, <2>1, CallStands DEF Stands, Locked
  <2>3. k.seq <= Visible
    BY <1>2, <2>1, <2>2, ReadIsVisible
  <2>4. Stands(k, Past, controller.variables, engine.variables, Visible)
    BY <1>2, <2>2, <2>3 DEF Stands
  <2> QED
    BY <2>1, <2>2, <2>4
<1>6. CASE Patches(c) /\ wire' = Append(wire, patch)
  <2>1. /\ patch \in Messages /\ patch.call = c /\ patch.op = "update"
        /\ patch.values = controller.update.values
    BY <1>3 DEF Messages, Updates
  <2> HIDE DEF patch
  <2>2. Delivers(patch, k, engine.waiting)
    BY <1>2, <2>1 DEF Delivers, Updates
  <2>3. ~evaluation'.torn => Brings(patch.values, k.seq, Past, controller.variables, engine.variables)
    BY <1>1, <1>2, <1>5, <1>6, <2>1, PatchBrings
  <2> QED
    BY <1>1, <1>2, <1>4, <1>5, <1>6, <2>1, <2>2, <2>3, SilentCalls, CallIs, SentInv DEF Locked
<1>7. CASE wire' = Append(wire, whole)
  <2>1. whole \in Messages /\ whole.call = c /\ whole.op = "replace" /\ whole.values = call[c].wire
    BY <1>2, WholeIsPatch DEF Messages, Updates
  <2> HIDE DEF whole
  <2>2. Delivers(whole, k, engine.waiting)
    BY <1>2, <2>1 DEF Delivers, Updates
  <2>3. ~evaluation'.torn => Brings(whole.values, k.seq, Past, controller.variables, engine.variables)
    BY <1>2, <1>3, <1>5, <2>1, AssignWhole DEF Brings
  <2> QED
    BY <1>1, <1>2, <1>4, <1>5, <1>7, <2>1, <2>2, <2>3, SilentCalls, CallIs, SentInv DEF Locked
<1> QED
  BY <1>6, <1>7 DEF ReadUpdate, Send

\* An accepted snapshot is one that was seen, of no earlier revision than the last.
LEMMA NewerIs ==
  ASSUME BindingsTypeOK, NEW c \in Calls, Replied(c)
  PROVE  LET s == call[c].reply.snapshot
         IN /\ Newer(s) \in SnapshotsSeen /\ Newer(s) \in Snapshots /\ s \in Snapshots
            /\ s \in SnapshotsSeen /\ evaluation.snapshot \in SnapshotsSeen
            /\ evaluation.snapshot.revision <= Newer(s).revision
            /\ s.revision <= Newer(s).revision
<1> DEFINE s == call[c].reply.snapshot
<1>1. s \in SnapshotsSeen /\ evaluation.snapshot \in SnapshotsSeen
  BY SeenAre
<1>2. s \in Snapshots /\ evaluation.snapshot \in Snapshots
  BY <1>1 DEF SnapshotsSeen
<1> HIDE DEF s
<1>3. s.revision \in Nat /\ evaluation.snapshot.revision \in Nat
  BY <1>2 DEF Snapshots
<1>4. /\ Newer(s) \in SnapshotsSeen /\ Newer(s) \in Snapshots
      /\ evaluation.snapshot.revision <= Newer(s).revision /\ s.revision <= Newer(s).revision
  BY <1>1, <1>2, <1>3 DEF Newer
<1> QED
  BY <1>1, <1>2, <1>4 DEF s

\* And it is behind neither, while no synchronisation was torn.
LEMMA NewerIsAhead ==
  ASSUME BindingsInv, ~evaluation.torn, NEW c \in Calls, Replied(c)
  PROVE  LET s == call[c].reply.snapshot
         IN /\ NotBehind(Newer(s).variables, s.variables)
            /\ NotBehind(Newer(s).variables, evaluation.snapshot.variables)
BY NewerIs DEF BindingsInv, Synchronised, Ordered

\* A call as its method leaves it.
Leaving(k, pc, w) == [k EXCEPT !.pc = pc, !.op = "none", !.seq = 0, !.wire = w, !.reply = NoReply]

LEMMA LeavingIs ==
  ASSUME BindingsInv, NEW c \in Calls, NEW pc \in {"syncing", "synced", "failed", "returned"}, NEW w \in Mapping
  PROVE  /\ Leaving(call[c], pc, w) \in CallRecords /\ Leaving(call[c], pc, w).pc = pc
         /\ Leaving(call[c], pc, w).started = call[c].started /\ Leaving(call[c], pc, w).reply.status = "none"
         /\ Leaving(call[c], pc, w).wire = w /\ Leaving(call[c], pc, w).pc \notin Locked
<1>1. call[c] \in CallRecords
  BY CallIs
<1> QED
  BY <1>1 DEF Leaving, CallRecords, NoReply, Locked

LEMMA SyncedInv ==
  ASSUME BindingsAssumption, BindingsInv, NEW c \in Calls, Synced(c) PROVE BindingsInv'
<1> DEFINE snapshot == Newer(call[c].reply.snapshot)
<1>1. /\ call[c].pc = "updating" /\ Replied(c) /\ UNCHANGED <<controller, writer, engine, wire>>
  BY DEF Synced, At
<1>2. snapshot \in SnapshotsSeen /\ snapshot \in Snapshots
  BY <1>1, NewerIs DEF BindingsInv
<1> HIDE DEF snapshot
<1>3. Silent(c) /\ call[c].pc \in Locked
  BY <1>1, SilentCalls DEF Locked
<1>4. call[c].started \in Mapping /\ call[c].wire \in Mapping /\ call[c].seq \in Nat /\ Nothing \in Mapping
  BY CallIs DEF CallRecords, Nothing, Mapping
<1>5. ASSUME call[c].reply.status = "result",
             evaluation' = [evaluation EXCEPT !.lock = NoOne, !.snapshot = snapshot,
                              !.sequence = call[c].seq, !.wire = call[c].wire, !.opened = TRUE],
             call' = Left(c, IF evaluation.opened THEN "synced" ELSE "syncing")
      PROVE  BindingsInv'
  <2> DEFINE pc == IF evaluation.opened THEN "synced" ELSE "syncing"
             k == Leaving(call[c], pc, Nothing)
  <2>0. pc \in {"synced", "syncing"}
    OBVIOUS
  <2>1. call' = [call EXCEPT ![c] = k]
    BY <1>5 DEF Left, Leaving
  <2> HIDE DEF pc
  <2>2. /\ k \in CallRecords /\ k.pc \in {"synced", "syncing"} /\ k.started = call[c].started
        /\ k.reply.status = "none" /\ k.pc \notin Locked
    BY <1>4, <2>0, LeavingIs
  <2> HIDE DEF k
  <2>3. /\ evaluation' \in Evaluations /\ evaluation'.lock = NoOne /\ evaluation'.snapshot = snapshot
        /\ evaluation'.sequence = call[c].seq /\ evaluation'.torn = evaluation.torn
    BY <1>2, <1>4, <1>5, CallIs DEF Evaluations
  <2>4. Locks'
    BY <1>3, <2>1, <2>2, <2>3, LockFreed
  <2>5. ASSUME ~evaluation.torn
        PROVE  /\ Stands(k, Past, controller.variables, engine.variables, Visible)
               /\ evaluation'.sequence <= Visible
               /\ UpTo(Past, evaluation'.sequence, engine.variables)
    <3>1. /\ call[c].seq <= Visible /\ Within(call[c].started, call[c].seq)
          /\ UpTo(Past, call[c].seq, engine.variables)
      BY <1>1, <1>3, <1>5, <2>5, CallStands DEF Stands
    <3>2. NotBehind(engine.variables, call[c].started)
      BY <3>1, CallIs DEF UpTo, Within, NotBehind
    <3> QED
      BY <2>2, <2>3, <3>1, <3>2 DEF Stands, Locked
  <2> QED
    BY <1>1, <1>2, <1>3, <2>1, <2>2, <2>3, <2>4, <2>5, CallIs, QuietInv
<1>6. ASSUME evaluation' = [evaluation EXCEPT !.lock = NoOne, !.snapshot = snapshot], Fail(c)
      PROVE  BindingsInv'
  <2> DEFINE k == Leaving(call[c], "failed", Nothing)
  <2>1. call' = [call EXCEPT ![c] = k]
    BY <1>6 DEF Fail, Left, Leaving
  <2>2. /\ k \in CallRecords /\ k.pc = "failed" /\ k.started = call[c].started
        /\ k.reply.status = "none" /\ k.pc \notin Locked
    BY <1>4, LeavingIs
  <2> HIDE DEF k
  <2>3. /\ evaluation' \in Evaluations /\ evaluation'.lock = NoOne /\ evaluation'.snapshot = snapshot
        /\ evaluation'.sequence = evaluation.sequence /\ evaluation'.torn = evaluation.torn
    BY <1>2, <1>6, CallIs DEF Evaluations
  <2>4. Locks'
    BY <1>3, <2>1, <2>2, <2>3, LockFreed
  <2>5. Stands(k, Past, controller.variables, engine.variables, Visible)
    BY <2>2 DEF Stands
  <2> QED
    BY <1>1, <1>2, <1>3, <2>1, <2>2, <2>3, <2>4, <2>5, CallIs, QuietInv
<1> QED
  BY <1>5, <1>6 DEF Synced, snapshot

LEMMA AskInv ==
  ASSUME BindingsInv, NEW c \in Calls, NEW op \in {"read", "ready"}, Ask(c, op) PROVE BindingsInv'
<1> DEFINE k == [call[c] EXCEPT !.pc = "asking", !.op = op]
           m == [call |-> c, op |-> op, values |-> <<>>]
<1>1. /\ call[c].pc = "synced" /\ call' = [call EXCEPT ![c] = k] /\ wire' = Append(wire, m)
      /\ UNCHANGED <<controller, writer, evaluation, engine>>
  BY DEF Ask, At, Send
<1>2. /\ k \in CallRecords /\ k.pc = "asking" /\ k.started = call[c].started /\ k.reply.status = "none"
  BY <1>1, CallIs DEF CallRecords
<1>3. m \in Messages /\ m.call = c /\ m.op \in {"read", "ready"}
  BY DEF Messages
<1> HIDE DEF k, m
<1>4. Silent(c)
  BY <1>1, SilentCalls
<1>5. Delivers(m, k, engine.waiting) /\ m.op \notin Updates
  BY <1>2, <1>3, <1>4 DEF Delivers, Updates, Silent
<1>6. ASSUME ~evaluation.torn PROVE Stands(k, Past, controller.variables, engine.variables, Visible)
  BY <1>1, <1>2, <1>6, CallStands DEF Stands, Locked
<1> QED
  BY <1>1, <1>2, <1>3, <1>4, <1>5, <1>6, CallIs, SentInv DEF Locked

LEMMA ReturnInv ==
  ASSUME BindingsInv, NEW c \in Calls, Return(c) PROVE BindingsInv'
<1> DEFINE reply == call[c].reply
           snapshot == Newer(reply.snapshot)
<1>1. /\ call[c].pc = "asking" /\ Replied(c) /\ UNCHANGED <<controller, writer, engine, wire>>
  BY DEF Return, At
<1>2. snapshot \in SnapshotsSeen /\ snapshot \in Snapshots /\ reply.snapshot \in Snapshots
  BY <1>1, NewerIs DEF BindingsInv
<1>3. /\ call[c].started \in Mapping /\ snapshot.variables \in Mapping /\ reply.snapshot.variables \in Mapping
      /\ Nothing \in Mapping
  BY <1>2, CallIs DEF CallRecords, Snapshots, Nothing, Mapping
<1>4. ASSUME ~evaluation.torn
      PROVE  /\ NotBehind(reply.snapshot.variables, call[c].started)
             /\ NotBehind(snapshot.variables, call[c].started)
  <2>1. NotBehind(reply.snapshot.variables, call[c].started)
    BY <1>1, <1>4, CallStands DEF Stands, Replied
  <2>2. NotBehind(snapshot.variables, reply.snapshot.variables)
    BY <1>1, <1>4, NewerIsAhead
  <2> QED
    BY <1>3, <2>1, <2>2, NotBehindTransitive
<1> HIDE DEF snapshot, reply
<1>5. \E pc \in {"failed", "returned"}, w \in {Nothing, reply.snapshot.variables, snapshot.variables} :
        /\ call' = [call EXCEPT ![c] = Leaving(call[c], pc, w)]
        /\ pc = "returned" => w \in {reply.snapshot.variables, snapshot.variables}
        /\ evaluation' \in {evaluation, [evaluation EXCEPT !.snapshot = snapshot]}
  <2>1. ASSUME NEW pc, NEW w, call' = [Left(c, pc) EXCEPT ![c].wire = w]
        PROVE  call' = [call EXCEPT ![c] = Leaving(call[c], pc, w)]
    <3>1. Left(c, pc) = [call EXCEPT ![c] = Leaving(call[c], pc, Nothing)]
      BY DEF Left, Leaving
    <3>2. [Leaving(call[c], pc, Nothing) EXCEPT !.wire = w] = Leaving(call[c], pc, w)
      <4>1. call[c] \in CallRecords
        BY CallIs
      <4> QED
        BY <4>1 DEF Leaving, CallRecords
    <3>3. call \in [Calls -> CallRecords]
      BY DEF BindingsInv, BindingsTypeOK
    <3> QED
      BY <2>1, <3>1, <3>2, <3>3
  <2>2. CASE Fail(c) /\ evaluation' = [evaluation EXCEPT !.snapshot = snapshot]
    <3>1. call' = [call EXCEPT ![c] = Leaving(call[c], "failed", Nothing)]
      BY <2>2 DEF Fail, Left, Leaving
    <3> QED
      BY <2>2, <3>1
  <2>3. CASE call' = [Left(c, "returned") EXCEPT ![c].wire = reply.snapshot.variables] /\ UNCHANGED evaluation
    BY <2>1, <2>3
  <2>4. CASE /\ evaluation' = [evaluation EXCEPT !.snapshot = snapshot]
             /\ call' = [Left(c, IF snapshot.pending THEN "failed" ELSE "returned")
                          EXCEPT ![c].wire = snapshot.variables]
    <3>1. PICK pc \in {"failed", "returned"} : call' = [Left(c, pc) EXCEPT ![c].wire = snapshot.variables]
      BY <2>4
    <3> QED
      BY <2>1, <2>4, <3>1
  <2> QED
    BY <2>2, <2>3, <2>4 DEF Return, reply, snapshot
<1>6. PICK pc \in {"failed", "returned"}, w \in {Nothing, reply.snapshot.variables, snapshot.variables} :
        /\ call' = [call EXCEPT ![c] = Leaving(call[c], pc, w)]
        /\ pc = "returned" => w \in {reply.snapshot.variables, snapshot.variables}
        /\ evaluation' \in {evaluation, [evaluation EXCEPT !.snapshot = snapshot]}
  BY <1>5
<1> DEFINE k == Leaving(call[c], pc, w)
<1>7. call' = [call EXCEPT ![c] = k]
  BY <1>6
<1>8. /\ k \in CallRecords /\ k.pc = pc /\ k.wire = w /\ k.started = call[c].started
      /\ k.reply.status = "none" /\ k.pc \notin Locked
  BY <1>3, LeavingIs
<1> HIDE DEF k
<1>9. /\ evaluation' \in Evaluations /\ evaluation'.lock = evaluation.lock
      /\ evaluation'.torn = evaluation.torn /\ evaluation'.sequence = evaluation.sequence
      /\ evaluation'.snapshot \in SnapshotsSeen
  BY <1>2, <1>6, CallIs DEF Evaluations
<1>10. Locks'
  BY <1>1, <1>7, <1>8, <1>9, LockKept DEF Locked
<1>11. ~evaluation.torn => Stands(k, Past, controller.variables, engine.variables, Visible)
  BY <1>4, <1>6, <1>8 DEF Stands
<1> QED
  BY <1>1, <1>7, <1>8, <1>9, <1>10, <1>11, SilentCalls, CallIs, QuietInv

-----------------------------------------------------------------------------
(* The engine *)

\* What a reply changes: the answer of one call, the engine's revision and, for the call
\* that synchronises, its variables.
LEMMA ReplyInv ==
  ASSUME BindingsInv, NEW e, NEW c \in Calls, NEW status \in {"result", "error"}, Reply(e, c, status),
         e \in EngineRecords,
         UNCHANGED <<controller, writer, evaluation>>, wire' \in Seq(Messages), Underway',
         \A i \in DOMAIN wire' : \E j \in DOMAIN wire : wire'[i] = wire[j] /\ wire[j].call # c,
         call[c].pc \in {"updating", "asking"}, e.revision = engine.revision,
         \/ e.variables = engine.variables /\ (call[c].pc = "updating" => status = "error")
         \/ /\ call[c].pc = "updating"
            /\ ~evaluation.torn => /\ NotBehind(e.variables, engine.variables)
                                   /\ NotBehind(controller.variables, e.variables)
                                   /\ UpTo(Past, call[c].seq, e.variables)
  PROVE  BindingsInv'
<1> DEFINE reply == [status |-> status, snapshot |-> Snapshot(e)]
           k == [call[c] EXCEPT !.reply = reply]
<1>1. Snapshot(e) \in Snapshots /\ Snapshot(e).variables = e.variables /\ Snapshot(e).revision = e.revision + 1
  BY DEF Snapshot, Snapshots, EngineRecords
<1>2. /\ reply \in [status : {"result", "error"}, snapshot : Snapshots]
      /\ reply.status = status /\ reply.snapshot = Snapshot(e)
  BY <1>1
<1>3. /\ engine' \in EngineRecords /\ engine'.variables = e.variables /\ engine'.revision = engine.revision + 1
      /\ call' = [call EXCEPT ![c] = k]
  BY DEF Reply, EngineRecords
<1> HIDE DEF reply
<1>4. /\ k \in CallRecords /\ k.pc = call[c].pc /\ k.started = call[c].started
      /\ k.seq = call[c].seq /\ k.wire = call[c].wire /\ k.reply = reply
  BY <1>2, CallIs DEF CallRecords
<1> HIDE DEF k
<1>5. call \in [Calls -> CallRecords]
  BY DEF BindingsInv, BindingsTypeOK
<1>6. /\ call' \in [Calls -> CallRecords] /\ call'[c] = k /\ \A d \in Calls \ {c} : call'[d] = call[d]
  BY <1>3, <1>4, <1>5
<1>7. BindingsTypeOK'
  BY <1>3, <1>6 DEF BindingsInv, BindingsTypeOK
<1>8. Locks'
  BY <1>4, <1>6 DEF BindingsInv, Locks
<1>9. Past' = Past /\ Visible' = Visible
  BY <1>4, <1>6 DEF Past, Visible
<1>10. Written'
  BY <1>9 DEF BindingsInv, Written
<1>11. engine.variables \in Mapping /\ e.variables \in Mapping /\ engine.revision \in Nat
       /\ evaluation.sequence \in Nat /\ Past \in SUBSET Mapping
  BY PastIs DEF BindingsInv, BindingsTypeOK, EngineRecords
<1>12. ASSUME ~evaluation.torn PROVE Synchronised'
  <2>1. NotBehind(e.variables, engine.variables) /\ NotBehind(controller.variables, e.variables)
    BY <1>11, <1>12, CallStands, NotBehindItself
  <2>2. UpTo(Past, evaluation.sequence, e.variables)
    BY <1>11, <1>12, <2>1, CallStands DEF UpTo, NotBehind, Mapping
  <2>3. Follows'
    BY <1>3, <1>9, <1>12, <2>1, <2>2, CallStands DEF Follows
  <2>4. ASSUME NEW d \in Calls \ {c}
        PROVE  Stands(call[d], Past, controller.variables, e.variables, Visible)
    <3>1. Stands(call[d], Past, controller.variables, engine.variables, Visible)
      BY <1>12, CallStands
    <3>2. CASE e.variables = engine.variables
      BY <3>1, <3>2
    <3>3. CASE call[c].pc = "updating"
      <4>1. call[d].pc \notin Locked
        BY <3>3 DEF BindingsInv, Locks, Locked
      <4>2. call[d].started \in Mapping
        BY <1>5 DEF CallRecords
      <4>3. call[d].pc \in {"synced", "asking"} => NotBehind(e.variables, call[d].started)
        BY <1>11, <2>1, <3>1, <4>2, NotBehindTransitive DEF Stands
      <4> QED
        BY <3>1, <4>1, <4>3 DEF Stands, Locked
    <3> QED
      BY <3>2, <3>3
  <2>5. Stands(k, Past, controller.variables, e.variables, Visible)
    <3>1. Stands(call[c], Past, controller.variables, engine.variables, Visible)
      BY <1>12, CallStands
    <3>2. CASE call[c].pc = "updating"
      <4>1. status = "result" => UpTo(Past, call[c].seq, e.variables)
        BY <1>12, <3>2
      <4> QED
        BY <1>2, <1>4, <3>1, <3>2, <4>1 DEF Stands
    <3>3. CASE call[c].pc = "asking"
      <4>1. e.variables = engine.variables /\ NotBehind(engine.variables, call[c].started)
        BY <3>1, <3>3 DEF Stands
      <4> QED
        BY <1>1, <1>2, <1>4, <3>3, <4>1 DEF Stands, Locked
    <3> QED
      BY <3>2, <3>3
  <2>6. CallsStand'
    BY <1>3, <1>6, <1>9, <2>4, <2>5 DEF CallsStand
  <2>7. MessagesBring'
    <3> SUFFICES ASSUME NEW i \in DOMAIN wire', wire'[i].op \in Updates
                 PROVE  Brings(wire'[i].values, call'[wire'[i].call].seq, Past, controller.variables, e.variables)
      BY <1>3, <1>9 DEF MessagesBring
    <3>1. PICK j \in DOMAIN wire : wire'[i] = wire[j] /\ wire[j].call # c
      OBVIOUS
    <3>2. wire[j].call \in Calls
      BY DEF BindingsInv, BindingsTypeOK, Messages
    <3>3. call[wire[j].call].pc = "updating"
      BY <3>1 DEF BindingsInv, Underway, Delivers
    <3>4. call[c].pc # "updating"
      BY <3>1, <3>2, <3>3 DEF BindingsInv, Locks, Locked
    <3>5. e.variables = engine.variables
      BY <3>4
    <3>6. Brings(wire[j].values, call[wire[j].call].seq, Past, controller.variables, engine.variables)
      BY <1>12, <3>1 DEF BindingsInv, Synchronised, MessagesBring
    <3> QED
      BY <1>6, <3>1, <3>2, <3>5, <3>6
  <2>8. Ordered'
    <3>1. SnapshotsSeen' \subseteq SnapshotsSeen \cup {Snapshot(e)}
      BY <1>2, <1>4, <1>6 DEF SnapshotsSeen, Replied
    <3> QED
      BY <1>1, <1>3, <1>12, <2>1, <3>1, OrderExtended DEF BindingsInv, Synchronised
  <2> QED
    BY <2>3, <2>6, <2>7, <2>8 DEF Synchronised
<1> QED
  BY <1>7, <1>8, <1>10, <1>12 DEF BindingsInv

\* A step of the engine that answers nobody and changes no variable.
LEMMA EngineStepInv ==
  ASSUME BindingsInv, UNCHANGED <<controller, writer, evaluation, call>>,
         engine' \in EngineRecords, engine'.variables = engine.variables, engine'.revision = engine.revision,
         wire' \in Seq(Messages), Underway', \A i \in DOMAIN wire' : \E j \in DOMAIN wire : wire'[i] = wire[j]
  PROVE  BindingsInv'
<1>1. Past' = Past /\ Visible' = Visible
  BY DEF Past, Visible
<1>2. BindingsTypeOK' /\ Locks' /\ Written'
  BY <1>1 DEF BindingsInv, BindingsTypeOK, Locks, Written
<1>3. ASSUME Synchronised PROVE Synchronised'
  <2>1. Follows' /\ CallsStand'
    BY <1>1, <1>3 DEF Synchronised, Follows, CallsStand
  <2>2. MessagesBring'
    BY <1>1, <1>3 DEF Synchronised, MessagesBring
  <2>3. Ordered'
    BY <1>3 DEF Synchronised, Ordered, SnapshotsSeen, Replied
  <2> QED
    BY <2>1, <2>2, <2>3 DEF Synchronised
<1> QED
  BY <1>2, <1>3 DEF BindingsInv

\* The request at the head of the wire is its call's only one.
LEMMA HeadIs ==
  ASSUME BindingsInv, wire # <<>>
  PROVE  LET m == Head(wire)
         IN /\ m \in Messages /\ m.call \in Calls
            /\ Delivers(m, call[m.call], engine.waiting)
            /\ Tail(wire) \in Seq(Messages)
            /\ \A i \in DOMAIN Tail(wire) : /\ Tail(wire)[i] = wire[i + 1] /\ i + 1 \in DOMAIN wire
                                            /\ Tail(wire)[i].call # m.call /\ Tail(wire)[i].call \in Calls
<1>1. wire \in Seq(Messages)
  BY DEF BindingsInv, BindingsTypeOK
<1>2. Head(wire) = wire[1] /\ 1 \in DOMAIN wire /\ wire[1] \in Messages
  BY <1>1
<1>3. Tail(wire) \in Seq(Messages)
  BY <1>1
<1>4. ASSUME NEW i \in DOMAIN Tail(wire)
      PROVE  /\ Tail(wire)[i] = wire[i + 1] /\ i + 1 \in DOMAIN wire /\ i + 1 # 1
             /\ Tail(wire)[i] \in Messages
  <2>1. Len(Tail(wire)) = Len(wire) - 1 /\ Len(wire) \in Nat /\ i \in 1..Len(Tail(wire))
    BY <1>1, <1>3
  <2> QED
    BY <1>1, <1>3, <2>1
<1>5. \A n \in Messages : n.call \in Calls
  BY DEF Messages
<1>6. \A i \in DOMAIN Tail(wire) : Tail(wire)[i].call # Head(wire).call
  BY <1>2, <1>4 DEF BindingsInv, Underway
<1> QED
  BY <1>2, <1>3, <1>4, <1>5, <1>6 DEF BindingsInv, Underway

\* What the head's request does leaves the others under way.
LEMMA UnderwayTaken ==
  ASSUME BindingsInv, wire # <<>>, wire' = Tail(wire),
         \A d \in Calls \ {Head(wire).call} : call'[d] = call[d],
         \A d \in Calls \ {Head(wire).call} : d \in engine'.waiting <=> d \in engine.waiting,
         engine'.waiting \subseteq Calls,
         Head(wire).call \in engine'.waiting =>
           call'[Head(wire).call].pc = "asking" /\ call'[Head(wire).call].reply.status = "none"
  PROVE  /\ Underway'
         /\ \A i \in DOMAIN wire' : \E j \in DOMAIN wire : wire'[i] = wire[j] /\ wire[j].call # Head(wire).call
<1> DEFINE m == Head(wire)
<1>1. /\ m.call \in Calls /\ Delivers(m, call[m.call], engine.waiting)
      /\ wire' \in Seq(Messages)
      /\ \A i \in DOMAIN wire' : /\ wire'[i] = wire[i + 1] /\ i + 1 \in DOMAIN wire
                                 /\ wire'[i].call # m.call /\ wire'[i].call \in Calls
  BY HeadIs
<1> HIDE DEF m
<1>2. ASSUME NEW i \in DOMAIN wire'
      PROVE  Delivers(wire'[i], call'[wire'[i].call], engine'.waiting)
  <2> DEFINE d == wire'[i].call
  <2>1. d \in Calls /\ d # m.call /\ call'[d] = call[d] /\ (d \in engine'.waiting <=> d \in engine.waiting)
    BY <1>1 DEF m
  <2>2. Delivers(wire'[i], call[d], engine.waiting)
    BY <1>1 DEF BindingsInv, Underway
  <2> QED
    BY <2>1, <2>2 DEF Delivers
<1>3. \A i, j \in DOMAIN wire' : wire'[i].call = wire'[j].call => i = j
  <2> SUFFICES ASSUME NEW i \in DOMAIN wire', NEW j \in DOMAIN wire', wire'[i].call = wire'[j].call
               PROVE  i = j
    OBVIOUS
  <2>1. i + 1 = j + 1
    BY <1>1 DEF BindingsInv, Underway
  <2>2. i \in Int /\ j \in Int
    BY <1>1
  <2> QED
    BY <2>1, <2>2
<1>4. \A d \in engine'.waiting : call'[d].pc = "asking" /\ call'[d].reply.status = "none"
  BY <1>1 DEF BindingsInv, Underway, m
<1>5. \A i \in DOMAIN wire' : \E j \in DOMAIN wire : wire'[i] = wire[j] /\ wire[j].call # m.call
  BY <1>1
<1> QED
  BY <1>2, <1>3, <1>4, <1>5 DEF Underway, m

LEMMA ExecuteInv ==
  ASSUME BindingsInv, Execute PROVE BindingsInv'
<1> DEFINE m == Head(wire)
           c == m.call
<1>1. /\ wire # <<>> /\ wire' = Tail(wire) /\ wire' \in Seq(Messages) /\ m \in Messages /\ c \in Calls
      /\ Delivers(m, call[c], engine.waiting)
      /\ UNCHANGED <<controller, writer, evaluation>>
  BY HeadIs DEF Execute
<1>2. engine \in EngineRecords /\ engine.waiting \subseteq Calls /\ engine.variables \in Mapping
  BY DEF BindingsInv, BindingsTypeOK, EngineRecords
<1>3. ASSUME m.op \in Updates
      PROVE  call[c].pc = "updating" /\ c \notin engine.waiting /\ m.values \in Patch
  BY <1>1, <1>3 DEF Delivers, BindingsInv, Underway, Messages, Updates
<1>4. CASE m.op \in Updates /\ Reply(Applied(m.values), c, "result")
  <2> DEFINE e == Applied(m.values)
             then == Assign(engine.variables, m.values)
  <2>1. then \in Mapping
    BY <1>2, <1>3, <1>4, AssignIsMapping
  <2>2. ~evaluation.torn => /\ NotBehind(then, engine.variables)
                            /\ NotBehind(controller.variables, then)
                            /\ UpTo(Past, call[c].seq, then)
    <3>1. wire \in Seq(Messages) /\ 1 \in DOMAIN wire /\ wire[1] = m
      BY <1>1 DEF BindingsInv, BindingsTypeOK
    <3> QED
      BY <1>4, <3>1 DEF BindingsInv, Synchronised, MessagesBring, Brings
  <2> HIDE DEF then
  <2>3. /\ e \in EngineRecords /\ e.variables = then /\ e.revision = engine.revision
        /\ e.waiting = engine.waiting
    <3>1. e = [engine EXCEPT !.variables = then, !.pending = TRUE,
                             !.broken = {d \in engine.waiting : call[d].op = "read"}]
      BY <1>2 DEF Applied, EngineRecords, then
    <3>2. {d \in engine.waiting : call[d].op = "read"} \in SUBSET Calls
      BY <1>2
    <3> HIDE DEF e
    <3> QED
      BY <1>2, <2>1, <3>1, <3>2 DEF EngineRecords
  <2>4. Reply(e, c, "result")
    BY <1>4
  <2> HIDE DEF e, m
  <2>5. /\ \A d \in Calls \ {c} : call'[d] = call[d]
        /\ engine'.waiting = engine.waiting
    BY <1>1, <2>3, <2>4 DEF Reply, EngineRecords, BindingsInv, BindingsTypeOK
  <2>6. /\ Underway'
        /\ \A i \in DOMAIN wire' : \E j \in DOMAIN wire : wire'[i] = wire[j] /\ wire[j].call # c
    BY <1>1, <1>2, <1>3, <1>4, <2>5, UnderwayTaken DEF m
  <2> QED
    BY <1>1, <1>3, <1>4, <2>2, <2>3, <2>4, <2>6, ReplyInv
<1>5. CASE m.op \in Updates /\ Reply([engine EXCEPT !.failures = @ + 1], c, "error")
  <2> DEFINE e == [engine EXCEPT !.failures = @ + 1]
  <2>1. /\ e \in EngineRecords /\ e.variables = engine.variables /\ e.revision = engine.revision
        /\ e.waiting = engine.waiting
    BY <1>2 DEF EngineRecords
  <2>2. Reply(e, c, "error")
    BY <1>5
  <2> HIDE DEF e, m
  <2>3. /\ \A d \in Calls \ {c} : call'[d] = call[d]
        /\ engine'.waiting = engine.waiting
    BY <1>1, <2>1, <2>2 DEF Reply, EngineRecords, BindingsInv, BindingsTypeOK
  <2>4. /\ Underway'
        /\ \A i \in DOMAIN wire' : \E j \in DOMAIN wire : wire'[i] = wire[j] /\ wire[j].call # c
    BY <1>1, <1>2, <1>3, <1>5, <2>3, UnderwayTaken DEF m
  <2> QED
    BY <1>1, <1>3, <1>5, <2>1, <2>2, <2>4, ReplyInv
<1>6. CASE m.op \in {"read", "ready"} /\ engine' = [engine EXCEPT !.waiting = @ \cup {c}] /\ UNCHANGED call
  <2>1. call[c].pc = "asking" /\ call[c].reply.status = "none"
    BY <1>1, <1>6 DEF Delivers, Updates
  <2>2. /\ engine' \in EngineRecords /\ engine'.variables = engine.variables
        /\ engine'.waiting = engine.waiting \cup {c} /\ engine'.revision = engine.revision
    BY <1>1, <1>2, <1>6 DEF EngineRecords
  <2> HIDE DEF m
  <2>3. /\ Underway'
        /\ \A i \in DOMAIN wire' : \E j \in DOMAIN wire : wire'[i] = wire[j] /\ wire[j].call # c
    BY <1>1, <1>2, <1>6, <2>1, <2>2, UnderwayTaken DEF m
  <2> QED
    BY <1>1, <1>6, <2>2, <2>3, EngineStepInv
<1> QED
  BY <1>4, <1>5, <1>6 DEF Execute, Updates

LEMMA EvaluateInv ==
  ASSUME BindingsInv, Evaluate PROVE BindingsInv'
<1>1. /\ engine' = [engine EXCEPT !.pending = FALSE] /\ engine \in EngineRecords
      /\ UNCHANGED <<controller, writer, evaluation, call, wire>>
  BY DEF Evaluate, BindingsInv, BindingsTypeOK
<1>2. /\ engine' \in EngineRecords /\ engine'.variables = engine.variables
      /\ engine'.waiting = engine.waiting /\ engine'.revision = engine.revision
  BY <1>1 DEF EngineRecords
<1>3. wire' \in Seq(Messages) /\ Underway'
  BY <1>1, <1>2 DEF BindingsInv, BindingsTypeOK, Underway
<1>4. \A i \in DOMAIN wire' : \E j \in DOMAIN wire : wire'[i] = wire[j]
  BY <1>1
<1> QED
  BY <1>1, <1>2, <1>3, <1>4, EngineStepInv

LEMMA AnswerInv ==
  ASSUME BindingsInv, NEW c \in Calls, Answer(c) PROVE BindingsInv'
<1> DEFINE e == [engine EXCEPT !.waiting = @ \ {c}, !.broken = @ \ {c}]
<1>1. /\ c \in engine.waiting /\ UNCHANGED <<controller, writer, evaluation, wire>>
      /\ \E status \in {"result", "error"} : Reply(e, c, status)
  BY DEF Answer
<1>2. engine \in EngineRecords /\ wire \in Seq(Messages)
  BY DEF BindingsInv, BindingsTypeOK
<1>3. /\ e \in EngineRecords /\ e.variables = engine.variables /\ e.revision = engine.revision
      /\ e.waiting = engine.waiting \ {c}
  BY <1>2 DEF EngineRecords
<1>4. PICK status \in {"result", "error"} : Reply(e, c, status)
  BY <1>1
<1> HIDE DEF e
<1>5. call[c].pc = "asking" /\ call[c].reply.status = "none"
  BY <1>1 DEF BindingsInv, Underway
<1>6. /\ \A d \in Calls \ {c} : call'[d] = call[d]
      /\ engine'.waiting = engine.waiting \ {c}
  BY <1>3, <1>4 DEF Reply, EngineRecords, BindingsInv, BindingsTypeOK
<1>7. \A i \in DOMAIN wire : wire[i].call \in Calls /\ wire[i].call # c
  BY <1>1, <1>2, <1>5 DEF BindingsInv, Underway, Delivers, Messages
<1>8. Underway'
  <2>1. engine.waiting \subseteq Calls
    BY <1>2 DEF EngineRecords
  <2> QED
    BY <1>1, <1>6, <1>7, <2>1 DEF BindingsInv, Underway, Delivers
<1>9. \A i \in DOMAIN wire' : \E j \in DOMAIN wire : wire'[i] = wire[j] /\ wire[j].call # c
  BY <1>1, <1>7
<1> QED
  BY <1>1, <1>2, <1>3, <1>4, <1>5, <1>8, <1>9, ReplyInv

-----------------------------------------------------------------------------
(* Every step, and what follows *)

LEMMA BindingsStepInv ==
  ASSUME BindingsAssumption, BindingsInv, [BindingsNext]_bindingsVars PROVE BindingsInv'
<1>1. ASSUME NEW names \in SUBSET Names, Write("set", names) PROVE BindingsInv'
  BY <1>1, WriteInv
<1>2. CASE Write("replace", Names)
  BY <1>2, WriteInv
<1>3. ASSUME NEW c \in Calls, NEW op \in {"read", "ready"}, Ask(c, op) PROVE BindingsInv'
  BY <1>3, AskInv
<1>4. CASE UNCHANGED bindingsVars
  <2>1. Past' = Past /\ Visible' = Visible
    BY <1>4 DEF bindingsVars, Past, Visible
  <2>2. BindingsTypeOK' /\ Written'
    BY <1>4, <2>1 DEF bindingsVars, BindingsInv, BindingsTypeOK, Written
  <2>3. Synchronised => Synchronised'
    BY <1>4, <2>1, StillCalls DEF bindingsVars, Synchronised, Follows, CallsStand, MessagesBring
  <2> QED
    BY <1>4, <2>2, <2>3, StillCalls DEF bindingsVars, BindingsInv
<1>5. ASSUME NEW c \in Calls,
             \/ Begin(c) \/ ReadSequence(c) \/ OpenEngine(c) \/ ReadWire(c) \/ ReadUpdate(c) \/ Synced(c)
             \/ Return(c) \/ Answer(c)
      PROVE  BindingsInv'
  BY <1>5, BeginInv, ReadSequenceInv, OpenEngineInv, ReadWireInv, ReadUpdateInv, SyncedInv, ReturnInv,
     AnswerInv
<1> QED
  BY <1>1, <1>2, <1>3, <1>4, <1>5, WriteVariablesInv, WriteUpdateInv, ExecuteInv, EvaluateInv DEF BindingsNext

LEMMA BindingsHold ==
  ASSUME BindingsAssumption PROVE BindingsSpec => []BindingsInv
<1>1. BindingsInit => BindingsInv
  BY BindingsInitInv
<1>2. BindingsInv /\ [BindingsNext]_bindingsVars => BindingsInv'
  BY BindingsStepInv
<1> QED
  BY <1>1, <1>2, PTL DEF BindingsSpec

\* No call returns bindings older than those it was made with, until a synchronisation
\* takes what does not belong together: wherever writes fall between what calls read,
\* however calls interleave and whatever updates are refused (_execution.py:162-180).
THEOREM ReturnsCurrent ==
  ASSUME BindingsAssumption PROVE BindingsSpec => []ReturnsCurrentUntilTorn
<1>1. BindingsInv => ReturnsCurrentUntilTorn
  BY CallStands DEF ReturnsCurrentUntilTorn, ReturnsCurrentBindings, At, Stands
<1> QED
  BY <1>1, BindingsHold, PTL

\* A synchronisation that finds nothing new has nothing to bring: the sequence and the
\* mapping that Python remembers stand for what the engine has (_execution.py:168-180).
THEOREM SkipsSafe ==
  ASSUME BindingsAssumption PROVE BindingsSpec => []SkipsAreSafe
<1>1. ASSUME BindingsInv, ~evaluation.torn, controller.seq = evaluation.sequence
      PROVE  NotBehind(engine.variables, controller.variables)
  <2>1. /\ controller.variables \in Past /\ controller.variables \in Mapping /\ controller.seq \in Nat
        /\ Visible \in Int /\ Visible <= controller.seq
    BY <1>1, PastIs DEF BindingsInv
  <2>2. UpTo(Past, controller.seq, engine.variables)
    BY <1>1, CallStands
  <2>3. \A n \in Names : controller.variables[n] <= controller.seq
    BY <1>1, <2>1 DEF BindingsInv, Written, Mapping
  <2> QED
    BY <2>1, <2>2, <2>3 DEF UpTo, NotBehind
<1>2. BindingsInv => SkipsAreSafe
  BY <1>1 DEF SkipsAreSafe
<1> QED
  BY <1>2, BindingsHold, PTL

\* The evaluation's snapshot never goes back to an earlier revision; nor do the variables
\* it was computed from, until a synchronisation takes what does not belong together
\* (_execution.py:356-392).
THEOREM SnapshotsRise ==
  ASSUME BindingsAssumption PROVE BindingsSpec => SnapshotsAdvance
<1>1. ASSUME BindingsInv, [BindingsNext]_bindingsVars PROVE [Advances]_bindingsVars
  <2>0. BindingsTypeOK /\ evaluation \in Evaluations
    BY <1>1 DEF BindingsInv, BindingsTypeOK
  <2>1. /\ evaluation.snapshot.revision \in Nat /\ evaluation.snapshot.variables \in Mapping
    BY <2>0 DEF Evaluations, Snapshots
  <2>2. CASE evaluation'.snapshot = evaluation.snapshot
    BY <2>1, <2>2, NotBehindItself DEF Advances
  <2>3. ASSUME NEW c \in Calls, Replied(c), evaluation'.snapshot = Newer(call[c].reply.snapshot),
               evaluation'.torn = evaluation.torn
        PROVE  Advances
    BY <1>1, <2>0, <2>3, NewerIs, NewerIsAhead DEF Advances
  <2>4. ASSUME NEW c \in Calls, Synced(c)
        PROVE  /\ Replied(c) /\ evaluation'.snapshot = Newer(call[c].reply.snapshot)
               /\ evaluation'.torn = evaluation.torn
    BY <2>0, <2>4 DEF Synced, Evaluations
  <2>5. ASSUME NEW c \in Calls, Return(c)
        PROVE  /\ Replied(c) /\ evaluation'.snapshot \in {evaluation.snapshot, Newer(call[c].reply.snapshot)}
               /\ evaluation'.torn = evaluation.torn
    BY <2>0, <2>5 DEF Return, Evaluations
  <2>6. ASSUME NEW c \in Calls, ReadSequence(c) \/ OpenEngine(c) \/ ReadWire(c) \/ ReadUpdate(c)
        PROVE  evaluation'.snapshot = evaluation.snapshot
    BY <2>0, <2>6 DEF ReadSequence, OpenEngine, ReadWire, ReadUpdate, Evaluations
  <2> QED
    BY <1>1, <2>2, <2>3, <2>4, <2>5, <2>6
       DEF BindingsNext, bindingsVars, Write, WriteVariables, WriteUpdate, Begin, Ask, Answer, Execute, Evaluate
<1> QED
  BY <1>1, BindingsHold, PTL DEF BindingsSpec, SnapshotsAdvance
=============================================================================
