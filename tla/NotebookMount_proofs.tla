-------------------------- MODULE NotebookMount_proofs --------------------------
(***************************************************************************)
(* Proofs about NotebookMount, for every notebook, selection and bound.    *)
(***************************************************************************)
EXTENDS NotebookMount, CellRuntime_proofs

-----------------------------------------------------------------------------
(* The invariant *)

MountTyped ==
  /\ active \in BOOLEAN
  /\ cs \in CellStates
  /\ phase \in Phases
  /\ detached \in SUBSET Cells
  /\ control \in [Views -> {"none", "live", "dead"}]
  /\ awaited \in [Views -> SUBSET {"write", "yield"}]

\* The variable of a view follows its display; a control yields only while its
\* display is not known to have failed.
Follows(p, d, w, owned) ==
  /\ \A ch \in Drawn : p[ch] # "unobserved"
  /\ "yield" \in w => d = "live" /\ ~owned
  /\ d = "live" => p["display"] \in {"success", "dirty", "running"}
  /\ ~owned => p["variable"] \in {"dirty", "running", p["display"]}

ViewsFollow == \A v \in Views : Follows(phase[v], control[v], awaited[v], v \in detached)

Live == Fit(es) /\ es.attempt > 0 /\ BrokenUnobserved /\ CellsAgree /\ ViewsFollow

Idle ==
  /\ es = InitialState \/ (es \in State /\ es.closed)
  /\ phase = Unrun
  /\ awaited = [v \in Views |-> {}]

Inv == MountTyped /\ (active => Live) /\ (~active => Idle)

LEMMA InitInv == Init => Inv
  <1> SUFFICES ASSUME Init
               PROVE  Inv
    OBVIOUS
  <1>1. Unconfigured \in [expected : SUBSET Channels,
                          statuses : [Channels -> {"absent", "pending"} \cup Terminal],
                          errors : SUBSET Channels]
    BY DEF Unconfigured
  <1>2. cs \in CellStates
    BY <1>1 DEF Init, CellStates
  <1>3. phase \in Phases
    BY DEF Init, Unrun, Phases, Marks, Drawn
  <1>4. MountTyped
    BY <1>2, <1>3 DEF Init, MountTyped
  <1>5. QED
    BY <1>4 DEF Init, Inv, Idle

LEMMA ReevaluatedFacts ==
  ASSUME Inv, active, NEW roots
  PROVE  /\ \A c \in Cells, ch \in Drawn :
              <<c, ch>> \in Reevaluated(roots) => phase[c][ch] # "unobserved"
         /\ \A v \in Views \ detached :
              <<v, "display">> \in Reevaluated(roots) => <<v, "variable">> \in Reevaluated(roots)
  <1>1. ViewsFollow
    BY DEF Inv, Live
  <1>2. \A v \in Views \ detached : phase[v]["variable"] # "unobserved"
    BY <1>1 DEF ViewsFollow, Follows, Drawn
  <1>3. QED
    BY <1>2 DEF Reevaluated

-----------------------------------------------------------------------------
(* Steps that mark variables dirty *)

Dirties ==
  \A c \in Cells, ch \in Drawn :
     \/ phase'[c][ch] = phase[c][ch]
     \/ phase'[c][ch] = "dirty" /\ phase[c][ch] # "unobserved"

LEMMA DirtyInv ==
  ASSUME Inv, active, active', MountTyped', cs' = cs, Dirties, ViewsFollow',
         Fit(es'), es'.attempt = es.attempt, KeepsResults(es, es')
  PROVE  Inv'
  <1>1. phase' \in Phases
    BY DEF MountTyped
  <1>2. BrokenUnobserved' /\ CellsAgree'
    BY <1>1, DirtyAgrees DEF Dirties, Evaluating, Inv, Live, MountTyped
  <1>3. Live'
    BY <1>2 DEF Live, Inv
  <1>4. QED
    BY <1>3 DEF Inv

LEMMA FailLive ==
  ASSUME Fit(es), es' = Fail(es, es.attempt)
  PROVE  Fit(es') /\ es'.attempt = es.attempt /\ KeepsResults(es, es')
  <1>1. /\ es \in State /\ IsCurrent(es, es.attempt) /\ Recorded(es)
        /\ es.inputRevision >= NoRevision
    BY DEF Fit, Coherent, Recorded, IsCurrent
  <1>2. /\ es' \in State /\ es'.attempt = es.attempt /\ es'.closed = es.closed
        /\ NoTerminalResult(es')
    BY <1>1, FailFacts
  <1>3. Coherent(es') /\ Certain(es') /\ es'.selected = es.selected
    BY <1>1, FailCoherent
  <1>4. QED
    BY <1>2, <1>3 DEF Fit, NoTerminalResult, KeepsResults

LEMMA UpdateVariableInv ==
  ASSUME Inv, NEW roots \in InputRoots, UpdateVariable(roots)
  PROVE  Inv'
  <1>1. /\ active /\ active' /\ BeginAffected(roots) /\ Mark(Reevaluated(roots), "dirty")
        /\ cs' = cs /\ detached' = detached /\ control' = control /\ awaited' = awaited
    BY DEF UpdateVariable, Change
  <1>2. MountTyped /\ Live
    BY <1>1 DEF Inv
  <1>3. /\ Fit(es') /\ es'.attempt = es.attempt /\ KeepsResults(es, es')
    BY <1>1, <1>2, BeginAffectedFacts DEF Live
  <1>4. /\ phase' \in Phases
        /\ \A c \in Cells, ch \in Drawn :
             phase'[c][ch] = IF <<c, ch>> \in Reevaluated(roots) THEN "dirty" ELSE phase[c][ch]
    BY <1>1, <1>2, MarkFacts DEF Marks, MountTyped
  <1>5. MountTyped'
    BY <1>1, <1>2, <1>4 DEF MountTyped
  <1>6. Dirties
    BY <1>1, <1>4, ReevaluatedFacts DEF Dirties
  <1>7. ASSUME NEW v \in Views
        PROVE  Follows(phase'[v], control[v], awaited[v], v \in detached)
    <2>1. Follows(phase[v], control[v], awaited[v], v \in detached) /\ v \in Cells
      BY <1>2, NotebookAssumption DEF Live, ViewsFollow
    <2>2. v \notin detached /\ <<v, "display">> \in Reevaluated(roots) =>
            <<v, "variable">> \in Reevaluated(roots)
      BY <1>1, ReevaluatedFacts
    <2>3. \A ch \in Drawn : phase'[v][ch] = IF <<v, ch>> \in Reevaluated(roots) THEN "dirty"
                                           ELSE phase[v][ch]
      BY <1>4, <2>1
    <2>4. QED
      BY <2>1, <2>2, <2>3 DEF Follows, Drawn
  <1>8. ViewsFollow'
    BY <1>1, <1>7 DEF ViewsFollow
  <1>9. QED
    BY <1>1, <1>3, <1>5, <1>6, <1>8, DirtyInv

LEMMA TakeNameInv ==
  ASSUME Inv, NEW c \in Ownable, TakeName(c)
  PROVE  Inv'
  <1> DEFINE V == ({c} \X {ch \in {"display", "variable"} : phase[c][ch] # "unobserved"})
                     \cup Reevaluated(Dependents(c))
  <1>1. /\ active /\ active' /\ BeginAffected({c}) /\ Mark(V, "dirty")
        /\ cs' = cs /\ detached' = detached \cup {c} /\ control' = control /\ awaited' = awaited
    BY DEF TakeName, Change
  <1>2. MountTyped /\ Live
    BY <1>1 DEF Inv
  <1>3. c \in Cells /\ c \notin Views
    BY NotebookAssumption, MountAssumption
  <1>4. /\ Fit(es') /\ es'.attempt = es.attempt /\ KeepsResults(es, es')
    BY <1>1, <1>2, BeginAffectedFacts DEF Live
  <1>5. \A d \in Cells, ch \in Drawn : <<d, ch>> \in V =>
          phase[d][ch] # "unobserved" /\ (d # c => <<d, ch>> \in Reevaluated(Dependents(c)))
    BY <1>1, ReevaluatedFacts
  <1>6. \A d \in Cells, ch \in Drawn : <<d, ch>> \in Reevaluated(Dependents(c)) => <<d, ch>> \in V
    OBVIOUS
  <1> HIDE DEF V
  <1>7. /\ phase' \in Phases
        /\ \A d \in Cells, ch \in Drawn :
             phase'[d][ch] = IF <<d, ch>> \in V THEN "dirty" ELSE phase[d][ch]
    BY <1>1, <1>2, MarkFacts DEF Marks, MountTyped
  <1>8. MountTyped'
    BY <1>1, <1>2, <1>3, <1>7 DEF MountTyped
  <1>9. Dirties
    BY <1>5, <1>7 DEF Dirties
  <1>10. ASSUME NEW v \in Views
         PROVE  Follows(phase'[v], control[v], awaited[v], v \in detached')
    <2>1. Follows(phase[v], control[v], awaited[v], v \in detached) /\ v \in Cells /\ v # c
      BY <1>2, <1>3, NotebookAssumption DEF Live, ViewsFollow
    <2>2. v \notin detached /\ <<v, "display">> \in V => <<v, "variable">> \in V
      BY <1>1, <1>5, <1>6, <2>1, ReevaluatedFacts DEF Drawn
    <2>3. \A ch \in Drawn : phase'[v][ch] = IF <<v, ch>> \in V THEN "dirty" ELSE phase[v][ch]
      BY <1>7, <2>1
    <2>4. v \in detached' <=> v \in detached
      BY <1>1, <2>1
    <2>5. QED
      BY <2>1, <2>2, <2>3, <2>4 DEF Follows, Drawn
  <1>11. ViewsFollow'
    BY <1>1, <1>10 DEF ViewsFollow
  <1>12. QED
    BY <1>1, <1>4, <1>8, <1>9, <1>11, DirtyInv

LEMMA UpdateViewInv ==
  ASSUME Inv, NEW v \in Views, UpdateView(v) \/ Interact(v)
  PROVE  Inv'
  <1>1. /\ active /\ active' /\ BeginAffected({v})
        /\ cs' = cs /\ detached' = detached /\ control' = control /\ phase' = phase
    BY DEF UpdateView, Interact, Change
  <1>2. MountTyped /\ Live
    BY <1>1 DEF Inv
  <1>3. /\ Fit(es') /\ es'.attempt = es.attempt /\ KeepsResults(es, es')
    BY <1>1, <1>2, BeginAffectedFacts DEF Live
  <1>4. /\ awaited' \in [Views -> SUBSET {"write", "yield"}]
        /\ \A w \in Views : "yield" \in awaited'[w] =>
             "yield" \in awaited[w] \/ (control[w] = "live" /\ w \notin detached)
    BY <1>2 DEF MountTyped, UpdateView, Interact
  <1>5. MountTyped' /\ Dirties
    BY <1>1, <1>2, <1>4 DEF MountTyped, Dirties
  <1>6. ViewsFollow'
    BY <1>1, <1>2, <1>4 DEF Live, ViewsFollow, Follows
  <1>7. QED
    BY <1>1, <1>3, <1>5, <1>6, DirtyInv

\* What is awaited, or has a variable, is part of a live mount.
LEMMA AwaitedLive ==
  ASSUME Inv, NEW v \in Views, awaited[v] # {}
  PROVE  active
  BY DEF Inv, Idle

LEMMA ObservedLive ==
  ASSUME Inv, NEW c \in Cells, NEW ch \in Drawn, phase[c][ch] # "unobserved"
  PROVE  active
  BY DEF Inv, Idle, Unrun, Drawn

LEMMA WriteInv ==
  ASSUME Inv, NEW v \in Views, WriteApplied(v) \/ WriteOverridden(v)
  PROVE  Inv'
  <1> DEFINE V == {<<v, "variable">>} \cup Reevaluated(Dependents(v))
             Redefines == v \in detached \/ WriteOverridden(v)
  <1>1. /\ active /\ active' = active /\ es' = es /\ cs' = cs /\ control' = control
        /\ "write" \in awaited[v]
    BY AwaitedLive DEF WriteApplied, WriteOverridden
  <1>2. MountTyped /\ Live /\ v \in Cells
    BY <1>1, NotebookAssumption DEF Inv
  <1>3. ASSUME NEW w \in Views
        PROVE  Follows(phase[w], control[w], awaited[w], w \in detached) /\ w \in Cells
    BY <1>2, NotebookAssumption DEF Live, ViewsFollow
  <1>4. \A c \in Cells, ch \in Drawn : <<c, ch>> \in V => phase[c][ch] # "unobserved"
    BY <1>1, <1>3, ReevaluatedFacts DEF Follows, Drawn
  <1>5. \A w \in Views : w \notin detached /\ <<w, "display">> \in V => <<w, "variable">> \in V
    BY <1>1, ReevaluatedFacts
  <1>6. <<v, "variable">> \in V
    OBVIOUS
  <1>7. CASE Redefines
    <2>1. /\ Mark(V, "dirty")
          /\ detached' \in SUBSET Cells
          /\ \A w \in Views \ {v} : (w \in detached' <=> w \in detached) /\ awaited'[w] = awaited[w]
          /\ awaited' \in [Views -> SUBSET {"write", "yield"}]
          /\ "yield" \notin awaited'[v]
      <3>1. CASE WriteOverridden(v)
        BY <1>2, <3>1 DEF WriteOverridden, MountTyped
      <3>2. CASE WriteApplied(v) /\ v \in detached
        <4>1. "yield" \notin awaited[v]
          BY <1>3, <3>2 DEF Follows
        <4>2. QED
          BY <1>2, <3>2, <4>1 DEF WriteApplied, MountTyped
      <3>3. QED
        BY <1>7, <3>1, <3>2
    <2> HIDE DEF V, Redefines
    <2>2. /\ phase' \in Phases
          /\ \A c \in Cells, ch \in Drawn :
               phase'[c][ch] = IF <<c, ch>> \in V THEN "dirty" ELSE phase[c][ch]
      BY <1>2, <2>1, MarkFacts DEF Marks, MountTyped
    <2>3. MountTyped' /\ Dirties
      BY <1>1, <1>2, <1>4, <2>1, <2>2 DEF MountTyped, Dirties
    <2>4. ASSUME NEW w \in Views
          PROVE  Follows(phase'[w], control[w], awaited'[w], w \in detached')
      <3>1. \A ch \in Drawn : phase'[w][ch] = IF <<w, ch>> \in V THEN "dirty" ELSE phase[w][ch]
        BY <1>3, <2>2
      <3>2. CASE w = v
        BY <1>3, <1>6, <2>1, <3>1, <3>2 DEF Follows, Drawn
      <3>3. CASE w # v
        BY <1>3, <1>5, <2>1, <3>1, <3>3 DEF Follows, Drawn
      <3>4. QED
        BY <3>2, <3>3
    <2>5. ViewsFollow'
      BY <1>1, <2>4 DEF ViewsFollow
    <2>6. Fit(es') /\ es'.attempt = es.attempt /\ KeepsResults(es, es')
      BY <1>1, <1>2, SameResults DEF Live
    <2>7. QED
      BY <1>1, <2>3, <2>5, <2>6, DirtyInv
  <1>8. CASE ~Redefines
    <2>1. /\ phase' = phase /\ detached' = detached /\ v \notin detached
          /\ awaited' = [awaited EXCEPT ![v] = (@ \ {"write"}) \cup
                           (IF control[v] = "live" THEN {"yield"} ELSE {})]
      BY <1>8 DEF WriteApplied
    <2>2. /\ awaited' \in [Views -> SUBSET {"write", "yield"}]
          /\ \A w \in Views : "yield" \in awaited'[w] =>
               "yield" \in awaited[w] \/ (control[w] = "live" /\ w \notin detached)
      BY <1>2, <2>1 DEF MountTyped
    <2>3. MountTyped' /\ Dirties
      BY <1>1, <1>2, <2>1, <2>2 DEF MountTyped, Dirties
    <2>4. ViewsFollow'
      BY <1>1, <1>3, <2>1, <2>2 DEF ViewsFollow, Follows
    <2>5. Fit(es') /\ es'.attempt = es.attempt /\ KeepsResults(es, es')
      BY <1>1, <1>2, SameResults DEF Live
    <2>6. QED
      BY <1>1, <2>3, <2>4, <2>5, DirtyInv
  <1>9. QED
    BY <1>7, <1>8

LEMMA WriteFailedInv ==
  ASSUME Inv, NEW v \in Views, WriteFailed(v)
  PROVE  Inv'
  <1>1. /\ active /\ active' = active /\ es' = Fail(es, es.attempt)
        /\ cs' = cs /\ phase' = phase /\ detached' = detached /\ control' = control
        /\ awaited' = [awaited EXCEPT ![v] = @ \ {"write"}]
    BY AwaitedLive DEF WriteFailed
  <1>2. MountTyped /\ Live
    BY <1>1 DEF Inv
  <1>3. /\ awaited' \in [Views -> SUBSET {"write", "yield"}]
        /\ \A w \in Views : "yield" \in awaited'[w] => "yield" \in awaited[w]
    BY <1>1, <1>2 DEF MountTyped
  <1>4. MountTyped' /\ Dirties
    BY <1>1, <1>2, <1>3 DEF MountTyped, Dirties
  <1>5. ViewsFollow'
    BY <1>1, <1>2, <1>3 DEF Live, ViewsFollow, Follows
  <1>6. Fit(es') /\ es'.attempt = es.attempt /\ KeepsResults(es, es')
    BY <1>1, <1>2, FailLive DEF Live
  <1>7. QED
    BY <1>1, <1>4, <1>5, <1>6, DirtyInv

-----------------------------------------------------------------------------
(* Steps that announce or deliver *)

\* Outside the cell c, the phases of a view change as those of a dependent do.
LEMMA FollowsDirty ==
  ASSUME Inv, active, NEW v \in Views, NEW V,
         v \notin detached /\ <<v, "display">> \in V => <<v, "variable">> \in V,
         \A ch \in Drawn : <<v, ch>> \in V => phase[v][ch] # "unobserved",
         \A ch \in Drawn :
            phase'[v][ch] = IF <<v, ch>> \in V THEN "dirty" ELSE phase[v][ch]
  PROVE  \A w \in SUBSET awaited[v] : Follows(phase'[v], control[v], w, v \in detached)
  <1>1. Follows(phase[v], control[v], awaited[v], v \in detached)
    BY DEF Inv, Live, ViewsFollow
  <1>2. QED
    BY <1>1 DEF Follows, Drawn

LEMMA ComputeNowInv ==
  ASSUME Inv, ComputeNow
  PROVE  Inv'
  <1>1. /\ active' = active /\ detached' = detached /\ control' = control /\ awaited' = awaited
        /\ Frame /\ AnnounceAll /\ Variables("dirty") # {}
    BY DEF ComputeNow, Frame
  <1>2. active
    <2>1. PICK c \in Cells, ch \in Drawn : phase[c][ch] = "dirty"
      BY <1>1 DEF Variables, Drawn
    <2>2. QED
      BY <2>1, ObservedLive
  <1>3. MountTyped /\ Live /\ Evaluating
    BY <1>2 DEF Inv, Live, MountTyped, Evaluating
  <1>4. /\ Evaluating' /\ es'.attempt = es.attempt
        /\ \A c \in Cells, ch \in Drawn :
             phase'[c][ch] = IF phase[c][ch] = "dirty" THEN "running" ELSE phase[c][ch]
    BY <1>1, <1>3, AnnouncedAgrees
  <1>5. MountTyped'
    BY <1>1, <1>3, <1>4 DEF MountTyped, Evaluating
  <1>6. ASSUME NEW v \in Views
        PROVE  Follows(phase'[v], control[v], awaited[v], v \in detached)
    <2>1. Follows(phase[v], control[v], awaited[v], v \in detached) /\ v \in Cells
      BY <1>3, NotebookAssumption DEF Live, ViewsFollow
    <2>2. \A ch \in Drawn : phase'[v][ch] = IF phase[v][ch] = "dirty" THEN "running" ELSE phase[v][ch]
      BY <1>4, <2>1
    <2>3. QED
      BY <2>1, <2>2 DEF Follows, Drawn
  <1>7. ViewsFollow'
    BY <1>1, <1>6 DEF ViewsFollow
  <1>8. QED
    BY <1>1, <1>2, <1>3, <1>4, <1>5, <1>7 DEF Inv, Live, Evaluating

LEMMA FinishInv ==
  ASSUME Inv, NEW c \in Cells, NEW ch \in {"display", "variable"}, NEW outcome \in Terminal,
         Finish(c, ch, outcome)
  PROVE  Inv'
  <1>1. /\ active' = active /\ detached' = detached
        /\ phase[c][ch] = "running" /\ Mark({<<c, ch>>}, outcome) /\ Delivered(c, ch, outcome)
        /\ c \in Views \ detached /\ ch = "variable" => outcome = phase[c]["display"]
        /\ ch \in Drawn
    BY DEF Finish, Evaluated, Drawn
  <1>2. active
    BY <1>1, ObservedLive
  <1>3. MountTyped /\ Live
    BY <1>2 DEF Inv
  <1>4. /\ phase' \in Phases
        /\ \A d \in Cells, h \in Drawn :
             phase'[d][h] = IF d = c /\ h = ch THEN outcome ELSE phase[d][h]
    <2>1. MarkedAs(c, ch, outcome)
      BY <1>1 DEF MarkedAs
    <2>2. phase \in Phases
      BY <1>3 DEF MountTyped
    <2>3. QED
      BY <1>1, <2>1, <2>2, MarkedOne
  <1>5. /\ Fit(es') /\ es'.attempt = es.attempt /\ cs' \in CellStates
        /\ BrokenUnobserved' /\ CellsAgree'
    BY <1>1, <1>3, <1>4, DeliveredAgrees DEF Evaluating, Live, MountTyped
  <1>6. /\ control' \in [Views -> {"none", "live", "dead"}]
        /\ awaited' \in [Views -> SUBSET {"write", "yield"}]
        /\ \A v \in Views : v # c \/ ch # "display" =>
             control'[v] = control[v] /\ awaited'[v] = awaited[v]
        /\ c \in Views /\ ch = "display" =>
             /\ "yield" \notin awaited'[c]
             /\ control'[c] = "live" => outcome = "success"
    <2>1. CASE ~(c \in Views /\ ch = "display")
      BY <1>3, <2>1 DEF Finish, MountTyped
    <2>2. CASE c \in Views /\ ch = "display" /\ outcome = "success"
      BY <1>3, <2>2 DEF Finish, MountTyped
    <2>3. CASE c \in Views /\ ch = "display" /\ outcome # "success"
      BY <1>3, <2>3 DEF Finish, MountTyped
    <2>4. QED
      BY <2>1, <2>2, <2>3
  <1>7. MountTyped'
    BY <1>1, <1>3, <1>4, <1>5, <1>6 DEF MountTyped
  <1>8. ASSUME NEW v \in Views
        PROVE  Follows(phase'[v], control'[v], awaited'[v], v \in detached)
    <2>1. Follows(phase[v], control[v], awaited[v], v \in detached) /\ v \in Cells
      BY <1>3, NotebookAssumption DEF Live, ViewsFollow
    <2>2. \A h \in Drawn : phase'[v][h] = IF v = c /\ h = ch THEN outcome ELSE phase[v][h]
      BY <1>4, <2>1
    <2>3. outcome # "unobserved"
      BY DEF Terminal
    <2>4. CASE v # c
      <3>1. \A h \in Drawn : phase'[v][h] = phase[v][h]
        BY <2>2, <2>4
      <3>2. control'[v] = control[v] /\ awaited'[v] = awaited[v]
        BY <1>6, <2>4
      <3>3. QED
        BY <2>1, <3>1, <3>2 DEF Follows, Drawn
    <2>5. CASE v = c /\ ch = "display"
      BY <1>1, <1>6, <2>1, <2>2, <2>3, <2>5 DEF Follows, Drawn
    <2>6. CASE v = c /\ ch = "variable"
      <3>1. /\ phase'[v]["variable"] = outcome /\ phase'[v]["display"] = phase[v]["display"]
            /\ control'[v] = control[v] /\ awaited'[v] = awaited[v]
            /\ v \notin detached => outcome = phase[v]["display"]
        BY <1>1, <1>6, <2>2, <2>6 DEF Drawn
      <3>2. QED
        BY <2>1, <2>3, <3>1 DEF Follows, Drawn
    <2>7. QED
      BY <2>4, <2>5, <2>6
  <1>9. ViewsFollow'
    BY <1>1, <1>8 DEF ViewsFollow
  <1>10. QED
    BY <1>1, <1>2, <1>3, <1>5, <1>7, <1>9 DEF Inv, Live

\* A later value of the cell reaches its variable, and its dependents become dirty.
LEMMA YieldInv ==
  ASSUME Inv, NEW c \in Cells, active, phase[c]["variable"] = "success",
         Delivered(c, "variable", "success"), Mark(Reevaluated(Dependents(c)), "dirty"),
         UNCHANGED <<active, detached, control>>,
         awaited' \in [Views -> SUBSET {"write", "yield"}],
         \A v \in Views : awaited'[v] \subseteq awaited[v]
  PROVE  Inv'
  <1> DEFINE V == Reevaluated(Dependents(c))
  <1>1. MountTyped /\ Live
    BY DEF Inv
  <1>2. /\ \A d \in Cells, ch \in Drawn : <<d, ch>> \in V => phase[d][ch] # "unobserved"
        /\ \A v \in Views \ detached : <<v, "display">> \in V => <<v, "variable">> \in V
    BY ReevaluatedFacts
  <1> HIDE DEF V
  <1>3. /\ phase' \in Phases
        /\ \A d \in Cells, ch \in Drawn :
             phase'[d][ch] = IF <<d, ch>> \in V THEN "dirty" ELSE phase[d][ch]
    BY <1>1, MarkFacts DEF V, Marks, MountTyped
  <1>4. /\ Fit(es') /\ es'.attempt = es.attempt /\ cs' \in CellStates
        /\ BrokenUnobserved' /\ CellsAgree'
    <2>1. "variable" \in Drawn /\ "success" \in Terminal
      BY DEF Drawn, Terminal
    <2>2. phase[c]["variable"] # "unobserved" /\ phase'[c]["variable"] \in {"success", "dirty"}
      BY <1>3, <2>1
    <2>3. \A d \in Cells, h \in Drawn : <<d, h>> # <<c, "variable">> =>
             \/ phase'[d][h] = phase[d][h]
             \/ phase'[d][h] = "dirty" /\ phase[d][h] # "unobserved"
      BY <1>2, <1>3
    <2>4. QED
      BY <1>1, <1>3, <2>1, <2>2, <2>3, DeliveredAgrees DEF Evaluating, Live, MountTyped
  <1>5. MountTyped'
    BY <1>1, <1>3, <1>4 DEF MountTyped
  <1>6. ASSUME NEW v \in Views
        PROVE  Follows(phase'[v], control[v], awaited'[v], v \in detached)
    <2>1. v \in Cells
      BY NotebookAssumption
    <2>2. /\ v \notin detached /\ <<v, "display">> \in V => <<v, "variable">> \in V
          /\ \A ch \in Drawn : <<v, ch>> \in V => phase[v][ch] # "unobserved"
          /\ \A ch \in Drawn :
               phase'[v][ch] = IF <<v, ch>> \in V THEN "dirty" ELSE phase[v][ch]
      BY <1>2, <1>3, <2>1
    <2>3. awaited'[v] \in SUBSET awaited[v]
      OBVIOUS
    <2>4. QED
      BY <2>2, <2>3, FollowsDirty
  <1>7. ViewsFollow'
    BY <1>6 DEF ViewsFollow
  <1>8. QED
    BY <1>1, <1>4, <1>5, <1>7 DEF Inv, Live

LEMMA YieldControlInv ==
  ASSUME Inv, NEW v \in Views, YieldControl(v)
  PROVE  Inv'
  <1>1. /\ "yield" \in awaited[v] /\ ~Busy(v)
        /\ awaited' = [awaited EXCEPT ![v] = @ \ {"yield"}]
        /\ Mark(Reevaluated(Dependents(v)), "dirty")
        /\ Delivered(v, "variable", "success")
        /\ active' = active /\ detached' = detached /\ control' = control
    BY DEF YieldControl, Yields
  <1>2. active
    BY <1>1, AwaitedLive
  <1>3. MountTyped /\ v \in Cells /\ Follows(phase[v], control[v], awaited[v], v \in detached)
    BY <1>2, NotebookAssumption DEF Inv, Live, ViewsFollow
  <1>4. phase[v]["variable"] = "success"
    BY <1>1, <1>3 DEF Follows, Busy, Drawn
  <1>5. /\ awaited' \in [Views -> SUBSET {"write", "yield"}]
        /\ \A w \in Views : awaited'[w] \subseteq awaited[w]
    BY <1>1, <1>3 DEF MountTyped
  <1>6. QED
    BY <1>1, <1>2, <1>3, <1>4, <1>5, YieldInv

LEMMA YieldGeneratorInv ==
  ASSUME Inv, NEW c \in Generators, YieldGenerator(c)
  PROVE  Inv'
  <1>1. /\ active /\ phase[c]["variable"] = "success"
        /\ Mark(Reevaluated(Dependents(c)), "dirty")
        /\ Delivered(c, "variable", "success")
        /\ active' = active /\ detached' = detached /\ control' = control /\ awaited' = awaited
    BY DEF YieldGenerator, Change
  <1>2. c \in Cells
    BY NotebookAssumption
  <1>3. /\ awaited' \in [Views -> SUBSET {"write", "yield"}]
        /\ \A w \in Views : awaited'[w] \subseteq awaited[w]
    BY <1>1 DEF MountTyped, Inv
  <1>4. QED
    BY <1>1, <1>2, <1>3, YieldInv

-----------------------------------------------------------------------------
(* Renders *)

\* A render of a state without results makes a live mount.
LEMMA RenderInv ==
  ASSUME Inv, NEW s \in State, ~s.closed, Coherent(s), NoTerminalResult(s), ~s.errors,
         NEW owned \in SUBSET Ownable, NEW written, Render(s, owned, written)
  PROVE  Inv'
  <1> DEFINE m == Rendered(s, owned)
  <1>1. /\ es' = m.es /\ cs' = m.cs /\ active' /\ active' \in BOOLEAN /\ detached' = owned
        /\ phase' = Shown(owned)
        /\ control' = [v \in Views |-> "none"] /\ awaited' = [v \in Views |-> {}]
    BY DEF Render, Shown, Drawn
  <1>2. Evaluating' /\ es'.attempt = s.attempt + 1 /\ es'.attempt > 0
    <2>1. /\ Fit(m.es) /\ m.es.attempt = s.attempt + 1 /\ m.cs \in CellStates
          /\ Shown(owned) \in Phases
          /\ \A c \in Broken, ch \in Drawn : Shown(owned)[c][ch] = "unobserved"
          /\ \A c \in Selected : Agrees(c, m.cs[c], Shown(owned)[c], m.es.results[c])
      BY RenderedAgrees
    <2> HIDE DEF m
    <2>2. s.attempt + 1 > 0
      BY DEF State
    <2>3. QED
      BY <1>1, <2>1, <2>2 DEF Evaluating, BrokenUnobserved, CellsAgree
  <1> HIDE DEF m
  <1>3. owned \subseteq Cells
    BY NotebookAssumption
  <1>4. MountTyped'
    BY <1>1, <1>2, <1>3 DEF MountTyped, Evaluating
  <1>5. ASSUME NEW v \in Views, NEW ch \in Drawn
        PROVE  phase'[v][ch] = "dirty"
    <2>1. v \in Cells \ Broken /\ v \in Exposing /\ v \notin owned
      BY NotebookAssumption, MountAssumption
    <2>2. ch \in Observed(v, owned)
      BY <2>1, ObservedFacts DEF Drawn
    <2>3. QED
      BY <1>1, <2>1, <2>2 DEF Shown
  <1>6. ViewsFollow'
    BY <1>1, <1>5 DEF ViewsFollow, Follows, Drawn
  <1>7. QED
    BY <1>1, <1>2, <1>4, <1>6 DEF Inv, Live, Evaluating

\* A mount renders the state as it was created, a replacement one that is invalidated.
LEMMA RendersAfresh ==
  ASSUME Inv, NEW owned, NEW written, Mount(owned, written) \/ Replace(owned, written)
  PROVE  \E s \in State : /\ ~s.closed /\ Coherent(s) /\ NoTerminalResult(s) /\ ~s.errors
                          /\ Render(s, owned, written)
  <1>1. CASE Mount(owned, written)
    <2>1. es.attempt = 0 /\ ~es.closed /\ Render(es, owned, written)
      BY <1>1 DEF Mount
    <2>2. es = InitialState
      BY <2>1 DEF Inv, Live, Idle
    <2>3. /\ es \in State /\ Coherent(es) /\ NoTerminalResult(es) /\ ~es.errors
      BY <2>2, NoRevisionIsInt DEF InitialState, State, Result, NoResult, Coherent, Recorded,
         NoTerminalResult, Terminal, NoRevision
    <2>4. QED
      BY <2>1, <2>3
  <1>2. CASE Replace(owned, written)
    <2> DEFINE t == Invalidate(es)
    <2>1. active /\ Render(t, owned, written)
      BY <1>2 DEF Replace, Change
    <2>2. es \in State /\ ~es.closed /\ Coherent(es)
      BY <2>1 DEF Inv, Live, Fit
    <2>3. t \in State /\ NoTerminalResult(t)
      BY <2>2, InvalidateFacts DEF Coherent, Recorded, NoTerminalResult, NoResult, Terminal
    <2>4. Coherent(t) /\ ~t.closed
      BY <2>2, InvalidateCoherent
    <2>5. ~t.errors
      BY <2>2 DEF Invalidate, OpenRevision, State
    <2> HIDE DEF t
    <2>6. QED
      BY <2>1, <2>3, <2>4, <2>5
  <1>3. QED
    BY <1>1, <1>2

-----------------------------------------------------------------------------
(* Microtasks and disposal *)

LEMMA MicrotaskInv ==
  ASSUME Inv, Microtask
  PROVE  Inv'
  <1> DEFINE t == RunSettlement(es)
  <1>1. /\ es.settlement # NoRevision /\ es' = t
        /\ UNCHANGED <<cs, active, phase, detached, control, awaited>>
    BY DEF Microtask
  <1>2. CASE active
    <2>1. es \in State /\ ~es.closed /\ Coherent(es) /\ Certain(es) /\ es.selected = Selected
      BY <1>2 DEF Inv, Live, Fit
    <2>2. t \in State /\ t.attempt = es.attempt /\ t.closed = es.closed /\ t.results = es.results
      BY <2>1, RunSettlementFacts
    <2>3. Coherent(t) /\ Certain(t) /\ t.selected = es.selected
      BY <2>1, RunSettlementCoherent
    <2> HIDE DEF t
    <2>4. Fit(es')
      BY <1>1, <2>1, <2>2, <2>3 DEF Fit
    <2>5. MountTyped'
      BY <1>1 DEF Inv, MountTyped
    <2>6. BrokenUnobserved' /\ CellsAgree' /\ ViewsFollow'
      BY <1>1, <1>2, <2>2 DEF Inv, Live, BrokenUnobserved, CellsAgree, ViewsFollow
    <2>7. QED
      BY <1>1, <1>2, <2>2, <2>4, <2>5, <2>6 DEF Inv, Live
  <1>3. CASE ~active
    <2>1. es \in State /\ es.closed /\ phase = Unrun /\ awaited = [v \in Views |-> {}]
      BY <1>1, <1>3 DEF Inv, Idle, InitialState
    <2>2. t \in State /\ t.closed = es.closed
      BY <2>1, RunSettlementFacts
    <2> HIDE DEF t
    <2>3. MountTyped'
      BY <1>1 DEF Inv, MountTyped
    <2>4. Idle'
      BY <1>1, <2>1, <2>2 DEF Idle
    <2>5. QED
      BY <1>1, <1>3, <2>3, <2>4 DEF Inv
  <1>4. QED
    BY <1>2, <1>3

LEMMA DisposeInv ==
  ASSUME Inv, Dispose
  PROVE  Inv'
  <1> DEFINE t == Close(es)
  <1>1. /\ active /\ es' = t /\ ~active' /\ active' = FALSE /\ phase' = Unrun
        /\ awaited' = [v \in Views |-> {}] /\ UNCHANGED <<cs, detached, control>>
    BY DEF Dispose
  <1>2. t \in State /\ t.closed
    BY <1>1, CloseFacts DEF Inv, Live, Fit
  <1> HIDE DEF t
  <1>3. phase' \in Phases
    BY <1>1 DEF Unrun, Phases, Marks, Drawn
  <1>4. MountTyped'
    BY <1>1, <1>3 DEF Inv, MountTyped
  <1>5. QED
    BY <1>1, <1>2, <1>4 DEF Inv, Idle

-----------------------------------------------------------------------------
(* Every step *)

LEMMA StepInv == Inv /\ [Next]_vars => Inv'
  <1> SUFFICES ASSUME Inv, [Next]_vars
               PROVE  Inv'
    OBVIOUS
  <1>1. ASSUME NEW owned \in SUBSET Ownable, NEW written \in SUBSET Views,
               Mount(owned, written) \/ Replace(owned, written)
        PROVE  Inv'
    BY <1>1, RendersAfresh, RenderInv
  <1>2. ASSUME NEW roots \in InputRoots, UpdateVariable(roots)
        PROVE  Inv'
    BY <1>2, UpdateVariableInv
  <1>3. ASSUME NEW c \in Ownable, TakeName(c)
        PROVE  Inv'
    BY <1>3, TakeNameInv
  <1>4. ASSUME NEW v \in Views,
               UpdateView(v) \/ Interact(v) \/ WriteApplied(v) \/ YieldControl(v)
                 \/ WriteOverridden(v) \/ WriteFailed(v)
        PROVE  Inv'
    BY <1>4, UpdateViewInv, WriteInv, WriteFailedInv, YieldControlInv
  <1>5. CASE ComputeNow
    BY <1>5, ComputeNowInv
  <1>6. ASSUME NEW c \in Cells, NEW ch \in {"display", "variable"}, NEW outcome \in Terminal,
               Finish(c, ch, outcome)
        PROVE  Inv'
    BY <1>6, FinishInv
  <1>7. ASSUME NEW c \in Generators, YieldGenerator(c)
        PROVE  Inv'
    BY <1>7, YieldGeneratorInv
  <1>8. CASE Microtask
    BY <1>8, MicrotaskInv
  <1>9. CASE Dispose
    BY <1>9, DisposeInv
  <1>10. CASE UNCHANGED vars
    BY <1>10 DEF vars, Inv, MountTyped, Live, BrokenUnobserved, CellsAgree, ViewsFollow, Idle
  <1>11. QED
    BY <1>1, <1>2, <1>3, <1>4, <1>5, <1>6, <1>7, <1>8, <1>9, <1>10
       DEF Next, Expected, Unexpected

\* A mount's cell states, results, variables and controls tell one story at all times.
THEOREM InvHolds == Spec => []Inv
  BY InitInv, StepInv, PTL DEF Spec

\* Once nothing is left to evaluate, the error that a cell shows is the error of
\* one of its channels, or its permanent failure.
THEOREM ResultsMatch == Spec => []ResultsMatchOutcomes
  <1>1. Inv => ResultsMatchOutcomes
    <2> SUFFICES ASSUME Inv, active, \A c \in Cells : ~Working(c),
                        NEW c \in Selected, es.results[c].status \in Terminal
                 PROVE  es.results[c].status = "error"
                          <=> \/ c \in Failing
                              \/ \E ch \in Drawn : phase[c][ch] = "error"
      BY DEF ResultsMatchOutcomes, Failing, Drawn
    <2>1. c \in Cells /\ Channels = Drawn \cup {"failure"}
      BY NotebookAssumption DEF Drawn
    <2>2. \A ch \in Drawn : phase[c][ch] \in {"unobserved"} \cup Terminal
      <3>1. c \in Reaches(c)
        BY <2>1 DEF Reaches, Reached
      <3>2. ~Busy(c)
        BY <2>1, <3>1 DEF Working
      <3>3. QED
        BY <2>1, <3>2 DEF Busy, Inv, MountTyped, Phases, Marks, Drawn
    <2>3. Agrees(c, cs[c], phase[c], es.results[c])
      BY DEF Inv, Live, CellsAgree
    <2>4. \A ch \in Drawn : cs[c].statuses[ch] = "error" <=> phase[c][ch] = "error"
      BY <2>2, <2>3 DEF Agrees, Terminal
    <2>5. cs[c].statuses["failure"] = "error" <=> c \in Failing
      BY <2>1, <2>3 DEF Agrees
    <2>6. cs[c].errors # {} <=>
            c \in Failing \/ \E ch \in Drawn : phase[c][ch] = "error"
      BY <2>1, <2>3, <2>4, <2>5 DEF Agrees
    <2>7. QED
      BY <2>3, <2>6 DEF Agrees
  <1>2. QED
    BY <1>1, InvHolds, PTL

-----------------------------------------------------------------------------
(* What leads to what in the graph *)

LEMMA ReachedHasUpstream ==
  ASSUME NEW roots \in SUBSET Cells, NEW through
  PROVE  \A d \in Reached(roots, through) : d \in roots \/ Upstream[d] # {}
  <1> DEFINE closed == {d \in Cells : d \in roots \/ Upstream[d] # {}}
  <1>1. Reached(roots, through) \subseteq closed
    <2>1. closed \in SUBSET Cells /\ roots \subseteq closed
      OBVIOUS
    <2>2. \A e \in closed \cap through, d \in Cells : e \in Upstream[d] => d \in closed
      OBVIOUS
    <2> HIDE DEF closed
    <2>3. QED
      BY <2>1, <2>2, ReachedLeast
  <1>2. QED
    BY <1>1

LEMMA ReachedFromOne ==
  ASSUME NEW roots \in SUBSET Cells, NEW c \in Reached(roots, Cells)
  PROVE  \E r \in roots : c \in Reached({r}, Cells)
  <1> DEFINE closed == {d \in Cells : \E r \in roots : d \in Reached({r}, Cells)}
  <1>1. \A r \in roots : {r} \in SUBSET Cells
    OBVIOUS
  <1>2. closed \in SUBSET Cells /\ roots \subseteq closed
    BY <1>1, ReachedClosed
  <1>3. \A e \in closed \cap Cells, d \in Cells : e \in Upstream[d] => d \in closed
    BY <1>1, ReachedClosed
  <1>4. Reached(roots, Cells) \subseteq closed
    <2> HIDE DEF closed
    <2>1. QED
      BY <1>2, <1>3, ReachedLeast
  <1>5. QED
    BY <1>4

\* What a cell reaches is the cell and what its dependents reach.
LEMMA ReachedByDependents ==
  ASSUME NEW c \in Cells
  PROVE  Reached({c}, Cells) \subseteq {c} \cup Reached(Dependents(c), Cells)
  <1> DEFINE closed == {c} \cup Reached(Dependents(c), Cells)
  <1>1. /\ Dependents(c) \in SUBSET Cells /\ Dependents(c) \subseteq Reached(Dependents(c), Cells)
        /\ Reached(Dependents(c), Cells) \subseteq Cells
        /\ \A e \in Reached(Dependents(c), Cells) \cap Cells, d \in Cells :
             e \in Upstream[d] => d \in Reached(Dependents(c), Cells)
    <2>1. Dependents(c) \in SUBSET Cells
      BY DEF Dependents
    <2>2. QED
      BY <2>1, ReachedClosed
  <1>2. closed \in SUBSET Cells /\ {c} \subseteq closed
    BY <1>1
  <1>3. \A e \in closed \cap Cells, d \in Cells : e \in Upstream[d] => d \in closed
    BY <1>1 DEF Dependents
  <1> HIDE DEF closed
  <1>4. Reached({c}, Cells) \subseteq closed
    BY <1>2, <1>3, ReachedLeast
  <1>5. QED
    BY <1>4 DEF closed

\* A host takes only names of cells that neither cells nor its other names feed.
Plain ==
  \A c \in Ownable : Upstream[c] = {} /\ \A roots \in InputRoots : c \notin roots

\* If no constant is among the roots, constants stop no change.
LEMMA ReachedPastConstants ==
  ASSUME Plain, NEW constants \in SUBSET Ownable, NEW roots \in SUBSET Cells,
         roots \cap Ownable = {}
  PROVE  /\ Reached(roots, Cells) = Reached(roots, Cells \ constants)
         /\ Reached(roots, Cells) \cap constants = {}
  <1> DEFINE passed == Reached(roots, Cells \ constants)
             all == Reached(roots, Cells)
  <1>1. /\ roots \subseteq passed /\ passed \subseteq Cells
        /\ \A e \in passed \cap (Cells \ constants), d \in Cells :
             e \in Upstream[d] => d \in passed
    BY ReachedClosed
  <1>2. /\ roots \subseteq all /\ all \subseteq Cells
        /\ \A e \in all \cap Cells, d \in Cells : e \in Upstream[d] => d \in all
    BY ReachedClosed
  <1>3. \A d \in passed \cup all : d \notin constants
    <2>1. \A d \in passed \cup all : d \in roots \/ Upstream[d] # {}
      BY ReachedHasUpstream
    <2>2. QED
      BY <2>1 DEF Plain
  <1>4. all \subseteq passed
    <2>1. \A e \in passed \cap Cells, d \in Cells : e \in Upstream[d] => d \in passed
      BY <1>1, <1>3
    <2> HIDE DEF passed
    <2>2. QED
      BY <1>1, <2>1, ReachedLeast
  <1>5. passed \subseteq all
    <2>1. \A e \in all \cap (Cells \ constants), d \in Cells : e \in Upstream[d] => d \in all
      BY <1>2
    <2> HIDE DEF all
    <2>2. QED
      BY <1>2, <2>1, ReachedLeast
  <1>6. QED
    BY <1>3, <1>4, <1>5

-----------------------------------------------------------------------------
(* A wave of evaluations *)

\* The hypotheses under which no pending cell is forgotten.
Tame == Plain /\ (Views = {} \/ "view fails" \notin Surprises)

Waits(c) == \E v \in Views : awaited[v] # {} /\ c \in Reached({v}, Cells)

BusyCells == {c \in Cells : Busy(c)}

Observing == \A c \in Cells \ Broken : \E ch \in Drawn : phase[c][ch] # "unobserved"

\* What is to be evaluated takes along what depends on it.
BusyClosed == \A c \in BusyCells : Dependents(c) \subseteq BusyCells

Registered ==
  \A v \in Views : \/ control[v] = "live"
                   \/ control[v] = "none" /\ phase[v]["display"] \in {"dirty", "running"}

PendingWorks == \A c \in es.pending : c \in BusyCells \/ Waits(c)

Unsurprised ==
  Regular(es) /\ detached \subseteq Ownable /\ Observing /\ BusyClosed /\ Registered /\ PendingWorks

Wave == active /\ ~surprised => Unsurprised

\* Roots from which a change may start: none of them is a name that the host takes.
Roots(roots) == roots \in SUBSET (Cells \ Broken) /\ roots \cap Ownable = {}

LEMMA PlainRoots ==
  ASSUME Plain
  PROVE  /\ \A roots \in InputRoots : Roots(roots)
         /\ \A c \in Cells : Roots(Dependents(c))
  BY NotebookAssumption DEF Plain, Roots, Dependents

\* Observable reevaluates whatever the static graph calls affected.
LEMMA ReevaluatedAll ==
  ASSUME Plain, Observing, detached \subseteq Ownable, NEW roots, Roots(roots)
  PROVE  /\ \A c \in Reached(roots, Cells) : \E ch \in Drawn : <<c, ch>> \in Reevaluated(roots)
         /\ \A c \in Cells, ch \in Drawn :
              <<c, ch>> \in Reevaluated(roots) => c \in Reached(roots, Cells)
  <1>1. roots \in SUBSET Cells
    BY DEF Roots
  <1>2. /\ Reached(roots, Cells) = Reached(roots, Cells \ detached)
        /\ Reached(roots, Cells) \cap detached = {}
    BY <1>1, ReachedPastConstants DEF Roots
  <1>3. Reached(roots, Cells) \subseteq Cells \ Broken
    <2>1. Reached(roots, Cells) \subseteq Cells
      BY <1>1, ReachedClosed
    <2>2. \A c \in Reached(roots, Cells) : c \in roots \/ Upstream[c] # {}
      BY <1>1, ReachedHasUpstream
    <2>3. QED
      BY <2>1, <2>2, NotebookAssumption DEF Roots
  <1>4. ASSUME NEW c \in Reached(roots, Cells)
        PROVE  \E ch \in Drawn : <<c, ch>> \in Reevaluated(roots)
    <2>1. PICK ch \in Drawn : phase[c][ch] # "unobserved"
      BY <1>3 DEF Observing
    <2>2. QED
      BY <1>2, <2>1 DEF Reevaluated, Drawn
  <1>5. QED
    BY <1>2, <1>4 DEF Reevaluated

LEMMA BusyReached ==
  ASSUME BusyClosed, NEW roots, roots \subseteq BusyCells
  PROVE  Reached(roots, Cells) \subseteq BusyCells
  <1>1. BusyCells \in SUBSET Cells
    BY DEF BusyCells
  <1>2. \A e \in BusyCells \cap Cells, d \in Cells : e \in Upstream[d] => d \in BusyCells
    BY DEF BusyClosed, Dependents
  <1>3. QED
    BY <1>1, <1>2, ReachedLeast

\* What a step that marks these variables dirty does to the wave.
Spreads(roots) ==
  /\ BusyCells \subseteq BusyCells' /\ Reached(roots, Cells) \subseteq BusyCells'
  /\ Observing' /\ BusyClosed'

LEMMA DirtyWave ==
  ASSUME Plain, Observing, BusyClosed, detached \subseteq Ownable, NEW roots, Roots(roots),
         NEW V, Reevaluated(roots) \subseteq V,
         \A c \in Cells, ch \in Drawn : <<c, ch>> \in V =>
            c \in Reached(roots, Cells) \/ Dependents(c) \subseteq roots,
         \A c \in Cells, ch \in Drawn :
            phase'[c][ch] = IF <<c, ch>> \in V THEN "dirty" ELSE phase[c][ch]
  PROVE  Spreads(roots)
  <1>1. /\ roots \subseteq Reached(roots, Cells) /\ Reached(roots, Cells) \subseteq Cells
        /\ \A e \in Reached(roots, Cells) \cap Cells, d \in Cells :
             e \in Upstream[d] => d \in Reached(roots, Cells)
    BY ReachedClosed DEF Roots
  <1>2. \A c \in Reached(roots, Cells) : \E ch \in Drawn : <<c, ch>> \in V
    BY ReevaluatedAll
  <1>3. \A c \in Cells : c \in BusyCells' <=>
          c \in BusyCells \/ \E ch \in Drawn : <<c, ch>> \in V
    BY DEF BusyCells, Busy, Drawn
  <1>4. BusyCells \subseteq BusyCells' /\ Reached(roots, Cells) \subseteq BusyCells'
    BY <1>1, <1>2, <1>3 DEF BusyCells
  <1>5. Observing'
    BY DEF Observing
  <1>6. ASSUME NEW c \in BusyCells', NEW d \in Dependents(c)
        PROVE  d \in BusyCells'
    <2>1. c \in Cells /\ d \in Cells /\ c \in Upstream[d]
      BY DEF BusyCells, Dependents
    <2>2. CASE c \in BusyCells
      BY <1>4, <2>2 DEF BusyClosed
    <2>3. CASE c \in Reached(roots, Cells)
      BY <1>1, <1>4, <2>1, <2>3
    <2>4. CASE Dependents(c) \subseteq roots
      BY <1>1, <1>4, <2>4
    <2>5. QED
      BY <1>3, <2>1, <2>2, <2>3, <2>4
  <1>7. BusyClosed'
    BY <1>6 DEF BusyClosed, Dependents
  <1>8. QED
    BY <1>4, <1>5, <1>7 DEF Spreads

\* An input change whose dependents become dirty at once.
LEMMA UpdateVariableWave ==
  ASSUME Tame, Inv, Unsurprised, NEW roots \in InputRoots, UpdateVariable(roots)
  PROVE  Unsurprised'
  <1>1. /\ active /\ BeginAffected(roots) /\ Mark(Reevaluated(roots), "dirty")
        /\ detached' = detached /\ control' = control /\ awaited' = awaited
    BY DEF UpdateVariable, Change
  <1>2. MountTyped /\ Fit(es) /\ Regular(es)
    BY <1>1 DEF Inv, Live, Unsurprised
  <1>3. /\ phase' \in Phases
        /\ \A c \in Cells, ch \in Drawn :
               phase'[c][ch] = IF <<c, ch>> \in Reevaluated(roots) THEN "dirty" ELSE phase[c][ch]
    BY <1>1, <1>2, MarkFacts DEF Marks, MountTyped
  <1>4. Spreads(roots)
    <2>1. Roots(roots)
      BY PlainRoots DEF Tame
    <2>2. \A c \in Cells, ch \in Drawn : <<c, ch>> \in Reevaluated(roots) => c \in Reached(roots, Cells)
      BY <2>1, ReevaluatedAll DEF Tame, Unsurprised
    <2>3. QED
      BY <1>3, <2>1, <2>2, DirtyWave DEF Tame, Unsurprised
  <1>5. Regular(es') /\ es'.pending = es.pending \cup (Reached(roots, Cells) \cap Selected)
    BY <1>1, <1>2, BeginAffectedCounts
  <1>6. Registered'
    <2>1. \A v \in Views : v \in Cells
      BY NotebookAssumption
    <2>2. QED
      BY <1>1, <1>3, <2>1 DEF Unsurprised, Registered, Drawn
  <1>7. PendingWorks'
    BY <1>1, <1>4, <1>5 DEF Unsurprised, PendingWorks, Spreads, Waits
  <1>8. QED
    BY <1>1, <1>4, <1>5, <1>6, <1>7 DEF Unsurprised, Spreads

LEMMA TakeNameWave ==
  ASSUME Tame, Inv, Unsurprised, NEW c \in Ownable, TakeName(c)
  PROVE  Unsurprised'
  <1> DEFINE V == ({c} \X {ch \in {"display", "variable"} : phase[c][ch] # "unobserved"})
                     \cup Reevaluated(Dependents(c))
  <1>1. /\ active /\ BeginAffected({c}) /\ Mark(V, "dirty")
        /\ detached' = detached \cup {c} /\ control' = control /\ awaited' = awaited
    BY DEF TakeName, Change
  <1>2. MountTyped /\ Fit(es) /\ Regular(es) /\ c \in Cells \ Broken
    BY <1>1, NotebookAssumption DEF Inv, Live, Unsurprised
  <1>3. Roots(Dependents(c))
    BY <1>2, PlainRoots DEF Tame
  <1>4. \A d \in Cells, ch \in Drawn : <<d, ch>> \in V =>
          d \in Reached(Dependents(c), Cells) \/ Dependents(d) \subseteq Dependents(c)
    <2>1. \A d \in Cells, ch \in Drawn : <<d, ch>> \in Reevaluated(Dependents(c)) =>
            d \in Reached(Dependents(c), Cells)
      BY <1>3, ReevaluatedAll DEF Tame, Unsurprised
    <2>2. QED
      BY <2>1
  <1>5. /\ Reevaluated(Dependents(c)) \subseteq V
        /\ \A ch \in Drawn : phase[c][ch] # "unobserved" => <<c, ch>> \in V
    BY DEF Drawn
  <1> HIDE DEF V
  <1>6. /\ phase' \in Phases
        /\ \A d \in Cells, ch \in Drawn :
               phase'[d][ch] = IF <<d, ch>> \in V THEN "dirty" ELSE phase[d][ch]
    BY <1>1, <1>2, MarkFacts DEF Marks, MountTyped
  <1>7. Spreads(Dependents(c))
    BY <1>3, <1>4, <1>5, <1>6, DirtyWave DEF Tame, Unsurprised
  <1>8. c \in BusyCells'
    <2>1. PICK ch \in Drawn : phase[c][ch] # "unobserved"
      BY <1>2 DEF Unsurprised, Observing
    <2>2. phase'[c][ch] = "dirty"
      BY <1>2, <1>5, <1>6, <2>1
    <2>3. QED
      BY <1>2, <2>2 DEF BusyCells, Busy, Drawn
  <1>9. Regular(es') /\ es'.pending = es.pending \cup (Reached({c}, Cells) \cap Selected)
    BY <1>1, <1>2, BeginAffectedCounts
  <1>10. Reached({c}, Cells) \subseteq BusyCells'
    BY <1>2, <1>7, <1>8, ReachedByDependents DEF Spreads
  <1>11. Registered'
    <2>1. \A v \in Views : v \in Cells
      BY NotebookAssumption
    <2>2. QED
      BY <1>1, <1>6, <2>1 DEF Unsurprised, Registered, Drawn
  <1>12. PendingWorks'
    BY <1>1, <1>7, <1>9, <1>10 DEF Unsurprised, PendingWorks, Spreads, Waits
  <1>13. QED
    BY <1>1, <1>7, <1>9, <1>11, <1>12 DEF Unsurprised, Spreads

\* A change of a view waits until its value reaches the cell's variable, unless the
\* view is to be evaluated anyway.
LEMMA UpdateViewWave ==
  ASSUME Tame, Inv, Unsurprised, NEW v \in Views, UpdateView(v) \/ Interact(v)
  PROVE  Unsurprised'
  <1>1. /\ active /\ BeginAffected({v})
        /\ detached' = detached /\ control' = control /\ phase' = phase
    BY DEF UpdateView, Interact, Change
  <1>2. MountTyped /\ Fit(es) /\ Regular(es) /\ v \in Cells /\ v \notin detached
    BY <1>1, NotebookAssumption, MountAssumption DEF Inv, Live, Unsurprised
  <1>3. Regular(es') /\ es'.pending = es.pending \cup (Reached({v}, Cells) \cap Selected)
    BY <1>1, <1>2, BeginAffectedCounts
  <1>4. \A w \in Views : awaited[w] \subseteq awaited'[w]
    BY <1>2 DEF MountTyped, UpdateView, Interact
  <1>5. v \in BusyCells \/ awaited'[v] # {}
    <2>1. CASE control[v] = "none"
      BY <1>2, <2>1 DEF Unsurprised, Registered, BusyCells, Busy
    <2>2. CASE control[v] # "none"
      <3>1. control[v] = "live"
        BY <2>2 DEF Unsurprised, Registered
      <3>2. QED
        BY <1>2, <3>1 DEF MountTyped, UpdateView, Interact
    <2>3. QED
      BY <2>1, <2>2
  <1>6. BusyCells' = BusyCells
    BY <1>1 DEF BusyCells, Busy
  <1>7. Observing' /\ BusyClosed' /\ Registered'
    BY <1>1, <1>6 DEF Unsurprised, Observing, BusyClosed, Registered, Dependents
  <1>8. v \in BusyCells => Reached({v}, Cells) \subseteq BusyCells
    BY BusyReached DEF Unsurprised
  <1>9. PendingWorks'
    BY <1>3, <1>4, <1>5, <1>6, <1>8 DEF Unsurprised, PendingWorks, Waits
  <1>10. QED
    BY <1>1, <1>3, <1>7, <1>9 DEF Unsurprised

\* A write that is applied becomes a value that the control yields.
LEMMA WriteAppliedWave ==
  ASSUME Tame, Inv, Unsurprised, active, NEW v \in Views, WriteApplied(v)
  PROVE  Unsurprised'
  <1>1. v \notin detached /\ v \in Cells
    BY NotebookAssumption, MountAssumption DEF Unsurprised
  <1>2. /\ es' = es /\ control' = control /\ phase' = phase /\ detached' = detached
        /\ awaited' = [awaited EXCEPT ![v] = (@ \ {"write"}) \cup
                         (IF control[v] = "live" THEN {"yield"} ELSE {})]
    BY <1>1 DEF WriteApplied
  <1>3. \A w \in Views : awaited[w] # {} => awaited'[w] # {} \/ w \in BusyCells
    BY <1>1, <1>2 DEF Inv, MountTyped, Unsurprised, Registered, BusyCells, Busy
  <1>4. BusyCells' = BusyCells
    BY <1>2 DEF BusyCells, Busy
  <1>5. Regular(es') /\ Observing' /\ BusyClosed' /\ Registered'
    BY <1>2, <1>4 DEF Unsurprised, Observing, BusyClosed, Registered, Dependents
  <1>6. \A w \in Views : w \in BusyCells => Reached({w}, Cells) \subseteq BusyCells
    BY BusyReached DEF Unsurprised
  <1>7. PendingWorks'
    BY <1>2, <1>3, <1>4, <1>6 DEF Unsurprised, PendingWorks, Waits
  <1>8. QED
    BY <1>2, <1>5, <1>7 DEF Unsurprised

LEMMA MicrotaskWave ==
  ASSUME Tame, Inv, Unsurprised, active, Microtask
  PROVE  Unsurprised'
  <1>1. /\ es' = RunSettlement(es)
        /\ UNCHANGED <<active, phase, detached, control, awaited>>
    BY DEF Microtask
  <1>2. es \in State /\ ~es.closed /\ Coherent(es) /\ Certain(es) /\ Regular(es)
    BY DEF Inv, Live, Fit, Unsurprised
  <1>3. Counts(es, RunSettlement(es), es.pending)
    BY <1>2, RunSettlementCounts
  <1>4. Regular(es') /\ es'.pending = es.pending
    BY <1>1, <1>2, <1>3 DEF Counts
  <1>5. BusyCells' = BusyCells
    BY <1>1 DEF BusyCells, Busy
  <1>6. QED
    BY <1>1, <1>4, <1>5 DEF Unsurprised, Observing, BusyClosed, Registered, PendingWorks,
       Waits, Dependents

\* A frame announces what it starts.
LEMMA ComputeNowWave ==
  ASSUME Tame, Inv, Unsurprised, active, ComputeNow
  PROVE  Unsurprised'
  <1> DEFINE m == [es |-> es, cs |-> cs]
             S == Variables("dirty")
             n == AnnounceEach(m, S)
  <1>1. /\ detached' = detached /\ control' = control /\ awaited' = awaited
        /\ Mark(S, "running") /\ es' = n.es
    BY DEF ComputeNow, Frame, AnnounceAll, AnnounceEach
  <1>2. /\ S \in SUBSET (Cells \X Drawn)
        /\ \A c \in Cells, ch \in Drawn : <<c, ch>> \in S <=> phase[c][ch] = "dirty"
    BY DEF Variables, Drawn
  <1> HIDE DEF S
  <1>3. MountTyped /\ Fit(es) /\ Selected \subseteq Cells /\ Regular(es)
    BY NotebookAssumption DEF Inv, Live, Unsurprised
  <1>4. m \in Machines /\ Fit(m.es) /\ m.es = es
    BY <1>3 DEF MountTyped, Fit, Machines
  <1>5. IsFiniteSet(S)
    BY <1>2, VariablesFinite
  <1> HIDE DEF m
  <1>6. AnnouncedAll(m, S, n)
    BY <1>2, <1>4, <1>5, AnnounceEachFacts
  <1> HIDE DEF n
  <1>7. /\ Regular(es')
        /\ es'.pending = es.pending \cup {c \in Selected : \E ch \in Channels : <<c, ch>> \in S}
    BY <1>1, <1>3, <1>4, <1>6 DEF AnnouncedAll, Counts
  <1>8. /\ phase' \in Phases
        /\ \A c \in Cells, ch \in Drawn :
             phase'[c][ch] = IF <<c, ch>> \in S THEN "running" ELSE phase[c][ch]
    BY <1>1, <1>3, MarkFacts DEF Marks, MountTyped
  <1>9. BusyCells' = BusyCells
    <2>1. \A c \in Cells, ch \in Drawn :
            phase'[c][ch] \in {"dirty", "running"} <=> phase[c][ch] \in {"dirty", "running"}
      BY <1>2, <1>8
    <2>2. QED
      BY <2>1 DEF BusyCells, Busy, Drawn
  <1>10. Observing' /\ BusyClosed'
    BY <1>8, <1>9 DEF Unsurprised, Observing, BusyClosed, Dependents
  <1>11. Registered'
    <2>1. \A v \in Views : v \in Cells
      BY NotebookAssumption
    <2>2. QED
      BY <1>1, <1>2, <1>8, <2>1 DEF Unsurprised, Registered, Drawn
  <1>12. \A c \in Selected, ch \in Channels : <<c, ch>> \in S => c \in BusyCells
    BY <1>2, <1>3 DEF BusyCells, Busy, Drawn
  <1>13. PendingWorks'
    BY <1>1, <1>7, <1>9, <1>12 DEF Unsurprised, PendingWorks, Waits
  <1>14. QED
    BY <1>1, <1>7, <1>10, <1>11, <1>13 DEF Unsurprised

LEMMA DeliveredWave ==
  ASSUME Inv, Inv', active, active', Regular(es),
         NEW c \in Cells, NEW ch \in Drawn, NEW outcome \in Terminal, Delivered(c, ch, outcome)
  PROVE  /\ Regular(es')
         /\ \A d \in es'.pending : d \in BusyCells' \/ (d \in es.pending /\ d # c)
         /\ es.pending \ {c} \subseteq es'.pending
         /\ c \in Selected /\ ~NoneAwaited(cs'[c]) => c \in es'.pending
  <1> DEFINE m == [es |-> es, cs |-> cs]
             n == Deliver(m, c, ch, outcome)
  <1>1. /\ m \in Machines /\ Fit(m.es) /\ m.es = es /\ m.cs = cs
        /\ Selected \subseteq Cells /\ ch \in Channels
    BY NotebookAssumption DEF Inv, Live, MountTyped, Machines, Fit, Drawn
  <1>2. es' = n.es /\ cs' = n.cs
    BY DEF Delivered
  <1> HIDE DEF m
  <1>3. CASE c \notin Selected
    <2>1. n = m
      BY <1>3 DEF Deliver
    <2>2. c \notin es.pending
      BY <1>1, <1>3 DEF Fit, Coherent, NoResult
    <2>3. QED
      BY <1>1, <1>2, <1>3, <2>1, <2>2
  <1>4. CASE c \in Selected
    <2>1. Judged(m, c, ch, outcome, n)
      BY <1>1, <1>4, DeliverFacts
    <2> HIDE DEF n
    <2>2. /\ Regular(es')
          /\ es'.pending = IF NoneAwaited(cs'[c]) THEN es.pending \ {c} ELSE es.pending \cup {c}
      BY <1>1, <1>2, <2>1 DEF Judged, Counts
    <2>3. ~NoneAwaited(cs'[c]) => c \in BusyCells'
      <3>1. /\ Agrees(c, cs'[c], phase'[c], es'.results[c])
            /\ phase'[c] \in [Drawn -> Marks] /\ c \in Cells
        BY <1>1, <1>4 DEF Inv, Live, CellsAgree, MountTyped, Phases
      <3>2. QED
        BY <1>4, <3>1, NotReadyBusy DEF BusyCells, Busy, Drawn
    <2>4. QED
      BY <2>2, <2>3
  <1>5. QED
    BY <1>3, <1>4

LEMMA FinishWave ==
  ASSUME Tame, Inv, Inv', Unsurprised, active, active',
         NEW c \in Cells, NEW ch \in Drawn, NEW outcome \in Terminal, Finish(c, ch, outcome)
  PROVE  Unsurprised'
  <1>1. /\ detached' = detached /\ phase[c][ch] = "running"
        /\ \A u \in Upstream[c] : ~Busy(u)
        /\ c \in Views /\ ch = "display" /\ outcome = "error" => "view fails" \in Surprises
        /\ Mark({<<c, ch>>}, outcome) /\ Delivered(c, ch, outcome)
    BY DEF Finish, Evaluated
  <1>2. MountTyped /\ Regular(es) /\ c \in BusyCells
    BY <1>1 DEF Inv, Unsurprised, BusyCells, Busy, Drawn
  <1>3. \A d \in Cells, h \in Drawn :
          phase'[d][h] = IF d = c /\ h = ch THEN outcome ELSE phase[d][h]
    <2>1. MarkedAs(c, ch, outcome)
      BY <1>1 DEF MarkedAs
    <2>2. phase \in Phases
      BY <1>2 DEF MountTyped
    <2>3. QED
      BY <2>1, <2>2, MarkedOne
  <1>4. outcome \in {"success", "error"}
    BY DEF Terminal
  <1>5. BusyCells' \subseteq BusyCells /\ BusyCells \ {c} \subseteq BusyCells'
    BY <1>3, <1>4 DEF BusyCells, Busy, Drawn
  <1>6. Observing'
    BY <1>3, <1>4 DEF Unsurprised, Observing
  <1>7. BusyClosed'
    <2>1. ASSUME NEW e \in BusyCells', NEW d \in Dependents(e)
          PROVE  d \in BusyCells'
      <3>1. e \in BusyCells /\ d \in BusyCells /\ e \in Upstream[d]
        BY <1>5 DEF Unsurprised, BusyClosed, Dependents
      <3>2. d # c
        BY <1>1, <3>1 DEF BusyCells
      <3>3. QED
        BY <1>5, <3>1, <3>2
    <2>2. QED
      BY <2>1 DEF BusyClosed, Dependents
  <1>8. \A v \in Views : v # c \/ ch # "display" => control'[v] = control[v] /\ awaited'[v] = awaited[v]
    BY <1>2 DEF Finish, MountTyped
  <1>9. c \in Views /\ ch = "display" => control'[c] = "live"
    <2>1. c \in Views /\ ch = "display" => outcome = "success"
      BY <1>1, <1>4 DEF Tame
    <2>2. QED
      BY <1>2, <2>1 DEF Finish, MountTyped
  <1>10. Registered'
    <2>1. ASSUME NEW v \in Views
          PROVE  \/ control'[v] = "live"
                 \/ control'[v] = "none" /\ phase'[v]["display"] \in {"dirty", "running"}
      <3>1. v \in Cells /\ "display" \in Drawn
        BY NotebookAssumption DEF Drawn
      <3>2. CASE v = c /\ ch = "display"
        BY <1>9, <3>2
      <3>3. CASE v # c \/ ch # "display"
        BY <1>3, <1>8, <3>1, <3>3 DEF Unsurprised, Registered
      <3>4. QED
        BY <3>2, <3>3
    <2>2. QED
      BY <2>1 DEF Registered
  <1>11. /\ Regular(es')
         /\ \A d \in es'.pending : d \in BusyCells' \/ (d \in es.pending /\ d # c)
    BY <1>1, <1>2, DeliveredWave
  <1>12. ASSUME NEW d \in es.pending, d # c
         PROVE  d \in BusyCells' \/ Waits(d)'
    <2>1. CASE d \in BusyCells
      BY <1>5, <1>12, <2>1
    <2>2. ASSUME NEW v \in Views, awaited[v] # {}, d \in Reached({v}, Cells)
          PROVE  d \in BusyCells' \/ Waits(d)'
      <3>1. CASE v = c
        <4>1. Reached({c}, Cells) \subseteq BusyCells
          BY <1>2, BusyReached DEF Unsurprised
        <4>2. QED
          BY <1>5, <1>12, <2>2, <3>1, <4>1
      <3>2. CASE v # c
        BY <1>8, <2>2, <3>2 DEF Waits
      <3>3. QED
        BY <3>1, <3>2
    <2>3. QED
      BY <2>1, <2>2 DEF Unsurprised, PendingWorks, Waits
  <1>13. PendingWorks'
    BY <1>11, <1>12 DEF PendingWorks
  <1>14. QED
    BY <1>1, <1>6, <1>7, <1>10, <1>11, <1>13 DEF Unsurprised

\* A yielded value reaches its cell, and what depends on it becomes dirty.
LEMMA YieldWave ==
  ASSUME Tame, Inv, Inv', Unsurprised, active, active', NEW c \in Cells,
         Delivered(c, "variable", "success"), Mark(Reevaluated(Dependents(c)), "dirty"),
         detached' = detached, control' = control,
         \A v \in Views : awaited'[v] = awaited[v] \/ v = c
  PROVE  Unsurprised'
  <1>1. MountTyped /\ Regular(es) /\ Roots(Dependents(c))
    BY PlainRoots DEF Inv, Unsurprised, Tame
  <1>2. /\ phase' \in Phases
        /\ \A d \in Cells, ch \in Drawn :
             phase'[d][ch] = IF <<d, ch>> \in Reevaluated(Dependents(c)) THEN "dirty"
                             ELSE phase[d][ch]
    BY <1>1, MarkFacts DEF Marks, MountTyped
  <1>3. Spreads(Dependents(c))
    <2>1. \A d \in Cells, ch \in Drawn :
            <<d, ch>> \in Reevaluated(Dependents(c)) => d \in Reached(Dependents(c), Cells)
      BY <1>1, ReevaluatedAll DEF Tame, Unsurprised
    <2>2. QED
      BY <1>1, <1>2, <2>1, DirtyWave DEF Tame, Unsurprised
  <1>4. Registered'
    <2>1. \A v \in Views : v \in Cells
      BY NotebookAssumption
    <2>2. QED
      BY <1>2, <2>1 DEF Unsurprised, Registered, Drawn
  <1>5. /\ Regular(es')
        /\ \A d \in es'.pending : d \in BusyCells' \/ (d \in es.pending /\ d # c)
    <2>1. "variable" \in Drawn /\ "success" \in Terminal
      BY DEF Drawn, Terminal
    <2>2. QED
      BY <1>1, <2>1, DeliveredWave
  <1>6. ASSUME NEW d \in es.pending, d # c
        PROVE  d \in BusyCells' \/ Waits(d)'
    <2>1. CASE d \in BusyCells
      BY <1>3, <2>1 DEF Spreads
    <2>2. ASSUME NEW v \in Views, awaited[v] # {}, d \in Reached({v}, Cells)
          PROVE  d \in BusyCells' \/ Waits(d)'
      <3>1. CASE v = c
        BY <1>3, <1>6, <2>2, <3>1, ReachedByDependents DEF Spreads
      <3>2. CASE v # c
        BY <2>2, <3>2 DEF Waits
      <3>3. QED
        BY <3>1, <3>2
    <2>3. QED
      BY <2>1, <2>2 DEF Unsurprised, PendingWorks, Waits
  <1>7. PendingWorks'
    BY <1>5, <1>6 DEF PendingWorks
  <1>8. QED
    BY <1>3, <1>4, <1>5, <1>7 DEF Unsurprised, Spreads

\* A render makes every cell dirty that can be evaluated, and the others fail.
LEMMA RenderWave ==
  ASSUME NEW s \in State, ~s.closed, Coherent(s), NoTerminalResult(s), ~s.errors,
         NEW owned \in SUBSET Ownable, NEW written, Render(s, owned, written)
  PROVE  Unsurprised'
  <1> DEFINE m == Rendered(s, owned)
  <1>1. /\ es' = m.es /\ detached' = owned
        /\ phase' = [c \in Cells |-> [ch \in Drawn |->
                       IF ch \in Observed(c, owned) THEN "dirty" ELSE "unobserved"]]
        /\ control' = [v \in Views |-> "none"]
    BY DEF Render, Drawn
  <1>2. Renders(owned, m)
    BY RenderedFacts
  <1> HIDE DEF m
  <1>3. Regular(es') /\ es'.pending = Selected \ Failing
    BY <1>1, <1>2 DEF Renders
  <1>4. \A c \in Cells, ch \in Drawn :
          phase'[c][ch] = IF ch \in Observed(c, owned) THEN "dirty" ELSE "unobserved"
    BY <1>1
  <1>5. /\ \A c \in Cells \ Broken : \E ch \in Drawn : ch \in Observed(c, owned)
        /\ \A v \in Views : v \in Cells /\ "display" \in Observed(v, owned)
    <2>1. ASSUME NEW c \in Cells \ Broken
          PROVE  \E ch \in Drawn : ch \in Observed(c, owned)
      BY DEF Observed, Drawn
    <2>2. ASSUME NEW v \in Views
          PROVE  v \in Cells /\ "display" \in Observed(v, owned)
      <3>1. v \in Cells /\ v \in Exposing \ owned /\ v \notin Broken /\ v \notin owned
        BY NotebookAssumption, MountAssumption
      <3>2. QED
        BY <3>1 DEF Observed
    <2>3. QED
      BY <2>1, <2>2
  <1>6. Cells \ Broken \subseteq BusyCells'
    BY <1>4, <1>5 DEF BusyCells, Busy, Drawn
  <1>7. Observing'
    BY <1>4, <1>5 DEF Observing
  <1>8. BusyClosed'
    <2>1. \A c \in Cells : Dependents(c) \subseteq Cells \ Broken
      BY NotebookAssumption DEF Dependents
    <2>2. QED
      BY <1>6, <2>1 DEF BusyClosed, BusyCells, Dependents
  <1>9. Registered'
    BY <1>1, <1>4, <1>5 DEF Registered, Drawn
  <1>10. PendingWorks'
    BY <1>3, <1>6, NotebookAssumption DEF PendingWorks, Failing
  <1>11. QED
    BY <1>1, <1>3, <1>7, <1>8, <1>9, <1>10 DEF Unsurprised


\* Nothing but the first render makes a mount live.
LEMMA MountsFirst ==
  ASSUME Inv, ~active, active', [Next]_vars
  PROVE  \E owned \in SUBSET Ownable, written \in SUBSET Views : Mount(owned, written)
  <1>1. /\ \A c \in Cells, ch \in Drawn : phase[c][ch] = "unobserved"
        /\ \A v \in Views : awaited[v] = {}
    BY DEF Inv, Idle, Unrun, Drawn
  <1>2. Expected
    <2>1. ~Unexpected
      BY <1>1 DEF Unexpected, WriteOverridden, WriteFailed
    <2>2. QED
      BY <2>1 DEF Next, vars
  <1>3. ~ComputeNow
    BY <1>1 DEF ComputeNow, Frame, Variables, Drawn
  <1>4. \A c \in Cells, ch \in {"display", "variable"}, outcome \in Terminal :
          ~Finish(c, ch, outcome)
    BY <1>1 DEF Finish, Evaluated, Drawn
  <1>5. \A v \in Views : ~UpdateView(v) /\ ~Interact(v) /\ ~WriteApplied(v) /\ ~YieldControl(v)
    BY <1>1 DEF UpdateView, Interact, Change, WriteApplied, YieldControl, Yields
  <1>6. /\ \A roots \in InputRoots : ~UpdateVariable(roots)
        /\ \A c \in Ownable : ~TakeName(c)
        /\ \A c \in Generators : ~YieldGenerator(c)
        /\ \A owned \in SUBSET Ownable, written \in SUBSET Views : ~Replace(owned, written)
        /\ ~Dispose
    BY DEF UpdateVariable, TakeName, YieldGenerator, Replace, Dispose, Change
  <1>7. ~Microtask
    BY DEF Microtask
  <1>8. QED
    BY <1>2, <1>3, <1>4, <1>5, <1>6, <1>7 DEF Expected

LEMMA WaveStep == Tame /\ Inv /\ Inv' /\ Wave /\ [Next]_vars => Wave'
  <1> SUFFICES ASSUME Tame, Inv, Inv', Wave, [Next]_vars, active', ~surprised'
               PROVE  Unsurprised'
    BY DEF Wave
  <1>1. ASSUME NEW owned \in SUBSET Ownable, NEW written \in SUBSET Views,
               Mount(owned, written) \/ Replace(owned, written)
        PROVE  Unsurprised'
    BY <1>1, RendersAfresh, RenderWave
  <1>2. \/ Expected /\ surprised' = surprised
        \/ UNCHANGED vars
    BY DEF Next
  <1>3. CASE ~active
    BY <1>1, <1>3, MountsFirst
  <1>4. CASE active
    <2>1. Unsurprised
      BY <1>2, <1>4 DEF Wave, vars
    <2>2. ASSUME NEW roots \in InputRoots, UpdateVariable(roots)
          PROVE  Unsurprised'
      BY <2>1, <2>2, UpdateVariableWave
    <2>3. ASSUME NEW c \in Ownable, TakeName(c)
          PROVE  Unsurprised'
      BY <2>1, <2>3, TakeNameWave
    <2>4. ASSUME NEW v \in Views,
                 UpdateView(v) \/ Interact(v) \/ WriteApplied(v) \/ YieldControl(v)
          PROVE  Unsurprised'
      <3>1. CASE UpdateView(v) \/ Interact(v)
        BY <2>1, <3>1, UpdateViewWave
      <3>2. CASE WriteApplied(v)
        BY <1>4, <2>1, <3>2, WriteAppliedWave
      <3>3. CASE YieldControl(v)
        <4>1. v \in Cells
          BY NotebookAssumption
        <4>2. \A w \in Views : awaited'[w] = awaited[w] \/ w = v
          BY <3>3 DEF YieldControl, Yields, Inv, MountTyped
        <4>3. QED
          BY <1>4, <2>1, <3>3, <4>1, <4>2, YieldWave DEF YieldControl, Yields
      <3>4. QED
        BY <2>4, <3>1, <3>2, <3>3
    <2>5. CASE ComputeNow
      BY <1>4, <2>1, <2>5, ComputeNowWave
    <2>6. ASSUME NEW c \in Cells, NEW ch \in {"display", "variable"}, NEW outcome \in Terminal,
                 Finish(c, ch, outcome)
          PROVE  Unsurprised'
      BY <1>4, <2>1, <2>6, FinishWave DEF Drawn
    <2>7. ASSUME NEW c \in Generators, YieldGenerator(c)
          PROVE  Unsurprised'
      <3>1. c \in Cells
        BY NotebookAssumption
      <3>2. QED
        BY <1>4, <2>1, <2>7, <3>1, YieldWave DEF YieldGenerator
    <2>8. CASE Microtask
      BY <1>4, <2>1, <2>8, MicrotaskWave
    <2>9. CASE Dispose
      BY <2>9 DEF Dispose
    <2>10. CASE UNCHANGED vars
      BY <2>1, <2>10 DEF vars, Unsurprised, Observing, BusyClosed, Registered, PendingWorks,
         Waits, BusyCells, Busy, Dependents
    <2>11. QED
      BY <1>1, <1>2, <2>2, <2>3, <2>4, <2>5, <2>6, <2>7, <2>8, <2>9, <2>10 DEF Expected
  <1>5. QED
    BY <1>3, <1>4

\* No evaluation is left out: whatever is to be evaluated takes along what depends on it,
\* and every pending cell has something to wait for.
THEOREM WaveHolds == ASSUME Tame PROVE Spec => [](Inv /\ Wave)
  <1>1. Init => Inv /\ Wave
    BY InitInv DEF Init, Wave
  <1>2. Inv /\ Wave /\ [Next]_vars => (Inv /\ Wave)'
    BY StepInv, WaveStep
  <1>3. QED
    BY <1>1, <1>2, PTL DEF Spec

\* As long as every control takes the values it is given and none fails, and the
\* host takes over only names of cells without references, a cell is reported
\* pending only while something that leads to it is still to be evaluated, written
\* or delivered.
THEOREM PendingEvaluating == ASSUME Tame PROVE Spec => []PendingMeansEvaluating
  <1>1. Inv /\ Wave => PendingMeansEvaluating
    <2> SUFFICES ASSUME Inv, active, Unsurprised, NEW c \in es.pending
                 PROVE  Working(c)
      BY DEF Wave, PendingMeansEvaluating
    <2>1. c \in Cells /\ c \in Reached({c}, Cells)
      BY DEF Inv, Live, Fit, Coherent, Reached
    <2>2. CASE c \in BusyCells
      BY <2>1, <2>2 DEF Working, Reaches, BusyCells
    <2>3. CASE Waits(c)
      <3>1. PICK v \in Views : awaited[v] # {} /\ c \in Reached({v}, Cells)
        BY <2>3 DEF Waits
      <3>2. v \in Cells
        BY NotebookAssumption
      <3>3. QED
        BY <3>1, <3>2 DEF Working, Reaches
    <2>4. QED
      BY <2>2, <2>3 DEF Unsurprised, PendingWorks
  <1>2. QED
    BY <1>1, WaveHolds, PTL

-----------------------------------------------------------------------------
(* Notebooks whose cells are evaluated only for inputs of the host *)

Passive == Plain /\ Views = {} /\ Generators = {} /\ Marred = {}

\* Every selected cell that is to be evaluated is reported pending.
BusyPending == \A c \in BusyCells \cap Selected : c \in es.pending

\* The variables of a cell become dirty together.
DirtyTogether ==
  \A c \in Cells, ch \in Drawn : phase[c][ch] = "dirty" =>
     \A h \in Drawn : phase[c][h] \in {"dirty", "unobserved"}

Quiet == ~surprised /\ (active => BusyPending /\ DirtyTogether)

LEMMA PassiveTame == ASSUME Passive PROVE Tame
  BY DEF Passive, Tame

\* A constant is never reevaluated, and of every other cell each observed variable is.
LEMMA ReevaluatedTogether ==
  ASSUME Plain, detached \subseteq Ownable, NEW roots, Roots(roots)
  PROVE  \A c \in Cells, ch \in Drawn : <<c, ch>> \in Reevaluated(roots) =>
           \A h \in Drawn : phase[c][h] # "unobserved" => <<c, h>> \in Reevaluated(roots)
  <1>1. Reached(roots, Cells \ detached) \cap detached = {}
    BY ReachedPastConstants DEF Roots
  <1>2. QED
    BY <1>1 DEF Reevaluated, Drawn

\* A step that marks together what it marks.
LEMMA DirtyQuiet ==
  ASSUME BusyPending, DirtyTogether, NEW V, es.pending \subseteq es'.pending,
         \A c \in Cells, ch \in Drawn : <<c, ch>> \in V =>
            /\ c \in Selected => c \in es'.pending
            /\ \A h \in Drawn : phase[c][h] # "unobserved" => <<c, h>> \in V,
         \A c \in Cells, ch \in Drawn :
            phase'[c][ch] = IF <<c, ch>> \in V THEN "dirty" ELSE phase[c][ch]
  PROVE  (BusyPending /\ DirtyTogether)'
  <1>1. \A c \in BusyCells' : c \in BusyCells \/ \E ch \in Drawn : <<c, ch>> \in V
    BY DEF BusyCells, Busy, Drawn
  <1>2. BusyPending'
    BY <1>1 DEF BusyPending, BusyCells
  <1>3. ASSUME NEW c \in Cells, NEW ch \in Drawn, phase'[c][ch] = "dirty", NEW h \in Drawn
        PROVE  phase'[c][h] \in {"dirty", "unobserved"}
    <2>1. CASE <<c, ch>> \in V
      <3>1. phase[c][h] # "unobserved" => <<c, h>> \in V
        BY <1>3, <2>1
      <3>2. phase'[c][h] = IF <<c, h>> \in V THEN "dirty" ELSE phase[c][h]
        BY <1>3
      <3>3. QED
        BY <3>1, <3>2
    <2>2. CASE <<c, ch>> \notin V
      <3>1. phase[c][ch] = "dirty"
        BY <1>3, <2>2
      <3>2. phase[c][h] \in {"dirty", "unobserved"}
        BY <1>3, <3>1 DEF DirtyTogether
      <3>3. phase'[c][h] \in {"dirty", phase[c][h]}
        BY <1>3
      <3>4. QED
        BY <3>2, <3>3
    <2>3. QED
      BY <2>1, <2>2
  <1>4. DirtyTogether'
    BY <1>3 DEF DirtyTogether
  <1>5. QED
    BY <1>2, <1>4

LEMMA UpdateVariableQuiet ==
  ASSUME Passive, Inv, Unsurprised, BusyPending, DirtyTogether,
         NEW roots \in InputRoots, UpdateVariable(roots)
  PROVE  (BusyPending /\ DirtyTogether)'
  <1> DEFINE V == Reevaluated(roots)
  <1>1. active /\ BeginAffected(roots) /\ Mark(V, "dirty")
    BY DEF UpdateVariable, Change
  <1>2. MountTyped /\ Fit(es) /\ Regular(es) /\ Roots(roots)
    BY <1>1, PlainRoots DEF Inv, Live, Unsurprised, Passive
  <1>3. es'.pending = es.pending \cup (Reached(roots, Cells) \cap Selected)
    BY <1>1, <1>2, BeginAffectedCounts
  <1>4. \A c \in Cells, ch \in Drawn : <<c, ch>> \in V => c \in Reached(roots, Cells)
    BY <1>2, ReevaluatedAll DEF Unsurprised, Passive
  <1>5. \A c \in Cells, ch \in Drawn : <<c, ch>> \in V =>
          \A h \in Drawn : phase[c][h] # "unobserved" => <<c, h>> \in V
    BY <1>2, ReevaluatedTogether DEF Unsurprised, Passive
  <1>6. /\ phase' \in Phases
        /\ \A c \in Cells, ch \in Drawn :
             phase'[c][ch] = IF <<c, ch>> \in V THEN "dirty" ELSE phase[c][ch]
    BY <1>1, <1>2, MarkFacts DEF Marks, MountTyped
  <1> HIDE DEF V
  <1>7. QED
    BY <1>3, <1>4, <1>5, <1>6, DirtyQuiet

LEMMA TakeNameQuiet ==
  ASSUME Passive, Inv, Unsurprised, BusyPending, DirtyTogether, NEW c \in Ownable, TakeName(c)
  PROVE  (BusyPending /\ DirtyTogether)'
  <1> DEFINE W == Reevaluated(Dependents(c))
             V == ({c} \X {ch \in {"display", "variable"} : phase[c][ch] # "unobserved"}) \cup W
  <1>1. active /\ BeginAffected({c}) /\ Mark(V, "dirty")
    BY DEF TakeName, Change
  <1>2. MountTyped /\ Fit(es) /\ Regular(es) /\ c \in Cells /\ Roots(Dependents(c))
    BY <1>1, PlainRoots, NotebookAssumption DEF Inv, Live, Unsurprised, Passive
  <1>3. es'.pending = es.pending \cup (Reached({c}, Cells) \cap Selected)
    BY <1>1, <1>2, BeginAffectedCounts
  <1>4. c \in Reached({c}, Cells) /\ Reached(Dependents(c), Cells) \subseteq Reached({c}, Cells)
    <2> DEFINE closed == Reached({c}, Cells)
    <2>1. /\ {c} \subseteq closed /\ closed \in SUBSET Cells
          /\ \A e \in closed \cap Cells, d \in Cells : e \in Upstream[d] => d \in closed
      BY <1>2, ReachedClosed
    <2> HIDE DEF closed
    <2>2. Dependents(c) \subseteq closed
      BY <1>2, <2>1 DEF Dependents
    <2>3. Reached(Dependents(c), Cells) \subseteq closed
      BY <2>1, <2>2, ReachedLeast
    <2>4. QED
      BY <2>1, <2>3 DEF closed
  <1>5. \A d \in Cells, ch \in Drawn : <<d, ch>> \in W => d \in Reached(Dependents(c), Cells)
    BY <1>2, ReevaluatedAll DEF Unsurprised, Passive
  <1>6. \A d \in Cells, ch \in Drawn : <<d, ch>> \in W =>
          \A h \in Drawn : phase[d][h] # "unobserved" => <<d, h>> \in W
    BY <1>2, ReevaluatedTogether DEF Unsurprised, Passive
  <1> HIDE DEF W
  <1>7. \A d \in Cells, ch \in Drawn : <<d, ch>> \in V =>
          /\ d \in Reached({c}, Cells)
          /\ \A h \in Drawn : phase[d][h] # "unobserved" => <<d, h>> \in V
    BY <1>4, <1>5, <1>6 DEF Drawn
  <1> HIDE DEF V
  <1>8. /\ phase' \in Phases
        /\ \A d \in Cells, ch \in Drawn :
             phase'[d][ch] = IF <<d, ch>> \in V THEN "dirty" ELSE phase[d][ch]
    BY <1>1, <1>2, MarkFacts DEF Marks, MountTyped
  <1>9. QED
    BY <1>3, <1>7, <1>8, DirtyQuiet


LEMMA ComputeNowQuiet ==
  ASSUME Inv, Inv', Unsurprised, active, active', BusyPending, DirtyTogether, ComputeNow
  PROVE  (BusyPending /\ DirtyTogether)'
  <1> DEFINE m == [es |-> es, cs |-> cs]
             S == Variables("dirty")
             n == AnnounceEach(m, S)
  <1>1. Mark(S, "running") /\ es' = n.es
    BY DEF ComputeNow, Frame, AnnounceAll, AnnounceEach
  <1>2. /\ S \in SUBSET (Cells \X Drawn)
        /\ \A c \in Cells, ch \in Drawn : <<c, ch>> \in S <=> phase[c][ch] = "dirty"
    BY DEF Variables, Drawn
  <1> HIDE DEF S
  <1>3. MountTyped /\ Fit(es)
    BY DEF Inv, Live
  <1>4. m \in Machines /\ Fit(m.es) /\ m.es = es
    BY <1>3 DEF MountTyped, Fit, Machines
  <1>5. IsFiniteSet(S)
    BY <1>2, VariablesFinite
  <1> HIDE DEF m
  <1>6. AnnouncedAll(m, S, n)
    BY <1>2, <1>4, <1>5, AnnounceEachFacts
  <1> HIDE DEF n
  <1>7. es.pending \subseteq es'.pending
    BY <1>1, <1>4, <1>6 DEF AnnouncedAll
  <1>8. /\ phase' \in Phases
        /\ \A c \in Cells, ch \in Drawn :
             phase'[c][ch] = IF <<c, ch>> \in S THEN "running" ELSE phase[c][ch]
    BY <1>1, <1>3, MarkFacts DEF Marks, MountTyped
  <1>9. BusyPending'
    BY <1>2, <1>7, <1>8 DEF BusyPending, BusyCells, Busy, Drawn
  <1>10. DirtyTogether'
    <2>1. ASSUME NEW c \in Cells, NEW ch \in Drawn
          PROVE  phase'[c][ch] # "dirty"
      <3>1. CASE <<c, ch>> \in S
        BY <1>8, <3>1
      <3>2. CASE <<c, ch>> \notin S
        BY <1>2, <1>8, <3>2
      <3>3. QED
        BY <3>1, <3>2
    <2>2. QED
      BY <2>1 DEF DirtyTogether
  <1>11. QED
    BY <1>9, <1>10

LEMMA FinishQuiet ==
  ASSUME Passive, Inv, Inv', Unsurprised, active, active', BusyPending, DirtyTogether,
         NEW c \in Cells, NEW ch \in Drawn, NEW outcome \in Terminal, Finish(c, ch, outcome)
  PROVE  (BusyPending /\ DirtyTogether)'
  <1>1. /\ phase[c][ch] = "running"
        /\ Mark({<<c, ch>>}, outcome) /\ Delivered(c, ch, outcome)
    BY DEF Finish, Evaluated
  <1>2. MountTyped /\ Regular(es)
    BY DEF Inv, Unsurprised
  <1>3. \A d \in Cells, h \in Drawn :
          phase'[d][h] = IF d = c /\ h = ch THEN outcome ELSE phase[d][h]
    <2>1. MarkedAs(c, ch, outcome)
      BY <1>1 DEF MarkedAs
    <2>2. phase \in Phases
      BY <1>2 DEF MountTyped
    <2>3. QED
      BY <2>1, <2>2, MarkedOne
  <1>4. outcome \in {"success", "error"}
    BY DEF Terminal
  <1>5. /\ es.pending \ {c} \subseteq es'.pending
        /\ c \in Selected /\ ~NoneAwaited(cs'[c]) => c \in es'.pending
    BY <1>1, <1>2, DeliveredWave
  <1>6. DirtyTogether'
    <2>1. ASSUME NEW d \in Cells, NEW g \in Drawn, phase'[d][g] = "dirty", NEW h \in Drawn
          PROVE  phase'[d][h] \in {"dirty", "unobserved"}
      <3>1. phase[d][g] = "dirty"
        BY <1>3, <1>4, <2>1
      <3>2. phase[d][h] \in {"dirty", "unobserved"}
        BY <3>1 DEF DirtyTogether
      <3>3. QED
        BY <1>1, <1>3, <3>2
    <2>2. QED
      BY <2>1 DEF DirtyTogether
  <1>7. ASSUME c \in Selected, c \in BusyCells'
        PROVE  ~NoneAwaited(cs'[c])
    <2>1. Agrees(c, cs'[c], phase'[c], es'.results[c])
      BY <1>7 DEF Inv, Live, CellsAgree
    <2>2. c \in Cells \ Failing
      <3>1. c \notin Broken
        BY <1>1 DEF Inv, Live, BrokenUnobserved
      <3>2. QED
        BY <3>1 DEF Failing, Passive
    <2>3. \A h \in Drawn : phase'[c][h] # "dirty"
      BY <1>1, <1>3, <1>4 DEF DirtyTogether
    <2>4. PICK h \in Drawn : phase'[c][h] = "running"
      BY <1>7, <2>3 DEF BusyCells, Busy, Drawn
    <2>5. QED
      BY <2>1, <2>2, <2>4, ReadyNotRunning
  <1>8. BusyPending'
    <2>1. \A d \in Cells : d # c /\ d \in BusyCells' => d \in BusyCells
      BY <1>3 DEF BusyCells, Busy, Drawn
    <2>2. QED
      BY <1>5, <1>7, <2>1 DEF BusyPending, BusyCells
  <1>9. QED
    BY <1>6, <1>8

LEMMA RenderQuiet ==
  ASSUME Passive, NEW s \in State, ~s.closed, Coherent(s), NoTerminalResult(s), ~s.errors,
         NEW owned \in SUBSET Ownable, NEW written, Render(s, owned, written)
  PROVE  (BusyPending /\ DirtyTogether)'
  <1> DEFINE m == Rendered(s, owned)
  <1>1. /\ es' = m.es
        /\ phase' = [c \in Cells |-> [ch \in Drawn |->
                       IF ch \in Observed(c, owned) THEN "dirty" ELSE "unobserved"]]
    BY DEF Render, Drawn
  <1>2. Renders(owned, m)
    BY RenderedFacts
  <1> HIDE DEF m
  <1>3. es'.pending = Selected \ Broken
    BY <1>1, <1>2 DEF Renders, Failing, Passive
  <1>4. \A c \in Cells, ch \in Drawn :
          phase'[c][ch] = IF ch \in Observed(c, owned) THEN "dirty" ELSE "unobserved"
    BY <1>1
  <1>5. \A c \in Cells \cap Broken, ch \in Drawn : ch \notin Observed(c, owned)
    BY NotebookAssumption DEF Observed
  <1>6. BusyPending'
    BY <1>3, <1>4, <1>5 DEF BusyPending, BusyCells, Busy, Drawn
  <1>7. DirtyTogether'
    BY <1>4 DEF DirtyTogether
  <1>8. QED
    BY <1>6, <1>7

LEMMA MicrotaskQuiet ==
  ASSUME Inv, active, BusyPending, DirtyTogether, Microtask
  PROVE  (BusyPending /\ DirtyTogether)'
  <1>1. es' = RunSettlement(es) /\ phase' = phase
    BY DEF Microtask
  <1>2. es \in State /\ ~es.closed /\ Coherent(es) /\ Certain(es)
    BY DEF Inv, Live, Fit
  <1>3. es'.pending = es.pending
    BY <1>1, <1>2, RunSettlementCoherent DEF SameWave, SettlesWave
  <1>4. QED
    BY <1>1, <1>3 DEF BusyPending, DirtyTogether, BusyCells, Busy

LEMMA QuietStep ==
  Passive /\ Inv /\ Inv' /\ Wave /\ Quiet /\ [Next]_vars => Quiet'
  <1> SUFFICES ASSUME Passive, Inv, Inv', Wave, Quiet, [Next]_vars
               PROVE  Quiet'
    OBVIOUS
  <1>1. \/ Expected /\ surprised' = surprised
        \/ UNCHANGED vars
    BY DEF Next, Unexpected, Passive
  <1>2. ~surprised'
    BY <1>1 DEF Quiet, vars
  <1>3. SUFFICES ASSUME active'
                 PROVE  (BusyPending /\ DirtyTogether)'
    BY <1>2 DEF Quiet
  <1>4. ASSUME NEW owned \in SUBSET Ownable, NEW written \in SUBSET Views,
               Mount(owned, written) \/ Replace(owned, written)
        PROVE  (BusyPending /\ DirtyTogether)'
    BY <1>4, RendersAfresh, RenderQuiet
  <1>5. CASE ~active
    BY <1>1, <1>3, <1>4, <1>5, MountsFirst
  <1>6. CASE active
    <2>1. Unsurprised /\ BusyPending /\ DirtyTogether
      BY <1>6 DEF Wave, Quiet
    <2>2. ASSUME NEW roots \in InputRoots, UpdateVariable(roots)
          PROVE  (BusyPending /\ DirtyTogether)'
      BY <2>1, <2>2, UpdateVariableQuiet
    <2>3. ASSUME NEW c \in Ownable, TakeName(c)
          PROVE  (BusyPending /\ DirtyTogether)'
      BY <2>1, <2>3, TakeNameQuiet
    <2>4. CASE ComputeNow
      BY <1>3, <1>6, <2>1, <2>4, ComputeNowQuiet
    <2>5. ASSUME NEW c \in Cells, NEW ch \in {"display", "variable"}, NEW outcome \in Terminal,
                 Finish(c, ch, outcome)
          PROVE  (BusyPending /\ DirtyTogether)'
      BY <1>3, <1>6, <2>1, <2>5, FinishQuiet DEF Drawn
    <2>6. CASE Microtask
      BY <1>6, <2>1, <2>6, MicrotaskQuiet
    <2>7. CASE Dispose
      BY <1>3, <2>7 DEF Dispose
    <2>8. CASE UNCHANGED vars
      BY <2>1, <2>8 DEF vars, BusyPending, DirtyTogether, BusyCells, Busy
    <2>9. QED
      BY <1>1, <1>4, <2>2, <2>3, <2>4, <2>5, <2>6, <2>7, <2>8 DEF Expected, Passive
  <1>7. QED
    BY <1>5, <1>6

\* In a notebook without controls and generators, whose sources can all be shown, and
\* whose host takes over only names of cells without references, a host that finds
\* both revisions equal finds nothing left to evaluate for a selected cell.
THEOREM SettledFresh == ASSUME Passive PROVE Spec => []SettledMeansFresh
  <1>1. Init => Quiet
    BY DEF Init, Quiet
  <1>2. Inv /\ Wave /\ Quiet => SettledMeansFresh
    <2> SUFFICES ASSUME Inv, Wave, Quiet, active, es.inputRevision = es.settledRevision,
                        NEW c \in Selected
                 PROVE  ~Working(c)
      BY DEF SettledMeansFresh
    <2>1. Unsurprised /\ BusyPending /\ es.pending = {}
      BY DEF Wave, Quiet, Inv, Live, Fit, Coherent
    <2>2. SUFFICES ASSUME NEW u \in Cells, c \in Reached({u}, Cells), Busy(u)
                   PROVE  FALSE
      BY DEF Working, Reaches, Passive
    <2>3. Reached({u}, Cells) \subseteq BusyCells
      BY <2>1, <2>2, BusyReached DEF Unsurprised, BusyCells
    <2>4. QED
      BY <2>1, <2>2, <2>3 DEF BusyPending
  <1>3. Spec => [](Inv /\ Wave)
    BY PassiveTame, WaveHolds
  <1>4. Inv /\ Wave /\ Quiet /\ [Next]_vars /\ Inv' => Quiet'
    BY QuietStep
  <1>5. QED
    BY <1>1, <1>2, <1>3, <1>4, PTL DEF Spec

=============================================================================
