------------------------ MODULE HeadlessEvaluation_proofs ------------------------
(***************************************************************************)
(* Proofs about HeadlessEvaluation, for every notebook, selection and set  *)
(* of requests.                                                            *)
(***************************************************************************)
EXTENDS HeadlessEvaluation, CellRuntime_proofs

\* A name that the host takes has its cell's display, or is a view's, whose cell
\* starts again: nothing that is shown outlives the name's own value.
Whole == Ownable \cap Apart \subseteq Views

-----------------------------------------------------------------------------
(* The values and the requests *)

Statuses == {"pending"} \cup Terminal

Stages == {"idle", "handle", "waiting", "resolved", "converting", "failed", "value", "stale", "refused"}

\* A request that names no cell yet has the first one, if there is any.
Places == Cells \cup {CHOOSE c \in Cells : TRUE}

Request ==
  [op : {"none", "read", "ready", "discover"}, stage : Stages, cell : Places,
   moved : BOOLEAN, behind : BOOLEAN]

\* The pairs of entries and requests.
ValueStates ==
  {v \in [entries : [Cells -> Statuses], request : [Requests -> Request]] :
     \A r \in Reads : v.request[r].op = "read"}

\* Stages in which a read relies on the entry it has found.
Relying == {"handle", "resolved", "converting"}

\* A read that relies on an entry, and has not seen it move, relies on a value.
Holds(v) ==
  \A r \in Reads : v.request[r].stage \in Relying /\ ~v.request[r].moved =>
    v.request[r].cell \in Cells /\ v.entries[v.request[r].cell] = "success"

\* From v to w nobody is answered.
Unanswered(v, w) ==
  /\ w \in ValueStates /\ Holds(w)
  /\ \A r \in Reads : w.request[r].stage = "value" => v.request[r].stage = "value"
  /\ \A r \in Checkpoints : \/ w.request[r] = v.request[r]
                            \/ w.request[r].op = "discover" /\ v.request[r].op = "discover"

LEMMA UnansweredChain ==
  ASSUME NEW u, NEW v, NEW w, Unanswered(u, v), Unanswered(v, w)
  PROVE  Unanswered(u, w)
  BY DEF Unanswered

LEMMA ReadsAreRequests ==
  /\ Reads \subseteq Requests /\ Checkpoints \subseteq Requests
  /\ \A r \in Reads : r \notin Checkpoints
  BY HeadlessAssumption DEF Requests

\* Requests that differ only in being behind, or in what a discovery has come to.
LEMMA SettlersFacts ==
  ASSUME NEW v \in ValueStates, Holds(v), NEW moved \in BOOLEAN
  PROVE  Unanswered(v, Settlers(v, moved)) /\ Settlers(v, moved).entries = v.entries
  <1> DEFINE chosen(r) == /\ v.request[r].op = "discover" /\ v.request[r].stage = "waiting"
                          /\ moved \/ \A c \in Cells : v.entries[c] # "pending"
             requests == [r \in Requests |->
                            IF chosen(r) THEN [v.request[r] EXCEPT !.stage = "resolved"] ELSE v.request[r]]
  <1>1. Settlers(v, moved) = [entries |-> v.entries, request |-> requests]
    <2>1. v = [entries |-> v.entries, request |-> v.request]
      BY DEF ValueStates
    <2>2. Settlers(v, moved) = [v EXCEPT !.request = requests]
      BY DEF Settlers
    <2> HIDE DEF requests
    <2>3. QED
      BY <2>1, <2>2
  <1>2. ASSUME NEW r \in Requests
        PROVE  /\ requests[r] \in Request /\ requests[r].op = v.request[r].op
               /\ requests[r] = v.request[r] \/ v.request[r].op = "discover"
    BY DEF ValueStates, Request, Stages
  <1>3. \A r \in Reads : requests[r] = v.request[r]
    BY <1>2, ReadsAreRequests DEF ValueStates
  <1>4. requests \in [Requests -> Request]
    BY <1>2
  <1> HIDE DEF requests, chosen
  <1>5. Settlers(v, moved) \in ValueStates
    BY <1>1, <1>3, <1>4 DEF ValueStates
  <1>6. Holds(Settlers(v, moved))
    BY <1>1, <1>3 DEF Holds
  <1>7. \A r \in Checkpoints : \/ requests[r] = v.request[r]
                               \/ requests[r].op = "discover" /\ v.request[r].op = "discover"
    BY <1>2, ReadsAreRequests
  <1>8. QED
    BY <1>1, <1>3, <1>5, <1>6, <1>7 DEF Unanswered

\* A reader relies on the new entry only if that is a value.
LEMMA ReaderFacts ==
  ASSUME NEW q \in Request, NEW status \in Statuses
  PROVE  LET n == Reader(q, status)
         IN  /\ n \in Request /\ n.op = q.op /\ n.cell = q.cell
             /\ n.stage = "value" => q.stage = "value"
             /\ n.stage \in Relying /\ ~n.moved => status = "success"
  <1>1. CASE q.stage = "waiting"
    <2> DEFINE stage == CASE q.moved            -> "failed"
                          [] status = "pending" -> "waiting"
                          [] status = "success" -> "resolved"
                          [] OTHER              -> "failed"
    <2>1. stage \in {"failed", "waiting", "resolved"} /\ (stage = "resolved" => status = "success")
      OBVIOUS
    <2>2. Reader(q, status) = [q EXCEPT !.stage = stage]
      BY <1>1 DEF Reader, Checked
    <2> HIDE DEF stage
    <2>3. QED
      BY <2>1, <2>2 DEF Request, Stages, Relying
  <1>2. CASE q.stage # "waiting"
    BY <1>2 DEF Reader, Request, Stages, Relying
  <1>3. QED
    BY <1>1, <1>2

\* Readers that have looked at the new entries of these cells, all with this status.
Looked(v, cells, status, requests) ==
  /\ requests \in [Requests -> Request]
  /\ \A r \in Checkpoints : requests[r] = v.request[r]
  /\ \A r \in Reads :
       /\ requests[r].op = "read"
       /\ requests[r].stage = "value" => v.request[r].stage = "value"
       /\ requests[r].stage \in Relying /\ ~requests[r].moved =>
            IF requests[r].cell \in cells THEN status = "success"
            ELSE requests[r].cell \in Cells /\ v.entries[requests[r].cell] = "success"

LEMMA LookedFacts ==
  ASSUME NEW v \in ValueStates, NEW cells \in SUBSET Cells, NEW status \in Statuses, NEW requests,
         Looked(v, cells, status, requests)
  PROVE  LET w == [entries |-> [c \in Cells |-> IF c \in cells THEN status ELSE v.entries[c]],
                   request |-> requests]
         IN  w \in ValueStates /\ Holds(w) /\ Unanswered(v, w)
  <1> DEFINE renewed == [c \in Cells |-> IF c \in cells THEN status ELSE v.entries[c]]
             w == [entries |-> renewed, request |-> requests]
  <1>1. renewed \in [Cells -> Statuses]
    BY DEF ValueStates
  <1>2. \A c \in Cells : renewed[c] = IF c \in cells THEN status ELSE v.entries[c]
    OBVIOUS
  <1>3. \A r \in Reads : requests[r].stage \in Relying /\ ~requests[r].moved => requests[r].cell \in Cells
    BY DEF Looked
  <1> HIDE DEF renewed
  <1>4. w \in ValueStates
    BY <1>1 DEF Looked, ValueStates
  <1>5. Holds(w)
    BY <1>2, <1>3 DEF Looked, Holds
  <1>6. QED
    BY <1>4, <1>5 DEF Looked, Unanswered, renewed

LEMMA SetValueFacts ==
  ASSUME NEW v \in ValueStates, Holds(v), NEW c \in Cells, NEW status \in Statuses
  PROVE  /\ Unanswered(v, SetValue(v, c, status))
         /\ SetValue(v, c, status).entries = [v.entries EXCEPT ![c] = status]
  <1> DEFINE requests == [r \in Requests |->
               IF r \in Reads /\ v.request[r].cell = c THEN Reader(v.request[r], status) ELSE v.request[r]]
             w == [entries |-> [v.entries EXCEPT ![c] = status], request |-> requests]
  <1>1. SetValue(v, c, status) = Settlers(w, FALSE)
    BY DEF SetValue
  <1>2. Looked(v, {c}, status, requests)
    <2>1. \A r \in Requests : v.request[r] \in Request
      BY DEF ValueStates
    <2>2. ASSUME NEW r \in Requests, r \in Reads, v.request[r].cell = c
          PROVE  LET n == requests[r]
                 IN  /\ n \in Request /\ n.op = v.request[r].op /\ n.cell = c
                     /\ n.stage = "value" => v.request[r].stage = "value"
                     /\ n.stage \in Relying /\ ~n.moved => status = "success"
      BY <2>1, <2>2, ReaderFacts
    <2>3. \A r \in Requests : ~(r \in Reads /\ v.request[r].cell = c) => requests[r] = v.request[r]
      OBVIOUS
    <2>4. \A r \in Requests : requests[r] \in Request
      BY <2>1, <2>2, <2>3
    <2>5. requests \in [Requests -> Request]
      BY <2>4
    <2> HIDE DEF requests
    <2>6. \A r \in Checkpoints : requests[r] = v.request[r]
      BY <2>3, ReadsAreRequests
    <2>7. ASSUME NEW r \in Reads
          PROVE  /\ requests[r].op = "read"
                 /\ requests[r].stage = "value" => v.request[r].stage = "value"
                 /\ requests[r].stage \in Relying /\ ~requests[r].moved =>
                      IF requests[r].cell \in {c} THEN status = "success"
                      ELSE requests[r].cell \in Cells /\ v.entries[requests[r].cell] = "success"
      BY <2>2, <2>3, ReadsAreRequests DEF ValueStates, Holds
    <2>8. QED
      BY <2>5, <2>6, <2>7 DEF Looked
  <1>3. [v.entries EXCEPT ![c] = status] = [d \in Cells |-> IF d \in {c} THEN status ELSE v.entries[d]]
    BY DEF ValueStates
  <1> HIDE DEF requests
  <1>4. w \in ValueStates /\ Holds(w) /\ Unanswered(v, w)
    <2> DEFINE looked == [entries |-> [d \in Cells |-> IF d \in {c} THEN status ELSE v.entries[d]],
                          request |-> requests]
    <2>1. {c} \in SUBSET Cells
      OBVIOUS
    <2>2. looked \in ValueStates /\ Holds(looked) /\ Unanswered(v, looked)
      BY <1>2, <2>1, LookedFacts
    <2>3. looked = w
      BY <1>3
    <2> HIDE DEF looked, w
    <2>4. QED
      BY <2>2, <2>3
  <1>5. w.entries = [v.entries EXCEPT ![c] = status]
    OBVIOUS
  <1> HIDE DEF w
  <1>6. QED
    BY <1>1, <1>4, <1>5, SettlersFacts, UnansweredChain

LEMMA NewEpochFacts ==
  ASSUME NEW v \in ValueStates, Holds(v), NEW cells \in SUBSET Cells
  PROVE  /\ Unanswered(v, NewEpoch(v, cells))
         /\ NewEpoch(v, cells).entries = [c \in Cells |-> IF c \in cells THEN "pending" ELSE v.entries[c]]
  <1> DEFINE requests == [r \in Requests |->
               IF r \in Reads /\ v.request[r].stage = "waiting" THEN [v.request[r] EXCEPT !.stage = "failed"]
               ELSE IF r \in Reads /\ v.request[r].cell \in cells THEN Reader(v.request[r], "pending")
               ELSE v.request[r]]
             renewed == [c \in Cells |-> IF c \in cells THEN "pending" ELSE v.entries[c]]
             w == [entries |-> renewed, request |-> requests]
  <1>1. NewEpoch(v, cells) = Settlers(w, TRUE)
    BY DEF NewEpoch
  <1>2. Looked(v, cells, "pending", requests)
    <2>1. \A r \in Requests : v.request[r] \in Request
      BY DEF ValueStates
    <2>2. "pending" \in Statuses /\ "pending" # "success"
      BY DEF Statuses
    <2>3. ASSUME NEW r \in Requests, r \in Reads, v.request[r].stage = "waiting"
          PROVE  requests[r] \in Request /\ requests[r].op = v.request[r].op /\ requests[r].stage = "failed"
      BY <2>1, <2>3 DEF Request, Stages
    <2>4. ASSUME NEW r \in Requests, r \in Reads, v.request[r].stage # "waiting", v.request[r].cell \in cells
          PROVE  LET n == requests[r]
                 IN  /\ n \in Request /\ n.op = v.request[r].op
                     /\ n.stage = "value" => v.request[r].stage = "value"
                     /\ ~(n.stage \in Relying /\ ~n.moved)
      BY <2>1, <2>2, <2>4, ReaderFacts
    <2>5. \A r \in Requests :
            ~(r \in Reads /\ (v.request[r].stage = "waiting" \/ v.request[r].cell \in cells)) =>
               requests[r] = v.request[r]
      OBVIOUS
    <2>6. \A r \in Requests : requests[r] \in Request
      BY <2>1, <2>3, <2>4, <2>5
    <2>7. requests \in [Requests -> Request]
      BY <2>6
    <2> HIDE DEF requests
    <2>8. \A r \in Checkpoints : requests[r] = v.request[r]
      BY <2>5, ReadsAreRequests
    <2>9. ASSUME NEW r \in Reads
          PROVE  /\ requests[r].op = "read"
                 /\ requests[r].stage = "value" => v.request[r].stage = "value"
                 /\ requests[r].stage \in Relying /\ ~requests[r].moved =>
                      IF requests[r].cell \in cells THEN "pending" = "success"
                      ELSE requests[r].cell \in Cells /\ v.entries[requests[r].cell] = "success"
      <3>1. r \in Requests /\ v.request[r].op = "read"
        BY ReadsAreRequests DEF ValueStates
      <3>2. CASE v.request[r].stage = "waiting"
        BY <2>3, <3>1, <3>2 DEF Relying
      <3>3. CASE v.request[r].stage # "waiting" /\ v.request[r].cell \in cells
        BY <2>4, <3>1, <3>3
      <3>4. CASE v.request[r].stage # "waiting" /\ v.request[r].cell \notin cells
        BY <2>5, <3>1, <3>4 DEF Holds
      <3>5. QED
        BY <3>2, <3>3, <3>4
    <2>10. QED
      BY <2>7, <2>8, <2>9 DEF Looked
  <1> HIDE DEF requests
  <1>3. w \in ValueStates /\ Holds(w) /\ Unanswered(v, w)
    BY <1>2, LookedFacts DEF Statuses
  <1>4. w.entries = renewed
    OBVIOUS
  <1> HIDE DEF w
  <1>5. QED
    BY <1>1, <1>3, <1>4, SettlersFacts, UnansweredChain

\* A frame makes the values of several cells pending, one after another.
PendingEach(v, g) ==
  g = [cells \in SUBSET Cells |->
         IF cells = {} THEN v
         ELSE LET c == CHOOSE c \in cells : TRUE IN SetValue(g[cells \ {c}], c, "pending")]

LEMMA PendingEachFacts ==
  ASSUME NEW v \in ValueStates, Holds(v), NEW T \in SUBSET Cells
  PROVE  LET set == CHOOSE g : PendingEach(v, g)
         IN  /\ Unanswered(v, set[T])
             /\ set[T].entries = [c \in Cells |-> IF c \in T THEN "pending" ELSE v.entries[c]]
  <1> DEFINE V == {w \in ValueStates : Holds(w)}
             Op == [p \in Cells \X V |-> SetValue(p[2], p[1], "pending")]
             set == CHOOSE g : PendingEach(v, g)
  <1>1. ASSUME NEW c \in Cells, NEW w \in V
        PROVE  SetValue(w, c, "pending") \in V /\ Op[<<c, w>>] = SetValue(w, c, "pending")
    BY SetValueFacts DEF Statuses, Unanswered
  <1>2. Foldable(Cells, V, v, Op)
    BY <1>1, NotebookAssumption DEF Foldable
  <1> HIDE DEF Op, V
  <1>3. PICK f : Folds(Cells, V, v, Op, f)
    BY <1>2, FoldExists
  <1>4. ASSUME NEW U \in (SUBSET Cells) \ {{}}
        PROVE  f[U] = SetValue(f[U \ {Pick(U)}], Pick(U), "pending")
    <2>1. Pick(U) \in Cells /\ f[U \ {Pick(U)}] \in V
      BY <1>3 DEF Pick, Folds
    <2>2. QED
      BY <1>1, <1>3, <2>1 DEF Folds
  <1>5. PendingEach(v, f)
    BY <1>3, <1>4 DEF PendingEach, Pick, Folds
  <1>6. PendingEach(v, set)
    BY <1>5
  <1> HIDE DEF set
  <1>7. set[{}] = v
    BY <1>6 DEF PendingEach
  <1>8. \A U \in (SUBSET Cells) \ {{}} : set[U] = SetValue(set[U \ {Pick(U)}], Pick(U), "pending")
    BY <1>6 DEF PendingEach, Pick
  <1> DEFINE Good == {U \in SUBSET Cells :
                /\ Unanswered(v, set[U])
                /\ set[U].entries = [c \in Cells |-> IF c \in U THEN "pending" ELSE v.entries[c]]}
  <1>9. {} \in Good
    <2>1. v.entries = [c \in Cells |-> IF c \in {} THEN "pending" ELSE v.entries[c]]
      BY DEF ValueStates
    <2>2. QED
      BY <1>7, <2>1 DEF Unanswered
  <1>10. ASSUME NEW U \in (SUBSET Cells) \ {{}}, U \ {Pick(U)} \in Good
         PROVE  U \in Good
    <2> DEFINE c == Pick(U)
               w == set[U \ {c}]
    <2>1. c \in U /\ c \in Cells
      BY DEF Pick
    <2>2. Unanswered(v, w) /\ w.entries = [d \in Cells |-> IF d \in U \ {c} THEN "pending" ELSE v.entries[d]]
      BY <1>10
    <2>3. set[U] = SetValue(w, c, "pending")
      BY <1>8
    <2> HIDE DEF c, w
    <2>4. w \in ValueStates /\ Holds(w)
      BY <2>2 DEF Unanswered
    <2>5. Unanswered(w, set[U]) /\ set[U].entries = [w.entries EXCEPT ![c] = "pending"]
      BY <2>1, <2>3, <2>4, SetValueFacts DEF Statuses
    <2>6. Unanswered(v, set[U])
      BY <2>2, <2>5, UnansweredChain
    <2>7. set[U].entries = [d \in Cells |-> IF d \in U THEN "pending" ELSE v.entries[d]]
      BY <2>1, <2>2, <2>5
    <2>8. QED
      BY <2>6, <2>7
  <1>11. \A U \in SUBSET Cells : U \in Good
    <2> HIDE DEF Good
    <2>1. QED
      BY <1>9, <1>10, NotebookAssumption, SubsetInduction
  <1>12. QED
    BY <1>11 DEF set

-----------------------------------------------------------------------------
(* What a step that settles does to the requests *)

\* No read is answered, and who is told that everything is ready is told the truth.
Truthful ==
  /\ \A r \in Reads : request'[r].stage = "value" => request[r].stage = "value"
  /\ \A r \in Checkpoints :
       request'[r].op = "ready" /\ request'[r].stage = "resolved" /\ request[r].stage # "resolved" =>
         Settled(es') /\ Diagnosed(errors') = {}

\* Requests that differ in nothing but what waits before them.
LEMMA QueuedFacts ==
  ASSUME NEW requests \in [Requests -> Request], request \in [Requests -> Request]
  PROVE  /\ Queued(requests) \in [Requests -> Request]
         /\ \A r \in Requests :
              /\ Queued(requests)[r].op = requests[r].op /\ Queued(requests)[r].stage = requests[r].stage
              /\ Queued(requests)[r].cell = requests[r].cell /\ Queued(requests)[r].moved = requests[r].moved
  <1> DEFINE late == es'.settlement # NoRevision
  <1>1. late \in BOOLEAN
    OBVIOUS
  <1>2. Queued(requests) =
          [r \in Requests |-> IF requests[r].stage = "failed" /\ request[r].stage # "failed"
                              THEN [requests[r] EXCEPT !.behind = late] ELSE requests[r]]
    BY DEF Queued
  <1> HIDE DEF late
  <1>3. ASSUME NEW r \in Requests
        PROVE  /\ Queued(requests)[r] \in Request
               /\ Queued(requests)[r].op = requests[r].op /\ Queued(requests)[r].stage = requests[r].stage
               /\ Queued(requests)[r].cell = requests[r].cell /\ Queued(requests)[r].moved = requests[r].moved
    <2>1. requests[r] \in Request
      OBVIOUS
    <2>2. \/ Queued(requests)[r] = [requests[r] EXCEPT !.behind = late]
          \/ Queued(requests)[r] = requests[r]
      BY <1>2
    <2>3. QED
      BY <1>1, <2>1, <2>2 DEF Request
  <1>4. QED
    BY <1>2, <1>3

LEMMA ReadyFacts ==
  ASSUME NEW q \in Request, NEW s, NEW e
  PROVE  LET n == Ready(q, s, e)
         IN  /\ n \in Request /\ n.op = q.op /\ n.cell = q.cell /\ n.moved = q.moved
             /\ n.stage # "value"
             /\ n.stage = "resolved" => Settled(s) /\ Diagnosed(e) = {}
  <1> DEFINE stage == IF ~Settled(s) THEN "waiting" ELSE IF Diagnosed(e) # {} THEN "failed" ELSE "resolved"
  <1>1. /\ stage \in {"waiting", "failed", "resolved"}
        /\ stage = "resolved" => Settled(s) /\ Diagnosed(e) = {}
    OBVIOUS
  <1>2. Ready(q, s, e) = [q EXCEPT !.stage = stage]
    BY DEF Ready
  <1> HIDE DEF stage
  <1>3. QED
    BY <1>1, <1>2 DEF Request, Stages

LEMMA SettleFacts ==
  ASSUME Values \in ValueStates, NEW v, Unanswered(Values, v), Settle(v)
  PROVE  entries' = v.entries /\ Values' \in ValueStates /\ Holds(Values)' /\ Truthful
  <1> DEFINE told(r) == v.request[r].op = "ready" /\ v.request[r].stage = "waiting"
             looked == [r \in Requests |-> IF told(r) THEN Ready(v.request[r], es', errors') ELSE v.request[r]]
  <1>1. v \in ValueStates /\ Holds(v) /\ request \in [Requests -> Request]
    BY DEF Unanswered, ValueStates, Values
  <1>2. Look(v) = [v EXCEPT !.request = looked]
    BY DEF Look
  <1>3. ASSUME NEW r \in Requests
        PROVE  /\ looked[r] \in Request /\ looked[r].op = v.request[r].op
               /\ ~told(r) => looked[r] = v.request[r]
               /\ told(r) /\ looked[r].stage = "resolved" => Settled(es') /\ Diagnosed(errors') = {}
    BY <1>1, ReadyFacts DEF ValueStates
  <1>4. looked \in [Requests -> Request]
    BY <1>3
  <1>5. \A r \in Reads : looked[r] = v.request[r] /\ v.request[r].op = "read"
    BY <1>1, <1>3, ReadsAreRequests DEF ValueStates
  <1> HIDE DEF looked
  <1>6. entries' = v.entries /\ request' = Queued(looked)
    <2>1. Look(v).entries = v.entries /\ Look(v).request = looked
      BY <1>1, <1>2 DEF ValueStates
    <2>2. QED
      BY <2>1 DEF Settle, Assign
  <1>7. /\ request' \in [Requests -> Request]
        /\ \A r \in Requests :
             /\ request'[r].op = looked[r].op /\ request'[r].stage = looked[r].stage
             /\ request'[r].cell = looked[r].cell /\ request'[r].moved = looked[r].moved
    BY <1>1, <1>4, <1>6, QueuedFacts
  <1>8. Values' \in ValueStates
    BY <1>1, <1>5, <1>6, <1>7, ReadsAreRequests DEF ValueStates, Values
  <1>9. Holds(Values)'
    BY <1>1, <1>5, <1>6, <1>7, ReadsAreRequests DEF Holds, Values
  <1>10. ASSUME NEW r \in Reads, request'[r].stage = "value"
         PROVE  request[r].stage = "value"
    BY <1>5, <1>7, <1>10, ReadsAreRequests DEF Unanswered, Values
  <1>11. ASSUME NEW r \in Checkpoints, request'[r].op = "ready", request'[r].stage = "resolved",
                request[r].stage # "resolved"
         PROVE  Settled(es') /\ Diagnosed(errors') = {}
    <2>1. r \in Requests /\ looked[r].op = "ready" /\ looked[r].stage = "resolved"
      BY <1>7, <1>11, ReadsAreRequests
    <2>2. v.request[r] = request[r]
      BY <1>3, <2>1 DEF Unanswered, Values
    <2>3. told(r)
      BY <1>3, <1>11, <2>1, <2>2
    <2>4. QED
      BY <1>3, <2>1, <2>3
  <1>12. QED
    BY <1>6, <1>8, <1>9, <1>10, <1>11 DEF Truthful

-----------------------------------------------------------------------------
(* The invariant *)

Working(p) == \E ch \in Drawn : p[ch] \in {"dirty", "running"}
Erred(p) == \E ch \in Drawn : p[ch] = "error"

\* Which variables the cell has, and what they know of each other: they become
\* dirty together, its name's follows its display, and a constant has no error.
Shaped(c, p, owned) ==
  /\ p["variable"] # "unobserved" <=> c \in Exposing
  /\ c \in Broken => p["display"] = "unobserved"
  /\ c \notin Broken /\ ~owned => p["display"] # "unobserved"
  /\ owned /\ c \in Apart => p["display"] = "unobserved"
  /\ \A ch, h \in Drawn : p[ch] = "dirty" /\ p[h] # "unobserved" => p[h] = "dirty"
  /\ p["variable"] \in Terminal /\ p["display"] # "unobserved" => p["display"] = p["variable"]
  /\ owned => ~Erred(p)

\* What the value and the diagnostics of the cell tell of its variables, and what
\* a selected cell that waits is pending for.
Accounted(c, p, entry, diagnoses, pending) ==
  /\ c \notin Broken /\ entry # "pending" => p[ValueChannel(c)] = entry
  /\ c \notin Broken /\ diagnoses # {} => Erred(p)
  /\ c \in Broken => diagnoses = {"analysis"}
  /\ c \in Selected =>
       /\ Working(p) => pending
       /\ c \notin Broken /\ entry = "pending" => pending
       /\ c \notin Broken /\ diagnoses = {} /\ Erred(p) => pending

Stands(c, p, owned, entry, diagnoses, pending) ==
  Shaped(c, p, owned) /\ Accounted(c, p, entry, diagnoses, pending)

CellsStand ==
  \A c \in Cells : Stands(c, phase[c], c \in detached, entries[c], errors[c], c \in es.pending)

\* What is to be evaluated takes along what depends on it, but for constants.
Spreading ==
  \A u \in Cells, d \in Cells \ detached : u \in Upstream[d] /\ Working(phase[u]) => Working(phase[d])

Diagnoses == SUBSET {"analysis", "evaluation", "variable"}

HeadlessTyped ==
  /\ closed \in BOOLEAN /\ detached \in SUBSET Ownable /\ errors \in [Cells -> Diagnoses]
  /\ Values \in ValueStates

Running == Evaluating /\ Regular(es) /\ CellsStand /\ Spreading

HeadlessInv ==
  /\ HeadlessTyped /\ Holds(Values)
  /\ ~closed => Running
  /\ closed => phase = Unrun /\ es.settlement = NoRevision

LEMMA DrawnOnes == /\ "display" \in Drawn /\ "variable" \in Drawn
                   /\ \A ch \in Drawn : ch = "display" \/ ch = "variable"
                   /\ \A c \in Cells : ValueChannel(c) \in Drawn
  BY DEF Drawn, ValueChannel

\* An affected cell that is to be evaluated again, perhaps as a constant from now on.
LEMMA StandsRenewed ==
  ASSUME NEW c \in Cells \ Broken, NEW p \in [Drawn -> Marks], NEW q \in [Drawn -> Marks],
         NEW owned \in BOOLEAN, NEW taken \in BOOLEAN, Shaped(c, p, owned),
         \A ch \in Drawn : q[ch] = IF p[ch] = "unobserved" THEN "unobserved" ELSE "dirty",
         owned => taken, taken /\ c \in Apart => owned,
         NEW pending \in BOOLEAN, c \in Selected => pending
  PROVE  Stands(c, q, taken, "pending", {}, pending)
  BY DrawnOnes DEF Stands, Shaped, Accounted, Erred, Working, Terminal

\* An affected cell that a constant keeps from being evaluated.
LEMMA StandsAffected ==
  ASSUME NEW c \in Cells \ Broken, NEW p, NEW owned, Shaped(c, p, owned),
         NEW pending \in BOOLEAN, c \in Selected => pending
  PROVE  Stands(c, p, owned, "pending", {}, pending)
  BY DEF Stands, Accounted

\* A cell that has begun to wait.
LEMMA StandsPending ==
  ASSUME NEW c \in Cells, NEW p, NEW owned, NEW entry, NEW diagnoses,
         NEW before \in BOOLEAN, NEW after \in BOOLEAN,
         Stands(c, p, owned, entry, diagnoses, before), before => after
  PROVE  Stands(c, p, owned, entry, diagnoses, after)
  BY DEF Stands, Accounted

\* A frame starts what is dirty, whose value and errors are gone.
LEMMA StandsStarted ==
  ASSUME NEW c \in Cells, NEW p \in [Drawn -> Marks], NEW q \in [Drawn -> Marks], NEW owned \in BOOLEAN,
         NEW entry \in Statuses, NEW diagnoses \in Diagnoses,
         NEW before \in BOOLEAN, NEW after \in BOOLEAN,
         Stands(c, p, owned, entry, diagnoses, before),
         before => after, c \in Selected /\ (\E ch \in Drawn : p[ch] = "dirty") => after,
         \A ch \in Drawn : q[ch] = IF p[ch] = "dirty" THEN "running" ELSE p[ch]
  PROVE  Stands(c, q, owned, IF p[ValueChannel(c)] = "dirty" THEN "pending" ELSE entry,
                IF p["display"] = "dirty" THEN {} ELSE diagnoses, after)
  <1> DEFINE e == IF p[ValueChannel(c)] = "dirty" THEN "pending" ELSE entry
             d == IF p["display"] = "dirty" THEN {} ELSE diagnoses
  <1>1. Shaped(c, p, owned) /\ Accounted(c, p, entry, diagnoses, before)
    BY DEF Stands
  <1>2. Shaped(c, q, owned)
    BY <1>1, DrawnOnes DEF Shaped, Erred, Terminal
  <1>3. Working(p) <=> Working(q)
    BY DEF Working
  <1>4. Erred(p) <=> Erred(q)
    BY DEF Erred
  <1>5. c \notin Broken /\ e # "pending" => q[ValueChannel(c)] = e
    BY <1>1, DrawnOnes DEF Accounted
  <1>6. c \notin Broken /\ d # {} => Erred(q)
    BY <1>1, <1>4 DEF Accounted
  <1>7. c \in Broken => d = {"analysis"}
    BY <1>1 DEF Accounted, Shaped
  <1>8. c \in Selected => /\ Working(q) => after
                          /\ c \notin Broken /\ e = "pending" => after
                          /\ c \notin Broken /\ d = {} /\ Erred(q) => after
    BY <1>1, <1>3, <1>4, DrawnOnes DEF Accounted
  <1> HIDE DEF e, d
  <1>9. Accounted(c, q, e, d, after)
    BY <1>5, <1>6, <1>7, <1>8 DEF Accounted
  <1>10. QED
    BY <1>2, <1>9 DEF Stands, e, d

\* What an evaluation that ends may leave as its outcome.
Outcome(c, p, owned, ch, outcome) ==
  /\ p[ch] = "running" /\ outcome \in Terminal
  /\ owned => outcome = "success"
  /\ ch = "variable" => /\ p["display"] \notin {"dirty", "running"}
                        /\ ~owned => outcome = p["display"]

LEMMA StandsEnded ==
  ASSUME NEW c \in Cells, NEW p \in [Drawn -> Marks], NEW q \in [Drawn -> Marks], NEW owned \in BOOLEAN,
         NEW entry \in Statuses, NEW diagnoses \in Diagnoses, NEW reported \in Diagnoses,
         NEW before \in BOOLEAN, NEW after \in BOOLEAN, NEW ch \in Drawn, NEW outcome,
         Stands(c, p, owned, entry, diagnoses, before), Outcome(c, p, owned, ch, outcome),
         \A h \in Drawn : q[h] = IF h = ch THEN outcome ELSE p[h],
         outcome = "error" => reported # {}, outcome # "error" => reported = diagnoses,
         c \in Selected /\ ~after => \A h \in Drawn : q[h] # "running"
  PROVE  Stands(c, q, owned, IF ch = ValueChannel(c) THEN outcome ELSE entry, reported, after)
  <1> DEFINE e == IF ch = ValueChannel(c) THEN outcome ELSE entry
  <1>1. Shaped(c, p, owned) /\ Accounted(c, p, entry, diagnoses, before)
    BY DEF Stands
  <1>2. c \notin Broken /\ \A h \in Drawn : q[h] # "dirty" /\ p[h] # "dirty"
    <2>1. c \notin Broken
      BY <1>1, NotebookAssumption, DrawnOnes DEF Shaped, Outcome
    <2>2. \A h \in Drawn : p[h] # "dirty"
      BY <1>1 DEF Shaped, Outcome
    <2>3. QED
      BY <2>1, <2>2 DEF Outcome, Terminal
  <1>3. outcome \in Terminal /\ outcome # "unobserved"
    BY DEF Outcome, Terminal
  <1>4. ch = "display" => p["variable"] \notin Terminal
    BY <1>1 DEF Shaped, Outcome, Terminal
  <1>5. Erred(q) => outcome = "error" \/ Erred(p)
    BY DEF Erred
  <1>6. Shaped(c, q, owned)
    <2>1. /\ q["variable"] # "unobserved" <=> c \in Exposing
          /\ ~owned => q["display"] # "unobserved"
          /\ owned /\ c \in Apart => q["display"] = "unobserved"
      BY <1>1, <1>2, <1>3, DrawnOnes DEF Shaped, Outcome
    <2>2. owned => ~Erred(q)
      BY <1>1, <1>5 DEF Shaped, Outcome
    <2>3. q["variable"] \in Terminal /\ q["display"] # "unobserved" => q["display"] = q["variable"]
      <3>1. CASE ch = "display"
        BY <1>4, <3>1, DrawnOnes
      <3>2. CASE ch = "variable"
        <4>1. q["variable"] = outcome /\ q["display"] = p["display"]
          BY <3>2, DrawnOnes
        <4>2. CASE ~owned
          BY <3>2, <4>1, <4>2 DEF Outcome
        <4>3. CASE owned
          BY <1>1, <3>2, <4>1, <4>3, DrawnOnes DEF Outcome, Shaped, Erred, Marks, Terminal
        <4>4. QED
          BY <4>2, <4>3
      <3>3. QED
        BY <3>1, <3>2, DrawnOnes
    <2>4. QED
      BY <1>2, <2>1, <2>2, <2>3 DEF Shaped
  <1>7. e # "pending" => q[ValueChannel(c)] = e
    BY <1>1, <1>2, DrawnOnes DEF Accounted
  <1>8. reported # {} => Erred(q)
    <2>1. CASE outcome = "error"
      BY <2>1 DEF Erred
    <2>2. CASE outcome # "error"
      <3>1. reported # {} => Erred(p)
        BY <1>1, <1>2, <2>2 DEF Accounted
      <3>2. QED
        BY <3>1 DEF Erred, Outcome
    <2>3. QED
      BY <2>1, <2>2
  <1>9. ASSUME c \in Selected, ~after
        PROVE  ~Working(q) /\ e # "pending" /\ ~(reported = {} /\ Erred(q))
    <2>1. ~Working(q)
      BY <1>2, <1>9 DEF Working
    <2>2. e # "pending"
      <3>1. CASE ch = ValueChannel(c)
        BY <1>3, <3>1 DEF Terminal
      <3>2. CASE ch # ValueChannel(c)
        <4>1. ch = "display" /\ c \in Exposing
          <5>1. c \notin Exposing => ch = "display"
            BY <1>1, DrawnOnes DEF Shaped, Outcome
          <5>2. QED
            BY <3>2, <5>1, DrawnOnes DEF ValueChannel
        <4>2. p["variable"] \in {"dirty", "running"}
          BY <1>1, <1>4, <4>1, DrawnOnes DEF Shaped, Marks
        <4>3. QED
          BY <2>1, <4>1, <4>2, DrawnOnes DEF Working
      <3>3. QED
        BY <3>1, <3>2
    <2>3. ASSUME reported = {}, Erred(q)
          PROVE  FALSE
      <3>1. outcome = "success"
        BY <2>3 DEF Outcome, Terminal
      <3>2. PICK h \in Drawn : q[h] = "error"
        BY <2>3 DEF Erred
      <3>3. h # ch /\ p[h] = "error"
        BY <3>1, <3>2
      <3>4. ~owned
        BY <1>1, <3>3 DEF Shaped, Erred
      <3>5. CASE ch = "variable"
        BY <3>1, <3>3, <3>4, <3>5, DrawnOnes DEF Outcome
      <3>6. CASE ch = "display"
        BY <1>4, <3>3, <3>6, DrawnOnes DEF Terminal
      <3>7. QED
        BY <3>5, <3>6, DrawnOnes
    <2>4. QED
      BY <2>1, <2>2, <2>3
  <1> HIDE DEF e
  <1>10. Accounted(c, q, e, reported, after)
    BY <1>2, <1>7, <1>8, <1>9 DEF Accounted
  <1>11. QED
    BY <1>6, <1>10 DEF Stands, e

\* A cell of a render.
LEMMA StandsRendered ==
  ASSUME NEW c \in Cells, NEW owned \in SUBSET Ownable, NEW pending \in BOOLEAN,
         c \in Selected \ Broken => pending
  PROVE  Stands(c, Shown(owned)[c], c \in owned, IF c \in Broken THEN "error" ELSE "pending",
                IF c \in Broken THEN {"analysis"} ELSE {}, pending)
  <1> DEFINE p == Shown(owned)[c]
  <1>1. \A ch \in Drawn : p[ch] = IF ch \in Observed(c, owned) THEN "dirty" ELSE "unobserved"
    BY DEF Shown
  <1>2. /\ Observed(c, owned) \subseteq Drawn
        /\ c \in Broken => Observed(c, owned) = {}
        /\ c \in Exposing => "variable" \in Observed(c, owned)
        /\ c \notin Exposing => "variable" \notin Observed(c, owned)
        /\ c \in owned => Observed(c, owned) = {"variable"}
        /\ c \notin owned \cup Broken => "display" \in Observed(c, owned)
    BY ObservedFacts
  <1> HIDE DEF p
  <1>3. Shaped(c, p, c \in owned)
    BY <1>1, <1>2, DrawnOnes DEF Shaped, Erred, Terminal
  <1>4. Accounted(c, p, IF c \in Broken THEN "error" ELSE "pending",
                  IF c \in Broken THEN {"analysis"} ELSE {}, pending)
    BY <1>1, <1>2 DEF Accounted, Working, Erred
  <1>5. QED
    BY <1>3, <1>4 DEF Stands, p

-----------------------------------------------------------------------------
(* Updates of variables *)

\* What a change affects is closed, and contains what its dependents lead to.
LEMMA AffectedFacts ==
  ASSUME NEW roots \in SUBSET (Cells \ Broken)
  PROVE  /\ roots \subseteq Affected(roots) /\ Affected(roots) \subseteq Cells \ Broken
         /\ \A through : \A start \in SUBSET Affected(roots) : Reached(start, through) \subseteq Affected(roots)
         /\ \A c \in Affected(roots) : Dependents(c) \subseteq Affected(roots)
  <1>1. roots \in SUBSET Cells
    OBVIOUS
  <1>2. Affected(roots) = Reached(roots, Cells)
    BY DEF Affected
  <1>3. roots \subseteq Affected(roots)
    BY <1>1, <1>2, ReachedClosed
  <1>4. Affected(roots) \subseteq Cells
    BY <1>1, <1>2, ReachedClosed
  <1>5. \A e \in Affected(roots), d \in Cells : e \in Upstream[d] => d \in Affected(roots)
    BY <1>1, <1>2, <1>4, ReachedClosed
  <1>6. Affected(roots) \subseteq Cells \ Broken
    <2> DEFINE sound == Cells \ Broken
    <2>1. sound \in SUBSET Cells /\ roots \subseteq sound
      OBVIOUS
    <2>2. \A e \in sound \cap Cells, d \in Cells : e \in Upstream[d] => d \in sound
      BY NotebookAssumption
    <2> HIDE DEF sound
    <2>3. Reached(roots, Cells) \subseteq sound
      BY <2>1, <2>2, ReachedLeast
    <2>4. QED
      BY <1>2, <2>3 DEF sound
  <1>7. ASSUME NEW start \in SUBSET Affected(roots), NEW through
        PROVE  Reached(start, through) \subseteq Affected(roots)
    <2>1. Affected(roots) \in SUBSET Cells
      BY <1>4
    <2>2. QED
      BY <1>5, <2>1, ReachedLeast
  <1>8. QED
    BY <1>3, <1>5, <1>6, <1>7 DEF Dependents

\* The variables that become dirty: they are observed, all of a cell or none, and
\* those of its dependents with them.
Wave(V, affected, owned) ==
  /\ \A c \in Cells, ch \in Drawn : <<c, ch>> \in V => c \in affected /\ phase[c][ch] # "unobserved"
  /\ \A c \in Cells, ch, h \in Drawn : <<c, ch>> \in V /\ phase[c][h] # "unobserved" => <<c, h>> \in V
  /\ \A c \in Cells, d \in Cells \ owned, ch \in Drawn :
       <<c, ch>> \in V /\ c \in Upstream[d] => \E h \in Drawn : <<d, h>> \in V

\* A constant is not reevaluated, nor is what lies behind it.
LEMMA ReevaluatedWave ==
  ASSUME HeadlessInv, ~closed, NEW roots \in SUBSET (Cells \ Broken),
         NEW start \in SUBSET Affected(roots)
  PROVE  /\ Wave(Reevaluated(start), Affected(roots), detached)
         /\ \A c \in start \ detached : <<c, "display">> \in Reevaluated(start)
  <1> DEFINE R == Reached(start, Cells \ detached)
             V == Reevaluated(start)
  <1>1. R \subseteq Affected(roots) /\ Affected(roots) \subseteq Cells \ Broken
    BY AffectedFacts
  <1>2. start \in SUBSET Cells
    BY <1>1
  <1>3. start \subseteq R /\ \A e \in R \ detached, d \in Cells : e \in Upstream[d] => d \in R
    BY <1>1, <1>2, ReachedClosed
  <1>4. \A c \in Cells : Shaped(c, phase[c], c \in detached)
    BY DEF HeadlessInv, Running, CellsStand, Stands
  <1>5. \A v : v \in V <=> /\ v \in R \X Drawn /\ phase[v[1]][v[2]] # "unobserved"
                           /\ v[1] \in detached => v[1] \in Apart /\ v[2] = "display"
    BY DEF Reevaluated, Drawn
  <1> HIDE DEF V, R
  <1>6. \A c \in R, ch \in Drawn :
          <<c, ch>> \in V <=> c \notin detached /\ phase[c][ch] # "unobserved"
    BY <1>1, <1>4, <1>5, DrawnOnes DEF Shaped
  <1>7. \A c \in R \ detached : <<c, "display">> \in V
    BY <1>1, <1>4, <1>6, DrawnOnes DEF Shaped
  <1>8. \A c \in Cells, ch \in Drawn : <<c, ch>> \in V => c \in R
    BY <1>5
  <1>9. \A c \in Cells, ch \in Drawn :
          <<c, ch>> \in V => c \in Affected(roots) /\ phase[c][ch] # "unobserved"
    BY <1>1, <1>6, <1>8
  <1>10. \A c \in Cells, ch, h \in Drawn : <<c, ch>> \in V /\ phase[c][h] # "unobserved" => <<c, h>> \in V
    BY <1>6, <1>8
  <1>11. ASSUME NEW c \in Cells, NEW d \in Cells \ detached, NEW ch \in Drawn,
                <<c, ch>> \in V, c \in Upstream[d]
         PROVE  \E h \in Drawn : <<d, h>> \in V
    <2>1. c \in R \ detached
      BY <1>6, <1>8, <1>11
    <2>2. d \in R \ detached
      BY <1>3, <1>11, <2>1
    <2>3. QED
      BY <1>7, <2>2, DrawnOnes
  <1>12. Wave(V, Affected(roots), detached)
    BY <1>9, <1>10, <1>11 DEF Wave
  <1>13. QED
    BY <1>3, <1>7, <1>12 DEF V

\* The affected cells lose value, diagnostics and result; those in the wave are dirty.
LEMMA UpdateInv ==
  ASSUME HeadlessInv, NEW roots \in SUBSET (Cells \ Broken), BeginUpdate(roots),
         NEW V, Mark(V, "dirty"), Wave(V, Affected(roots), detached'),
         detached \subseteq detached', detached' \in SUBSET Ownable,
         \A c \in detached' \ detached : c \notin Apart /\ <<c, "variable">> \in V
  PROVE  HeadlessInv' /\ Truthful /\ ~closed'
  <1> DEFINE A == Affected(roots)
             v == NewEpoch(Values, A)
  <1>1. /\ ~closed /\ closed' = FALSE /\ cs' = cs /\ BeginAffected(roots) /\ Settle(v)
        /\ errors' = [c \in Cells |-> IF c \in A THEN {} ELSE errors[c]]
    BY DEF BeginUpdate, Change, HeadlessInv, HeadlessTyped
  <1>2. HeadlessTyped /\ Holds(Values) /\ Running
    BY <1>1 DEF HeadlessInv
  <1>3. A \subseteq Cells \ Broken
    BY AffectedFacts
  <1>4. Fit(es) /\ Regular(es) /\ phase \in Phases /\ Evaluating
    BY <1>2 DEF Running, Evaluating
  <1>5. /\ Fit(es') /\ KeepsResults(es, es') /\ Regular(es')
        /\ es'.pending = es.pending \cup (A \cap Selected)
    BY <1>1, <1>4, BeginAffectedFacts, BeginAffectedCounts DEF Affected
  <1>6. phase' \in Phases /\ \A c \in Cells, ch \in Drawn :
          phase'[c][ch] = IF <<c, ch>> \in V THEN "dirty" ELSE phase[c][ch]
    BY <1>4, MarkFacts DEF Marks
  <1>7. BrokenUnobserved' /\ CellsAgree'
    <2>1. \A c \in Cells, ch \in Drawn :
            \/ phase'[c][ch] = phase[c][ch]
            \/ phase'[c][ch] = "dirty" /\ phase[c][ch] # "unobserved"
      BY <1>6 DEF Wave
    <2>2. QED
      BY <1>1, <1>4, <1>5, <1>6, <2>1, DirtyAgrees
  <1>8. Evaluating'
    BY <1>1, <1>4, <1>5, <1>6, <1>7 DEF Evaluating
  <1>9. v.entries = [c \in Cells |-> IF c \in A THEN "pending" ELSE entries[c]] /\ Unanswered(Values, v)
    <2>1. Values \in ValueStates /\ Values.entries = entries
      BY <1>2 DEF HeadlessTyped, Values
    <2>2. QED
      BY <1>2, <1>3, <2>1, NewEpochFacts
  <1> HIDE DEF v
  <1>10. entries' = v.entries /\ Values' \in ValueStates /\ Holds(Values)' /\ Truthful
    BY <1>1, <1>2, <1>9, SettleFacts DEF HeadlessTyped
  <1>11. HeadlessTyped'
    <2>1. errors' \in [Cells -> Diagnoses]
      BY <1>1, <1>2 DEF HeadlessTyped, Diagnoses
    <2>2. QED
      BY <1>1, <1>10, <2>1 DEF HeadlessTyped
  <1> HIDE DEF A
  <1>12. ASSUME NEW c \in Cells
         PROVE  Stands(c, phase'[c], c \in detached', entries'[c], errors'[c], c \in es'.pending)
    <2> DEFINE p == phase[c]
               q == phase'[c]
               owned == c \in detached
               taken == c \in detached'
               before == c \in es.pending
               after == c \in es'.pending
    <2>1. /\ Stands(c, p, owned, entries[c], errors[c], before)
          /\ p \in [Drawn -> Marks] /\ q \in [Drawn -> Marks]
          /\ owned \in BOOLEAN /\ taken \in BOOLEAN /\ before \in BOOLEAN /\ after \in BOOLEAN
      BY <1>2, <1>4, <1>6 DEF Running, CellsStand, Phases
    <2>2. /\ owned => taken
          /\ taken /\ ~owned => c \notin Apart /\ <<c, "variable">> \in V
          /\ before => after
          /\ c \in A /\ c \in Selected => after
      BY <1>5
    <2>3. Shaped(c, p, owned)
      BY <2>1 DEF Stands
    <2>4. \A ch \in Drawn : q[ch] = IF <<c, ch>> \in V THEN "dirty" ELSE p[ch]
      BY <1>6
    <2>5. /\ entries'[c] = IF c \in A THEN "pending" ELSE entries[c]
          /\ errors'[c] = IF c \in A THEN {} ELSE errors[c]
      BY <1>1, <1>9, <1>10
    <2> HIDE DEF p, q, owned, taken, before, after
    <2>9. c \in A => c \in Cells \ Broken /\ (c \in Selected => after)
      BY <1>3, <2>2 DEF A
    <2>10. owned \in BOOLEAN /\ taken \in BOOLEAN /\ after \in BOOLEAN /\ (owned => taken)
      BY <2>1, <2>2
    <2>11. p \in [Drawn -> Marks] /\ q \in [Drawn -> Marks]
      BY <2>1
    <2>6. CASE \E ch \in Drawn : <<c, ch>> \in V
      <3>1. c \in A
        BY <2>6 DEF Wave, A
      <3>2. \A ch \in Drawn : q[ch] = IF p[ch] = "unobserved" THEN "unobserved" ELSE "dirty"
        BY <2>4, <2>6 DEF Wave, p
      <3>3. taken /\ c \in Apart => owned
        BY <2>2
      <3>4. Stands(c, q, taken, "pending", {}, after)
        BY <2>3, <2>9, <2>10, <2>11, <3>1, <3>2, <3>3, StandsRenewed
      <3>5. QED
        BY <2>5, <3>1, <3>4 DEF q, taken, after
    <2>7. CASE \A ch \in Drawn : <<c, ch>> \notin V
      <3>1. p = q
        <4>1. \A ch \in Drawn : p[ch] = q[ch]
          BY <2>4, <2>7
        <4>2. QED
          BY <2>11, <4>1
      <3>2. taken = owned
        BY <2>1, <2>2, <2>7, DrawnOnes
      <3>3. CASE c \in A
        <4>1. Stands(c, p, owned, "pending", {}, after)
          BY <2>3, <2>9, <2>10, <3>3, StandsAffected
        <4>2. QED
          BY <2>5, <3>1, <3>2, <3>3, <4>1 DEF q, taken, after
      <3>4. CASE c \notin A
        <4>1. Stands(c, p, owned, entries[c], errors[c], after)
          BY <2>1, <2>2, StandsPending
        <4>2. QED
          BY <2>5, <3>1, <3>2, <3>4, <4>1 DEF q, taken, after
      <3>5. QED
        BY <3>3, <3>4
    <2>8. QED
      BY <2>6, <2>7
  <1>13. Spreading'
    <2> SUFFICES ASSUME NEW u \in Cells, NEW d \in Cells, d \notin detached', u \in Upstream[d],
                        Working(phase'[u])
                 PROVE  Working(phase'[d])
      BY NotebookAssumption DEF Spreading
    <2>1. CASE \E ch \in Drawn : <<u, ch>> \in V
      <3>1. PICK h \in Drawn : <<d, h>> \in V
        BY <2>1 DEF Wave
      <3>2. QED
        BY <1>6, <3>1 DEF Working
    <2>2. CASE \A ch \in Drawn : <<u, ch>> \notin V
      <3>1. Working(phase[u])
        BY <1>6, <2>2 DEF Working
      <3>2. Working(phase[d])
        BY <1>2, <3>1 DEF Running, Spreading
      <3>3. QED
        BY <1>6, <3>2 DEF Working
    <2>3. QED
      BY <2>1, <2>2
  <1>14. Running'
    BY <1>5, <1>8, <1>12, <1>13 DEF Running, CellsStand
  <1>15. QED
    BY <1>1, <1>10, <1>11, <1>14 DEF HeadlessInv

LEMMA UpdateVariableInv ==
  ASSUME HeadlessInv, NEW roots \in InputRoots, UpdateVariable(roots)
  PROVE  HeadlessInv' /\ Truthful /\ ~closed'
  <1>1. /\ BeginUpdate(roots) /\ ~closed /\ detached' = detached
        /\ Mark(Reevaluated(roots), "dirty")
    BY DEF UpdateVariable, BeginUpdate, Change
  <1>2. roots \in SUBSET (Cells \ Broken)
    BY NotebookAssumption
  <1>3. roots \in SUBSET Affected(roots)
    BY <1>2, AffectedFacts
  <1>4. Wave(Reevaluated(roots), Affected(roots), detached')
    BY <1>1, <1>2, <1>3, ReevaluatedWave
  <1>5. detached' \in SUBSET Ownable
    BY <1>1 DEF HeadlessInv, HeadlessTyped
  <1>6. QED
    BY <1>1, <1>2, <1>4, <1>5, UpdateInv

\* The name's own variables are dirty, and what is reevaluated behind them.
LEMMA UpdateNameInv ==
  ASSUME Whole, HeadlessInv, NEW c \in Ownable, UpdateName(c)
  PROVE  HeadlessInv' /\ Truthful /\ ~closed'
  <1> DEFINE own == {c} \X {ch \in {"display", "variable"} : Constant(c, ch) /\ phase[c][ch] # "unobserved"}
             behind == Reevaluated(Dependents(c))
             V == own \cup behind
             A == Affected({c})
  <1>1. /\ BeginUpdate({c}) /\ ~closed /\ detached' = detached \cup {c} /\ Mark(V, "dirty")
        /\ c \in Views => c \in detached
    BY DEF UpdateName, BeginUpdate, Change
  <1>2. c \in Cells /\ c \in Exposing /\ {c} \in SUBSET (Cells \ Broken)
    BY NotebookAssumption
  <1>3. c \in A /\ Dependents(c) \in SUBSET A
    BY <1>2, AffectedFacts
  <1>4. /\ Wave(behind, A, detached)
        /\ \A d \in Dependents(c) \ detached : <<d, "display">> \in behind
    BY <1>1, <1>2, <1>3, ReevaluatedWave
  <1>5. Shaped(c, phase[c], c \in detached)
    BY <1>1, <1>2 DEF HeadlessInv, Running, CellsStand, Stands
  <1>6. c \notin detached => c \notin Apart
    BY <1>1 DEF Whole
  <1>7. \A d \in Cells, ch \in Drawn : <<d, ch>> \in own <=> d = c /\ phase[c][ch] # "unobserved"
    <2>1. \A ch \in Drawn : phase[c][ch] # "unobserved" => Constant(c, ch)
      BY <1>5, <1>6, DrawnOnes DEF Constant, Shaped
    <2>2. QED
      BY <2>1 DEF Drawn
  <1>8. <<c, "variable">> \in V
    BY <1>2, <1>5, <1>7, DrawnOnes DEF Shaped
  <1>9. \A d \in Cells, ch \in Drawn :
          <<d, ch>> \in V <=> (d = c /\ phase[c][ch] # "unobserved") \/ <<d, ch>> \in behind
    BY <1>7
  <1> HIDE DEF V, behind, own, A
  <1>10. Wave(V, A, detached')
    <2>1. \A d \in Cells, ch \in Drawn : <<d, ch>> \in V => d \in A /\ phase[d][ch] # "unobserved"
      BY <1>3, <1>4, <1>9 DEF Wave
    <2>2. \A d \in Cells, ch, h \in Drawn : <<d, ch>> \in V /\ phase[d][h] # "unobserved" => <<d, h>> \in V
      BY <1>4, <1>9 DEF Wave
    <2>3. ASSUME NEW u \in Cells, NEW d \in Cells \ detached', NEW ch \in Drawn,
                 <<u, ch>> \in V, u \in Upstream[d]
          PROVE  \E h \in Drawn : <<d, h>> \in V
      <3>1. d \in Cells /\ d \notin detached
        BY <1>1, <2>3
      <3>2. CASE u = c
        <4>1. <<d, "display">> \in behind
          BY <1>4, <2>3, <3>1, <3>2 DEF Dependents
        <4>2. QED
          BY <1>9, <3>1, <4>1, DrawnOnes
      <3>3. CASE u # c
        <4>1. PICK h \in Drawn : <<d, h>> \in behind
          BY <1>4, <1>9, <2>3, <3>1, <3>3 DEF Wave
        <4>2. QED
          BY <1>9, <3>1, <4>1
      <3>4. QED
        BY <3>2, <3>3
    <2>4. QED
      BY <2>1, <2>2, <2>3 DEF Wave
  <1>11. detached \subseteq detached' /\ detached' \in SUBSET Ownable
    BY <1>1 DEF HeadlessInv, HeadlessTyped
  <1>12. \A d \in detached' \ detached : d \notin Apart /\ <<d, "variable">> \in V
    BY <1>1, <1>6, <1>8
  <1>13. QED
    BY <1>1, <1>2, <1>10, <1>11, <1>12, UpdateInv DEF A

-----------------------------------------------------------------------------
(* Renders *)

LEMMA RenderedStands ==
  ASSUME NEW owned \in SUBSET Ownable
  PROVE  LET p == Shown(owned)
         IN  /\ \A c \in Cells :
                  Stands(c, p[c], c \in owned, Registered[c], IF c \in Broken THEN {"analysis"} ELSE {},
                         c \in Selected \ Failing)
             /\ \A u \in Cells, d \in Cells \ owned : u \in Upstream[d] => Working(p[d])
  <1>1. Failing = Broken
    BY HeadlessAssumption DEF Failing
  <1>2. ASSUME NEW c \in Cells
        PROVE  Stands(c, Shown(owned)[c], c \in owned, Registered[c], IF c \in Broken THEN {"analysis"} ELSE {},
                      c \in Selected \ Failing)
    <2> DEFINE pending == c \in Selected \ Failing
    <2>1. pending \in BOOLEAN /\ (c \in Selected \ Broken => pending)
      BY <1>1
    <2>2. Registered[c] = IF c \in Broken THEN "error" ELSE "pending"
      BY DEF Registered
    <2> HIDE DEF pending
    <2>3. QED
      BY <2>1, <2>2, StandsRendered DEF pending
  <1>3. ASSUME NEW u \in Cells, NEW d \in Cells, d \notin owned, u \in Upstream[d]
        PROVE  Working(Shown(owned)[d])
    <2>1. d \notin Broken
      BY <1>3, NotebookAssumption
    <2>2. "display" \in Observed(d, owned)
      BY <1>3, <2>1, ObservedFacts
    <2>3. Shown(owned)[d]["display"] = "dirty"
      BY <2>2, DrawnOnes DEF Shown
    <2>4. QED
      BY <2>3, DrawnOnes DEF Working
  <1>4. QED
    BY <1>2, <1>3

LEMMA RegisteredTyped == /\ Registered \in [Cells -> Statuses]
                         /\ [c \in Cells |-> IF c \in Broken THEN {"analysis"} ELSE {}] \in [Cells -> Diagnoses]
  BY DEF Registered, Statuses, Terminal, Diagnoses

LEMMA InitInv == Init => HeadlessInv
  <1> SUFFICES ASSUME Init PROVE HeadlessInv
    OBVIOUS
  <1>1. PICK owned \in SUBSET Ownable :
          /\ es = Rendered(InitialState, owned).es /\ cs = Rendered(InitialState, owned).cs
          /\ phase = Shown(owned) /\ detached = owned
    BY DEF Init, Shown, Drawn
  <1>2. /\ closed = FALSE /\ entries = Registered
        /\ errors = [c \in Cells |-> IF c \in Broken THEN {"analysis"} ELSE {}]
        /\ request = [r \in Requests |-> [op |-> IF r \in Reads THEN "read" ELSE "none", stage |-> "idle",
                                           cell |-> CHOOSE c \in Cells : TRUE, moved |-> FALSE, behind |-> FALSE]]
    BY DEF Init
  <1>3. InitialState \in State /\ Coherent(InitialState) /\ NoTerminalResult(InitialState)
        /\ ~InitialState.errors /\ ~InitialState.closed
    BY NoRevisionIsInt DEF InitialState, State, Result, NoResult, Coherent, Recorded, NoTerminalResult,
       Terminal, NoRevision
  <1> DEFINE m == Rendered(InitialState, owned)
             p == Shown(owned)
  <1>4. /\ Fit(m.es) /\ m.es.pending = Selected \ Failing /\ Regular(m.es)
        /\ m.cs \in CellStates /\ p \in Phases
        /\ \A c \in Broken, ch \in Drawn : p[c][ch] = "unobserved"
        /\ \A c \in Selected : Agrees(c, m.cs[c], p[c], m.es.results[c])
    BY <1>3, RenderedAgrees
  <1>5. /\ \A c \in Cells :
             Stands(c, p[c], c \in owned, Registered[c], IF c \in Broken THEN {"analysis"} ELSE {},
                    c \in Selected \ Failing)
        /\ \A u \in Cells, d \in Cells \ owned : u \in Upstream[d] => Working(p[d])
    BY RenderedStands
  <1>6. es = m.es /\ cs = m.cs /\ phase = p /\ detached = owned
    BY <1>1
  <1> HIDE DEF m, p
  <1>7. Evaluating
    BY <1>4, <1>6 DEF Evaluating, BrokenUnobserved, CellsAgree
  <1>8. CellsStand
    BY <1>2, <1>4, <1>5, <1>6 DEF CellsStand
  <1>9. Spreading
    BY <1>5, <1>6 DEF Spreading
  <1>10. Running
    BY <1>4, <1>6, <1>7, <1>8, <1>9 DEF Running
  <1>11. HeadlessTyped /\ Holds(Values)
    <2>1. ASSUME NEW r \in Requests
          PROVE  request[r] \in Request /\ request[r].stage = "idle" /\ (r \in Reads => request[r].op = "read")
      <3>1. (CHOOSE c \in Cells : TRUE) \in Places
        BY DEF Places
      <3>2. QED
        BY <1>2, <3>1 DEF Request, Stages
    <2>2. request \in [Requests -> Request]
      BY <1>2, <2>1
    <2>3. Values \in ValueStates
      BY <1>2, <2>1, <2>2, RegisteredTyped, ReadsAreRequests DEF ValueStates, Values
    <2>4. Holds(Values)
      BY <2>1, ReadsAreRequests DEF Holds, Values, Relying
    <2>5. QED
      BY <1>2, <1>6, <2>3, <2>4, RegisteredTyped DEF HeadlessTyped
  <1>12. QED
    BY <1>2, <1>10, <1>11 DEF HeadlessInv

\* A start of everything: no read relies on anything any more.
LEMMA AbortedFacts ==
  ASSUME NEW q \in Request
  PROVE  LET n == Aborted(q)
         IN  /\ n \in Request /\ n.op = q.op /\ n.cell = q.cell
             /\ n.stage = "value" => q.stage = "value"
             /\ n.stage = "resolved" => q.stage = "resolved"
             /\ n.stage \in Relying => n.moved
  BY DEF Aborted, Request, Stages, Relying

LEMMA RestartedFacts ==
  ASSUME HeadlessTyped
  PROVE  LET u == [Values EXCEPT !.request = [r \in Requests |-> IF r \in Reads THEN Aborted(@[r]) ELSE @[r]]]
             w == [NewEpoch(u, Cells) EXCEPT !.entries = Registered]
         IN  Unanswered(Values, w) /\ w.entries = Registered
  <1> DEFINE aborted == [r \in Requests |-> IF r \in Reads THEN Aborted(request[r]) ELSE request[r]]
             u == [Values EXCEPT !.request = [r \in Requests |-> IF r \in Reads THEN Aborted(@[r]) ELSE @[r]]]
             v == NewEpoch(u, Cells)
             w == [v EXCEPT !.entries = Registered]
  <1>1. u = [entries |-> entries, request |-> aborted]
    BY DEF Values
  <1>2. /\ entries \in [Cells -> Statuses] /\ request \in [Requests -> Request]
        /\ \A r \in Reads : request[r].op = "read"
    BY DEF HeadlessTyped, ValueStates, Values
  <1>3. ASSUME NEW r \in Requests
        PROVE  /\ aborted[r] \in Request
               /\ r \in Reads => /\ aborted[r].op = "read"
                                 /\ aborted[r].stage = "value" => request[r].stage = "value"
                                 /\ aborted[r].stage \in Relying => aborted[r].moved
               /\ r \notin Reads => aborted[r] = request[r]
    BY <1>2, AbortedFacts
  <1>4. aborted \in [Requests -> Request]
    BY <1>3
  <1> HIDE DEF aborted, u
  <1>5. u \in ValueStates /\ Holds(u)
    BY <1>1, <1>2, <1>3, <1>4, ReadsAreRequests DEF ValueStates, Holds
  <1>6. Unanswered(u, v) /\ v.entries = [c \in Cells |-> "pending"]
    <2>1. Cells \in SUBSET Cells
      OBVIOUS
    <2>2. Unanswered(u, v) /\ v.entries = [c \in Cells |-> IF c \in Cells THEN "pending" ELSE u.entries[c]]
      BY <1>5, <2>1, NewEpochFacts
    <2>3. QED
      BY <2>2
  <1> HIDE DEF v
  <1>7. v \in ValueStates /\ Holds(v)
    BY <1>6 DEF Unanswered
  <1>8. w = [entries |-> Registered, request |-> v.request]
    BY <1>7 DEF ValueStates
  <1> HIDE DEF w
  <1>9. \A r \in Reads : ~(v.request[r].stage \in Relying /\ ~v.request[r].moved)
    BY <1>6, <1>7 DEF Holds
  <1>10. w \in ValueStates /\ Holds(w)
    BY <1>7, <1>8, <1>9, RegisteredTyped DEF ValueStates, Holds
  <1>11. \A r \in Reads : w.request[r].stage = "value" => request[r].stage = "value"
    BY <1>1, <1>3, <1>6, <1>8, ReadsAreRequests DEF Unanswered
  <1>12. \A r \in Checkpoints : \/ w.request[r] = request[r]
                                \/ w.request[r].op = "discover" /\ request[r].op = "discover"
    <2>1. \A r \in Checkpoints : u.request[r] = request[r]
      BY <1>1, <1>3, ReadsAreRequests
    <2>2. QED
      BY <1>6, <1>8, <2>1 DEF Unanswered
  <1>13. Unanswered(Values, w)
    BY <1>10, <1>11, <1>12 DEF Unanswered, Values
  <1>14. QED
    BY <1>8, <1>13 DEF w, v, u

LEMMA RestartInv ==
  ASSUME HeadlessInv, NEW s \in State, ~s.closed, Coherent(s), NoTerminalResult(s), ~s.errors,
         NEW owned \in SUBSET Ownable, Restart(s, owned), ~closed, closed' = closed
  PROVE  HeadlessInv' /\ Truthful /\ ~closed'
  <1> DEFINE u == [Values EXCEPT !.request = [r \in Requests |-> IF r \in Reads THEN Aborted(@[r]) ELSE @[r]]]
             w == [NewEpoch(u, Cells) EXCEPT !.entries = Registered]
             m == Rendered(s, owned)
             p == Shown(owned)
  <1>1. /\ es' = m.es /\ cs' = m.cs /\ phase' = p /\ detached' = owned
        /\ errors' = [c \in Cells |-> IF c \in Broken THEN {"analysis"} ELSE {}]
    BY DEF Restart, StartCells, Shown, Drawn
  <1>2. Settle(w)
    BY DEF Restart
  <1>3. HeadlessTyped /\ Values \in ValueStates
    BY DEF HeadlessInv, HeadlessTyped
  <1>4. Unanswered(Values, w) /\ w.entries = Registered
    BY <1>3, RestartedFacts
  <1> HIDE DEF w
  <1>5. entries' = Registered /\ Values' \in ValueStates /\ Holds(Values)' /\ Truthful
    BY <1>2, <1>3, <1>4, SettleFacts
  <1>6. /\ Fit(m.es) /\ m.es.pending = Selected \ Failing /\ Regular(m.es)
        /\ m.cs \in CellStates /\ p \in Phases
        /\ \A c \in Broken, ch \in Drawn : p[c][ch] = "unobserved"
        /\ \A c \in Selected : Agrees(c, m.cs[c], p[c], m.es.results[c])
    BY RenderedAgrees
  <1>7. /\ \A c \in Cells :
             Stands(c, p[c], c \in owned, Registered[c], IF c \in Broken THEN {"analysis"} ELSE {},
                    c \in Selected \ Failing)
        /\ \A e \in Cells, d \in Cells \ owned : e \in Upstream[d] => Working(p[d])
    BY RenderedStands
  <1> HIDE DEF m, p
  <1>8. Evaluating'
    BY <1>1, <1>6 DEF Evaluating, BrokenUnobserved, CellsAgree
  <1>9. CellsStand'
    BY <1>1, <1>5, <1>6, <1>7 DEF CellsStand
  <1>10. Spreading'
    BY <1>1, <1>7 DEF Spreading
  <1>11. HeadlessTyped'
    BY <1>1, <1>3, <1>5, RegisteredTyped DEF HeadlessTyped
  <1>12. Running'
    BY <1>1, <1>6, <1>8, <1>9, <1>10 DEF Running
  <1>13. QED
    BY <1>5, <1>11, <1>12 DEF HeadlessInv

\* The state that a restart starts from has no results left.
LEMMA RestartsAfresh ==
  ASSUME HeadlessInv, ~closed
  PROVE  LET s == Invalidate(es)
         IN  s \in State /\ ~s.closed /\ Coherent(s) /\ NoTerminalResult(s) /\ ~s.errors
  <1> DEFINE s == Invalidate(es)
  <1>1. es \in State /\ ~es.closed /\ Coherent(es)
    BY DEF HeadlessInv, Running, Evaluating, Fit
  <1>2. s \in State /\ NoTerminalResult(s)
    BY <1>1, InvalidateFacts DEF Coherent, Recorded, NoTerminalResult, NoResult, Terminal
  <1>3. Coherent(s) /\ ~s.closed
    BY <1>1, InvalidateCoherent
  <1>4. ~s.errors
    BY <1>1 DEF Invalidate, OpenRevision, State
  <1>5. QED
    BY <1>2, <1>3, <1>4

LEMMA UpdateNewViewInv ==
  ASSUME HeadlessInv, NEW v \in Ownable, UpdateNewView(v)
  PROVE  HeadlessInv' /\ Truthful /\ ~closed'
  <1>1. ~closed /\ Restart(Invalidate(es), detached \cup {v}) /\ closed' = closed
    BY DEF UpdateNewView, Change
  <1>2. detached \cup {v} \in SUBSET Ownable
    BY DEF HeadlessInv, HeadlessTyped
  <1>3. QED
    BY <1>1, <1>2, RestartsAfresh, RestartInv

LEMMA ReplaceVariablesInv ==
  ASSUME HeadlessInv, NEW owned \in SUBSET Ownable, ReplaceVariables(owned)
  PROVE  HeadlessInv' /\ Truthful /\ ~closed'
  <1>1. ~closed /\ Restart(Invalidate(es), owned) /\ closed' = closed
    BY DEF ReplaceVariables, Change
  <1>2. QED
    BY <1>1, RestartsAfresh, RestartInv

-----------------------------------------------------------------------------
(* The Observable runtime *)

LEMMA ComputeNowInv ==
  ASSUME HeadlessInv, ComputeNow
  PROVE  HeadlessInv' /\ Truthful /\ ~closed'
  <1> DEFINE dirty == Variables("dirty")
             lost == {c \in Cells : <<c, ValueChannel(c)>> \in dirty}
             set == CHOOSE g : PendingEach(Values, g)
             v == set[lost]
  <1>1. /\ ~closed /\ closed' = closed /\ detached' = detached /\ Frame /\ AnnounceAll
        /\ errors' = [c \in Cells |-> IF <<c, "display">> \in dirty THEN {} ELSE errors[c]]
    BY DEF ComputeNow
  <1>2. Settle(v)
    BY DEF ComputeNow, PendingEach
  <1>3. HeadlessTyped /\ Holds(Values) /\ Values \in ValueStates /\ Running
    BY <1>1 DEF HeadlessInv, HeadlessTyped
  <1>4. \A c \in Cells, ch \in Drawn : <<c, ch>> \in dirty <=> phase[c][ch] = "dirty"
    BY DEF Variables, Drawn
  <1>5. /\ Unanswered(Values, v)
        /\ v.entries = [c \in Cells |-> IF c \in lost THEN "pending" ELSE entries[c]]
    <2>1. lost \in SUBSET Cells /\ Values.entries = entries
      BY DEF Values
    <2> HIDE DEF lost
    <2>2. /\ Unanswered(Values, set[lost])
          /\ set[lost].entries = [c \in Cells |-> IF c \in lost THEN "pending" ELSE Values.entries[c]]
      <3> HIDE DEF Values
      <3>1. QED
        BY <1>3, <2>1, PendingEachFacts
    <2>3. QED
      BY <2>1, <2>2
  <1> HIDE DEF set, v, dirty
  <1>6. entries' = v.entries /\ Values' \in ValueStates /\ Holds(Values)' /\ Truthful
    BY <1>2, <1>3, <1>5, SettleFacts
  <1>7. Evaluating /\ Regular(es)
    BY <1>3 DEF Running
  <1>8. /\ Evaluating' /\ Regular(es') /\ es.pending \subseteq es'.pending
        /\ \A c \in Cells, ch \in Drawn :
             phase'[c][ch] = IF phase[c][ch] = "dirty" THEN "running" ELSE phase[c][ch]
        /\ \A c \in Selected, ch \in Drawn : phase[c][ch] = "dirty" => c \in es'.pending
    BY <1>1, <1>7, AnnouncedAgrees
  <1>9. phase \in Phases /\ phase' \in Phases
    BY <1>7, <1>8 DEF Evaluating
  <1>10. ASSUME NEW c \in Cells
         PROVE  Stands(c, phase'[c], c \in detached', entries'[c], errors'[c], c \in es'.pending)
    <2> DEFINE p == phase[c]
               q == phase'[c]
               owned == c \in detached
               before == c \in es.pending
               after == c \in es'.pending
               entry == entries[c]
               diagnoses == errors[c]
    <2>1. Stands(c, p, owned, entry, diagnoses, before)
      BY <1>3 DEF Running, CellsStand
    <2>2. p \in [Drawn -> Marks] /\ q \in [Drawn -> Marks]
      BY <1>9 DEF Phases
    <2>3. owned \in BOOLEAN /\ before \in BOOLEAN /\ after \in BOOLEAN
      OBVIOUS
    <2>4. entry \in Statuses /\ diagnoses \in Diagnoses
      BY <1>3 DEF HeadlessTyped, ValueStates, Values
    <2>5. before => after
      BY <1>8
    <2>6. c \in Selected /\ (\E ch \in Drawn : p[ch] = "dirty") => after
      BY <1>8
    <2>7. \A ch \in Drawn : q[ch] = IF p[ch] = "dirty" THEN "running" ELSE p[ch]
      BY <1>8
    <2>8. /\ entries'[c] = IF p[ValueChannel(c)] = "dirty" THEN "pending" ELSE entry
          /\ errors'[c] = IF p["display"] = "dirty" THEN {} ELSE diagnoses
      <3>1. c \in lost <=> p[ValueChannel(c)] = "dirty"
        BY <1>4, DrawnOnes
      <3>2. <<c, "display">> \in dirty <=> p["display"] = "dirty"
        BY <1>4, DrawnOnes
      <3>3. QED
        BY <1>1, <1>5, <1>6, <3>1, <3>2
    <2> HIDE DEF p, q, owned, before, after, entry, diagnoses
    <2>9. Stands(c, q, owned, IF p[ValueChannel(c)] = "dirty" THEN "pending" ELSE entry,
                 IF p["display"] = "dirty" THEN {} ELSE diagnoses, after)
      BY <2>1, <2>2, <2>3, <2>4, <2>5, <2>6, <2>7, StandsStarted
    <2>10. QED
      BY <1>1, <2>8, <2>9 DEF q, owned, after
  <1>11. Spreading'
    <2>1. \A c \in Cells : Working(phase'[c]) <=> Working(phase[c])
      BY <1>8 DEF Working
    <2>2. QED
      BY <1>1, <1>3, <2>1 DEF Running, Spreading
  <1>12. errors' \in [Cells -> Diagnoses]
    BY <1>1, <1>3 DEF HeadlessTyped, Diagnoses
  <1>13. HeadlessTyped'
    BY <1>1, <1>3, <1>6, <1>12 DEF HeadlessTyped
  <1>14. Running'
    BY <1>8, <1>10, <1>11 DEF Running, CellsStand
  <1>15. QED
    BY <1>1, <1>6, <1>13, <1>14 DEF HeadlessInv

LEMMA MicrotaskInv ==
  ASSUME HeadlessInv, Microtask
  PROVE  HeadlessInv' /\ Truthful /\ ~closed'
  <1> DEFINE t == RunSettlement(es)
  <1>1. /\ es.settlement # NoRevision /\ es' = t /\ Settle(Values)
        /\ errors' = errors /\ cs' = cs /\ phase' = phase /\ detached' = detached /\ closed' = closed
    BY DEF Microtask
  <1>2. ~closed /\ HeadlessTyped /\ Holds(Values) /\ Values \in ValueStates /\ Running
    BY <1>1 DEF HeadlessInv, HeadlessTyped
  <1>3. es \in State /\ ~es.closed /\ Coherent(es) /\ Certain(es) /\ es.selected = Selected
    BY <1>2 DEF Running, Evaluating, Fit
  <1>4. /\ t \in State /\ t.closed = es.closed /\ t.results = es.results
        /\ Coherent(t) /\ Certain(t) /\ t.selected = es.selected
    BY <1>3, RunSettlementFacts, RunSettlementCoherent
  <1>5. Regular(t) /\ t.pending = es.pending
    BY <1>2, <1>3, RunSettlementCounts DEF Counts, Running
  <1>6. Unanswered(Values, Values)
    BY <1>2 DEF Unanswered
  <1>7. entries' = entries /\ Values' \in ValueStates /\ Holds(Values)' /\ Truthful
    <2>1. Values.entries = entries
      BY DEF Values
    <2>2. QED
      BY <1>1, <1>2, <1>6, <2>1, SettleFacts
  <1> HIDE DEF t
  <1>8. Evaluating'
    BY <1>1, <1>2, <1>3, <1>4 DEF Running, Evaluating, Fit, BrokenUnobserved, CellsAgree
  <1>9. CellsStand' /\ Spreading'
    BY <1>1, <1>2, <1>5, <1>7 DEF Running, CellsStand, Spreading
  <1>10. HeadlessTyped'
    BY <1>1, <1>2, <1>7 DEF HeadlessTyped
  <1>11. QED
    BY <1>1, <1>2, <1>5, <1>7, <1>8, <1>9, <1>10 DEF HeadlessInv, Running

\* The display of a view whose name is a constant is not observed, so that what is
\* to be renewed is what is to be evaluated.
LEMMA RenewingWorks ==
  ASSUME HeadlessInv, NEW u \in Cells
  PROVE  Renewing(u) <=> Working(phase[u])
  <1>1. CASE closed
    BY <1>1 DEF HeadlessInv, Unrun, Renewing, Working, Drawn
  <1>2. CASE ~closed
    <2>1. Shaped(u, phase[u], u \in detached)
      BY <1>2 DEF HeadlessInv, Running, CellsStand, Stands
    <2>2. \A ch \in Drawn : phase[u][ch] \in {"dirty", "running"} => (u \in detached => Constant(u, ch))
      BY <2>1, DrawnOnes DEF Shaped, Constant
    <2>3. QED
      BY <2>2 DEF Renewing, Working, Drawn
  <1>3. QED
    BY <1>1, <1>2

LEMMA ReportedFacts ==
  ASSUME errors \in [Cells -> Diagnoses], NEW c \in Cells, NEW ch \in Drawn, NEW outcome \in Terminal
  PROVE  /\ Reported(c, ch, outcome) \in [Cells -> Diagnoses]
         /\ \A d \in Cells \ {c} : Reported(c, ch, outcome)[d] = errors[d]
         /\ outcome = "error" => Reported(c, ch, outcome)[c] # {}
         /\ outcome # "error" => Reported(c, ch, outcome)[c] = errors[c]
  <1>1. CASE outcome # "error"
    BY <1>1 DEF Reported
  <1>2. CASE outcome = "error"
    <2> DEFINE told == IF ch = "display" THEN errors[c] \cup {"evaluation"}
                       ELSE IF "evaluation" \in errors[c] THEN errors[c] ELSE errors[c] \cup {"variable"}
    <2>1. told \in Diagnoses /\ told # {}
      BY DEF Diagnoses
    <2>2. Reported(c, ch, outcome) = [errors EXCEPT ![c] = told]
      BY <1>2 DEF Reported
    <2> HIDE DEF told
    <2>3. QED
      BY <1>2, <2>1, <2>2
  <1>3. QED
    BY <1>1, <1>2

LEMMA FinishInv ==
  ASSUME HeadlessInv, NEW c \in Cells, NEW ch \in Drawn, NEW outcome \in Terminal, Finish(c, ch, outcome)
  PROVE  HeadlessInv' /\ Truthful /\ ~closed'
  <1> DEFINE v == IF ch = ValueChannel(c) THEN SetValue(Values, c, outcome) ELSE Values
  <1>1. /\ Evaluated(c, ch, outcome) /\ Delivered(c, ch, outcome)
        /\ errors' = Reported(c, ch, outcome) /\ Settle(v)
        /\ detached' = detached /\ closed' = closed
    BY DEF Finish
  <1>2. phase[c][ch] = "running" /\ Mark({<<c, ch>>}, outcome)
    BY <1>1 DEF Evaluated
  <1>3. ~closed /\ HeadlessTyped /\ Holds(Values) /\ Values \in ValueStates /\ Running
    BY <1>2 DEF HeadlessInv, HeadlessTyped, Unrun, Drawn
  <1>4. Evaluating /\ Regular(es) /\ phase \in Phases
    BY <1>3 DEF Running, Evaluating
  <1>5. phase' \in Phases /\ \A d \in Cells, h \in Drawn :
          phase'[d][h] = IF d = c /\ h = ch THEN outcome ELSE phase[d][h]
    <2>1. MarkedAs(c, ch, outcome)
      BY <1>2 DEF MarkedAs
    <2>2. QED
      BY <1>4, <2>1, MarkedOne
  <1>6. Fit(es') /\ cs' \in CellStates /\ BrokenUnobserved' /\ CellsAgree'
    BY <1>1, <1>2, <1>4, <1>5, DeliveredAgrees
  <1>7. /\ Regular(es') /\ es.pending \ {c} \subseteq es'.pending
        /\ c \in Selected /\ c \notin es'.pending => NoneAwaited(cs'[c])
    BY <1>1, <1>4, DeliveredPending
  <1>8. Evaluating'
    BY <1>5, <1>6 DEF Evaluating
  <1>9. /\ Unanswered(Values, v)
        /\ v.entries = [entries EXCEPT ![c] = IF ch = ValueChannel(c) THEN outcome ELSE @]
    <2>1. Values.entries = entries /\ outcome \in Statuses /\ entries \in [Cells -> Statuses]
      BY <1>3 DEF Values, Statuses, ValueStates
    <2>2. CASE ch = ValueChannel(c)
      <3>1. Unanswered(Values, SetValue(Values, c, outcome))
            /\ SetValue(Values, c, outcome).entries = [Values.entries EXCEPT ![c] = outcome]
        BY <1>3, <2>1, SetValueFacts
      <3>2. QED
        BY <2>1, <2>2, <3>1
    <2>3. CASE ch # ValueChannel(c)
      BY <1>3, <2>1, <2>3 DEF Unanswered
    <2>4. QED
      BY <2>2, <2>3
  <1> HIDE DEF v
  <1>10. entries' = v.entries /\ Values' \in ValueStates /\ Holds(Values)' /\ Truthful
    BY <1>1, <1>3, <1>9, SettleFacts
  <1>11. /\ errors' \in [Cells -> Diagnoses]
         /\ \A d \in Cells \ {c} : errors'[d] = errors[d]
         /\ outcome = "error" => errors'[c] # {}
         /\ outcome # "error" => errors'[c] = errors[c]
    BY <1>1, <1>3, ReportedFacts DEF HeadlessTyped
  <1>12. HeadlessTyped'
    BY <1>1, <1>3, <1>10, <1>11 DEF HeadlessTyped
  <1>13. entries \in [Cells -> Statuses]
    BY <1>3 DEF ValueStates, Values
  <1>14. Stands(c, phase'[c], c \in detached', entries'[c], errors'[c], c \in es'.pending)
    <2> DEFINE p == phase[c]
               q == phase'[c]
               owned == c \in detached
               before == c \in es.pending
               after == c \in es'.pending
               entry == entries[c]
               diagnoses == errors[c]
               reported == errors'[c]
    <2>1. Stands(c, p, owned, entry, diagnoses, before)
      BY <1>3 DEF Running, CellsStand
    <2>2. p \in [Drawn -> Marks] /\ q \in [Drawn -> Marks]
      BY <1>4, <1>5 DEF Phases
    <2>3. owned \in BOOLEAN /\ before \in BOOLEAN /\ after \in BOOLEAN
      OBVIOUS
    <2>4. entry \in Statuses /\ diagnoses \in Diagnoses /\ reported \in Diagnoses
      BY <1>3, <1>11, <1>13 DEF HeadlessTyped
    <2>5. Outcome(c, p, owned, ch, outcome)
      <3>1. Shaped(c, p, owned)
        BY <2>1 DEF Stands
      <3>2. c \in detached => Constant(c, ch)
        BY <1>2, <3>1, DrawnOnes DEF Shaped, Constant
      <3>3. owned => outcome = "success"
        BY <1>1, <3>2 DEF Evaluated
      <3>4. ch = "variable" => p["display"] \notin {"dirty", "running"}
        BY <1>1, <3>1 DEF Evaluated, Shaped
      <3>5. ch = "variable" => (~owned => outcome = p["display"])
        BY <1>1 DEF Evaluated
      <3>6. QED
        BY <1>2, <3>3, <3>4, <3>5 DEF Outcome
    <2>6. \A h \in Drawn : q[h] = IF h = ch THEN outcome ELSE p[h]
      BY <1>5
    <2>7. (outcome = "error" => reported # {}) /\ (outcome # "error" => reported = diagnoses)
      BY <1>11
    <2>8. c \in Selected /\ ~after => \A h \in Drawn : q[h] # "running"
      <3> SUFFICES ASSUME c \in Selected, ~after PROVE \A h \in Drawn : q[h] # "running"
        OBVIOUS
      <3>1. NoneAwaited(cs'[c]) /\ Agrees(c, cs'[c], q, es'.results[c])
        BY <1>6, <1>7 DEF CellsAgree
      <3>2. c \notin Failing
        BY <1>2, <1>4, HeadlessAssumption DEF Failing, Evaluating, BrokenUnobserved
      <3>3. QED
        BY <3>1, <3>2, ReadyNotRunning
    <2>9. entries'[c] = IF ch = ValueChannel(c) THEN outcome ELSE entry
      BY <1>9, <1>10, <1>13
    <2> HIDE DEF p, q, owned, before, after, entry, diagnoses, reported
    <2>10. Stands(c, q, owned, IF ch = ValueChannel(c) THEN outcome ELSE entry, reported, after)
      BY <2>1, <2>2, <2>3, <2>4, <2>5, <2>6, <2>7, <2>8, StandsEnded
    <2>11. QED
      BY <1>1, <2>9, <2>10 DEF q, owned, after, reported
  <1>15. ASSUME NEW d \in Cells \ {c}
         PROVE  Stands(d, phase'[d], d \in detached', entries'[d], errors'[d], d \in es'.pending)
    <2>1. Stands(d, phase[d], d \in detached, entries[d], errors[d], d \in es.pending)
      BY <1>3 DEF Running, CellsStand
    <2>2. phase'[d] = phase[d]
      <3>1. phase[d] \in [Drawn -> Marks] /\ phase'[d] \in [Drawn -> Marks]
        BY <1>4, <1>5 DEF Phases
      <3>2. \A h \in Drawn : phase'[d][h] = phase[d][h]
        BY <1>5
      <3>3. QED
        BY <3>1, <3>2
    <2>3. entries'[d] = entries[d] /\ errors'[d] = errors[d]
      BY <1>9, <1>10, <1>11, <1>13
    <2> DEFINE before == d \in es.pending
               after == d \in es'.pending
    <2>4. before \in BOOLEAN /\ after \in BOOLEAN /\ (before => after)
      BY <1>7
    <2> HIDE DEF before, after
    <2>5. Stands(d, phase[d], d \in detached, entries[d], errors[d], after)
      <3>1. Stands(d, phase[d], d \in detached, entries[d], errors[d], before)
        BY <2>1 DEF before
      <3>2. QED
        BY <2>4, <3>1, StandsPending
    <2>6. QED
      BY <1>1, <2>2, <2>3, <2>5 DEF after
  <1>16. Spreading'
    <2> SUFFICES ASSUME NEW u \in Cells, NEW d \in Cells, d \notin detached, u \in Upstream[d],
                        Working(phase'[u])
                 PROVE  Working(phase'[d])
      BY <1>1 DEF Spreading
    <2>1. Working(phase[u])
      BY <1>5 DEF Working, Terminal
    <2>2. Renewing(u)
      BY <2>1, RenewingWorks
    <2>3. d # c
      BY <1>1, <2>2 DEF Evaluated
    <2>4. Working(phase[d])
      BY <1>3, <2>1 DEF Running, Spreading
    <2>5. QED
      BY <1>5, <2>3, <2>4 DEF Working
  <1>17. Running'
    BY <1>7, <1>8, <1>14, <1>15, <1>16 DEF Running, CellsStand
  <1>18. QED
    BY <1>1, <1>3, <1>10, <1>12, <1>17 DEF HeadlessInv

-----------------------------------------------------------------------------
(* Disposal and requests *)

\* Which steps answer a read, or tell somebody that everything is ready.
Answers ==
  /\ \A r \in Reads : request'[r].stage = "value" /\ request[r].stage # "value" =>
       request[r].stage = "converting" /\ ~request[r].moved
  /\ \A r \in Checkpoints :
       request'[r].op = "ready" /\ request'[r].stage = "resolved" /\ request[r].stage # "resolved" =>
         ~closed' /\ Settled(es') /\ Diagnosed(errors') = {}

LEMMA TruthfulAnswers ==
  ASSUME Truthful, ~closed'
  PROVE  Answers
  BY DEF Truthful, Answers

LEMMA DisposeInv ==
  ASSUME HeadlessInv, Dispose
  PROVE  HeadlessInv' /\ Answers
  <1>1. /\ ~closed /\ closed' = TRUE /\ es' = Close(es) /\ phase' = Unrun
        /\ request' = [r \in Requests |-> Aborted(request[r])]
        /\ entries' = [c \in Cells |-> "pending"] /\ detached' = detached /\ errors' = errors
    BY DEF Dispose
  <1>2. HeadlessTyped /\ Running
    BY <1>1 DEF HeadlessInv
  <1>3. es'.settlement = NoRevision
    <2>1. es \in State /\ ~es.closed
      BY <1>2 DEF Running, Evaluating, Fit
    <2>2. QED
      BY <1>1, <2>1 DEF Close, State
  <1>4. request \in [Requests -> Request] /\ \A r \in Reads : request[r].op = "read"
    BY <1>2 DEF HeadlessTyped, ValueStates, Values
  <1>5. ASSUME NEW r \in Requests
        PROVE  /\ request'[r] \in Request /\ request'[r].op = request[r].op
               /\ request'[r].stage = "value" => request[r].stage = "value"
               /\ request'[r].stage = "resolved" => request[r].stage = "resolved"
               /\ request'[r].stage \in Relying => request'[r].moved
    BY <1>1, <1>4, AbortedFacts
  <1>6. request' \in [Requests -> Request]
    BY <1>1, <1>5
  <1>7. Values' \in ValueStates /\ Holds(Values)'
    BY <1>1, <1>4, <1>5, <1>6, ReadsAreRequests DEF ValueStates, Values, Holds, Statuses
  <1>8. HeadlessTyped'
    BY <1>1, <1>2, <1>7 DEF HeadlessTyped
  <1>9. Answers
    BY <1>5, ReadsAreRequests DEF Answers
  <1>10. QED
    BY <1>1, <1>3, <1>7, <1>8, <1>9 DEF HeadlessInv

\* A request becomes another, and nothing else changes.
LEMMA BecomeFacts ==
  ASSUME HeadlessInv, NEW r \in Requests, NEW q \in Request, Become(r, q),
         r \in Reads => /\ q.op = "read"
                        /\ q.stage \in Relying /\ ~q.moved => q.cell \in Cells /\ entries[q.cell] = "success"
  PROVE  /\ HeadlessInv' /\ UNCHANGED <<state, closed, entries, errors>>
         /\ request'[r].op = q.op /\ request'[r].stage = q.stage
         /\ \A s \in Requests \ {r} : request'[s].op = request[s].op /\ request'[s].stage = request[s].stage
  <1> DEFINE changed == [request EXCEPT ![r] = q]
  <1>1. UNCHANGED <<state, closed, entries, errors>> /\ request' = Queued(changed)
    BY DEF Become
  <1>2. /\ request \in [Requests -> Request] /\ HeadlessTyped /\ Holds(Values)
        /\ \A s \in Reads : request[s].op = "read"
    BY DEF HeadlessInv, HeadlessTyped, ValueStates, Values
  <1>3. changed \in [Requests -> Request] /\ \A s \in Requests : changed[s] = IF s = r THEN q ELSE request[s]
    BY <1>2
  <1> HIDE DEF changed
  <1>4. /\ request' \in [Requests -> Request]
        /\ \A s \in Requests :
             /\ request'[s].op = changed[s].op /\ request'[s].stage = changed[s].stage
             /\ request'[s].cell = changed[s].cell /\ request'[s].moved = changed[s].moved
    BY <1>1, <1>2, <1>3, QueuedFacts
  <1>5. Values' \in ValueStates
    BY <1>1, <1>2, <1>3, <1>4, ReadsAreRequests DEF HeadlessTyped, ValueStates, Values
  <1>6. Holds(Values)'
    BY <1>1, <1>2, <1>3, <1>4, ReadsAreRequests DEF Holds, Values
  <1>7. HeadlessTyped'
    BY <1>1, <1>2, <1>5 DEF HeadlessTyped, state
  <1>8. Running => Running'
    BY <1>1 DEF Running, Evaluating, BrokenUnobserved, CellsAgree, CellsStand, Spreading, state
  <1>9. HeadlessInv'
    BY <1>1, <1>6, <1>7, <1>8 DEF HeadlessInv, state
  <1>10. QED
    BY <1>1, <1>3, <1>4, <1>9

\* A request of which a read relies on no more than it did.
LEMMA ToFacts ==
  ASSUME HeadlessInv, NEW r \in Requests, NEW stage \in Stages, To(r, stage),
         r \in Reads /\ stage \in Relying => request[r].stage \in Relying
  PROVE  /\ HeadlessInv' /\ request'[r].op = request[r].op /\ request'[r].stage = stage
         /\ \A s \in Requests \ {r} : request'[s].op = request[s].op /\ request'[s].stage = request[s].stage
  <1> DEFINE q == [request[r] EXCEPT !.stage = stage]
  <1>1. request[r] \in Request /\ Holds(Values) /\ (r \in Reads => request[r].op = "read")
    BY DEF HeadlessInv, HeadlessTyped, ValueStates, Values
  <1>2. q \in Request /\ q.op = request[r].op /\ q.stage = stage /\ q.cell = request[r].cell
        /\ q.moved = request[r].moved
    BY <1>1 DEF Request
  <1>3. Become(r, q)
    BY DEF To
  <1> HIDE DEF q
  <1>4. r \in Reads /\ q.stage \in Relying /\ ~q.moved => q.cell \in Cells /\ entries[q.cell] = "success"
    BY <1>1, <1>2 DEF Holds, Values
  <1>5. QED
    BY <1>1, <1>2, <1>3, <1>4, BecomeFacts

\* Nobody but this request changes, and it is answered properly.
LEMMA OthersAnswered ==
  ASSUME NEW r \in Requests,
         \A s \in Requests \ {r} : request'[s].op = request[s].op /\ request'[s].stage = request[s].stage,
         r \in Reads /\ request'[r].stage = "value" /\ request[r].stage # "value" =>
            request[r].stage = "converting" /\ ~request[r].moved,
         r \in Checkpoints /\ request'[r].op = "ready" /\ request'[r].stage = "resolved"
           /\ request[r].stage # "resolved" => ~closed' /\ Settled(es') /\ Diagnosed(errors') = {}
  PROVE  Answers
  BY ReadsAreRequests DEF Answers

\* A check lets a read rely on nothing but a value.
LEMMA CheckedFacts ==
  ASSUME NEW q \in Request, NEW status
  PROVE  LET n == Checked(q, status)
         IN  /\ n \in Request /\ n.op = q.op /\ n.cell = q.cell
             /\ n.stage # "value"
             /\ n.stage \in Relying => status = "success"
  <1> DEFINE stage == CASE q.moved            -> "failed"
                        [] status = "pending" -> "waiting"
                        [] status = "success" -> "resolved"
                        [] OTHER              -> "failed"
  <1>1. stage \in {"failed", "waiting", "resolved"} /\ (stage = "resolved" => status = "success")
    OBVIOUS
  <1>2. Checked(q, status) = [q EXCEPT !.stage = stage]
    BY DEF Checked
  <1> HIDE DEF stage
  <1>3. QED
    BY <1>1, <1>2 DEF Request, Stages, Relying

LEMMA CheckpointInv ==
  ASSUME HeadlessInv, NEW r \in Checkpoints, AskReady(r) \/ Discover(r) \/ Answer(r)
  PROVE  HeadlessInv' /\ Answers
  <1>1. r \in Requests /\ r \notin Reads /\ request[r] \in Request
    BY ReadsAreRequests DEF HeadlessInv, HeadlessTyped, ValueStates, Values
  <1>2. CASE AskReady(r)
    <2> DEFINE q == [request[r] EXCEPT !.op = "ready"]
               n == IF closed THEN [q EXCEPT !.stage = "failed"] ELSE Ready(q, es, errors)
    <2>1. q \in Request /\ q.op = "ready"
      BY <1>1 DEF Request
    <2>2. Become(r, n)
      BY <1>2 DEF AskReady
    <2> HIDE DEF q
    <2>3. /\ n \in Request /\ n.op = "ready"
          /\ n.stage = "resolved" => ~closed /\ Settled(es) /\ Diagnosed(errors) = {}
      <3>1. CASE closed
        <4>1. n = [q EXCEPT !.stage = "failed"]
          BY <3>1
        <4>2. QED
          BY <2>1, <4>1 DEF Request, Stages
      <3>2. CASE ~closed
        BY <2>1, <3>2, ReadyFacts
      <3>3. QED
        BY <3>1, <3>2
    <2> HIDE DEF n
    <2>4. /\ HeadlessInv' /\ UNCHANGED <<state, closed, entries, errors>>
          /\ request'[r].op = n.op /\ request'[r].stage = n.stage
          /\ \A s \in Requests \ {r} : request'[s].op = request[s].op /\ request'[s].stage = request[s].stage
      BY <1>1, <2>2, <2>3, BecomeFacts
    <2>5. es' = es /\ closed' = closed /\ errors' = errors
      BY <2>4 DEF state
    <2>6. QED
      BY <1>1, <2>3, <2>4, <2>5, OthersAnswered
  <1>3. CASE Discover(r)
    <2> DEFINE stage == IF closed THEN "failed"
                        ELSE IF \E c \in Cells : entries[c] = "pending" THEN "waiting" ELSE "resolved"
               n == [request[r] EXCEPT !.op = "discover", !.stage = stage]
    <2>1. Become(r, n)
      BY <1>3 DEF Discover
    <2>2. stage \in Stages
      BY DEF Stages
    <2> HIDE DEF stage
    <2>3. n \in Request /\ n.op = "discover"
      BY <1>1, <2>2 DEF Request
    <2> HIDE DEF n
    <2>4. /\ HeadlessInv' /\ request'[r].op = n.op
          /\ \A s \in Requests \ {r} : request'[s].op = request[s].op /\ request'[s].stage = request[s].stage
      BY <1>1, <2>1, <2>3, BecomeFacts
    <2>5. QED
      BY <1>1, <2>3, <2>4, OthersAnswered
  <1>4. CASE Answer(r)
    <2> DEFINE stage == CASE request[r].op = "discover"                 -> "value"
                          [] request[r].moved                           -> "failed"
                          [] Diagnosed(errors) # {} \/ ~Settled(es)     -> "stale"
                          [] OTHER                                      -> "value"
    <2>1. To(r, stage)
      BY <1>4 DEF Answer
    <2>2. stage \in Stages /\ stage # "resolved"
      BY DEF Stages
    <2> HIDE DEF stage
    <2>3. /\ HeadlessInv' /\ request'[r].stage = stage
          /\ \A s \in Requests \ {r} : request'[s].op = request[s].op /\ request'[s].stage = request[s].stage
      BY <1>1, <2>1, <2>2, ToFacts
    <2>4. QED
      BY <1>1, <2>2, <2>3, OthersAnswered
  <1>5. QED
    BY <1>2, <1>3, <1>4

LEMMA AbortInv ==
  ASSUME HeadlessInv, NEW r \in Requests, Abort(r)
  PROVE  HeadlessInv' /\ Answers
  <1>1. request[r] \in Request /\ (r \in Reads => request[r].op = "read")
    BY DEF HeadlessInv, HeadlessTyped, ValueStates, Values
  <1> DEFINE n == Aborted(request[r])
  <1>2. Become(r, n)
    BY DEF Abort
  <1>3. /\ n \in Request /\ n.op = request[r].op
        /\ n.stage = "value" => request[r].stage = "value"
        /\ n.stage = "resolved" => request[r].stage = "resolved"
        /\ n.stage \in Relying => n.moved
    BY <1>1, AbortedFacts
  <1> HIDE DEF n
  <1>4. /\ HeadlessInv' /\ request'[r].op = n.op /\ request'[r].stage = n.stage
        /\ \A s \in Requests \ {r} : request'[s].op = request[s].op /\ request'[s].stage = request[s].stage
    BY <1>1, <1>2, <1>3, BecomeFacts
  <1>5. QED
    BY <1>3, <1>4, OthersAnswered

LEMMA ReadInv ==
  ASSUME HeadlessInv, NEW r \in Reads,
         Convert(r) \/ Complete(r) \/ Refuse(r) \/ \E c \in Cells : Describe(r, c) \/ Read(r, c)
  PROVE  HeadlessInv' /\ Answers
  <1>1. r \in Requests /\ r \notin Checkpoints /\ request[r] \in Request /\ request[r].op = "read"
    BY ReadsAreRequests DEF HeadlessInv, HeadlessTyped, ValueStates, Values
  <1>2. CASE Convert(r) \/ Complete(r) \/ Refuse(r)
    <2>1. PICK stage \in {"converting", "failed", "value", "refused"} :
            /\ To(r, stage)
            /\ stage \in Relying => request[r].stage \in Relying
            /\ stage = "value" => request[r].stage = "converting" /\ ~request[r].moved
      <3>1. CASE Convert(r)
        BY <3>1 DEF Convert, Relying
      <3>2. CASE Complete(r) /\ request[r].moved
        BY <3>2 DEF Complete, Relying
      <3>3. CASE Complete(r) /\ ~request[r].moved
        BY <3>3 DEF Complete, Relying
      <3>4. CASE Refuse(r)
        BY <3>4 DEF Refuse, Relying
      <3>5. QED
        BY <1>2, <3>1, <3>2, <3>3, <3>4
    <2>2. stage \in Stages
      BY DEF Stages
    <2>3. /\ HeadlessInv' /\ request'[r].stage = stage
          /\ \A s \in Requests \ {r} : request'[s].op = request[s].op /\ request'[s].stage = request[s].stage
      BY <1>1, <2>1, <2>2, ToFacts
    <2>4. QED
      BY <1>1, <2>1, <2>3, OthersAnswered
  <1>3. ASSUME NEW c \in Cells, Describe(r, c)
        PROVE  HeadlessInv' /\ Answers
    <2> DEFINE n == [request[r] EXCEPT !.stage = "handle", !.cell = c]
    <2>1. Become(r, n) /\ entries[c] = "success"
      BY <1>3 DEF Describe
    <2>2. n \in Request /\ n.op = "read" /\ n.cell = c /\ n.stage = "handle"
      BY <1>1 DEF Request, Stages, Places
    <2> HIDE DEF n
    <2>3. /\ HeadlessInv' /\ request'[r].stage = n.stage
          /\ \A s \in Requests \ {r} : request'[s].op = request[s].op /\ request'[s].stage = request[s].stage
      BY <1>1, <2>1, <2>2, BecomeFacts
    <2>4. QED
      BY <1>1, <2>2, <2>3, OthersAnswered
  <1>4. ASSUME NEW c \in Cells, Read(r, c)
        PROVE  HeadlessInv' /\ Answers
    <2>1. CASE closed
      <3>1. To(r, "failed") /\ "failed" \in Stages /\ "failed" \notin Relying
        BY <1>4, <2>1 DEF Read, Stages, Relying
      <3>2. /\ HeadlessInv' /\ request'[r].stage = "failed"
            /\ \A s \in Requests \ {r} : request'[s].op = request[s].op /\ request'[s].stage = request[s].stage
        BY <1>1, <3>1, ToFacts
      <3>3. QED
        BY <1>1, <3>2, OthersAnswered
    <2>2. CASE ~closed
      <3> DEFINE q == [request[r] EXCEPT !.cell = c]
                 n == Checked(q, entries[c])
      <3>1. Become(r, n)
        BY <1>4, <2>2 DEF Read
      <3>2. q \in Request /\ q.op = "read" /\ q.cell = c
        BY <1>1 DEF Request, Places
      <3> HIDE DEF q
      <3>3. /\ n \in Request /\ n.op = "read" /\ n.cell = c /\ n.stage # "value"
            /\ n.stage \in Relying => entries[c] = "success"
        BY <3>2, CheckedFacts
      <3> HIDE DEF n
      <3>4. /\ HeadlessInv' /\ request'[r].stage = n.stage
            /\ \A s \in Requests \ {r} : request'[s].op = request[s].op /\ request'[s].stage = request[s].stage
        BY <1>1, <3>1, <3>3, BecomeFacts
      <3>5. QED
        BY <1>1, <3>3, <3>4, OthersAnswered
    <2>3. QED
      BY <2>1, <2>2
  <1>5. QED
    BY <1>2, <1>3, <1>4

-----------------------------------------------------------------------------
(* What the invariant says of a value *)

\* Whatever has a value has nothing left to evaluate.
LEMMA ValuesRest ==
  ASSUME HeadlessInv, NEW c \in Cells, entries[c] = "success"
  PROVE  ~Working(phase[c])
  <1>1. CASE closed
    BY <1>1 DEF HeadlessInv, Unrun, Working, Drawn
  <1>2. CASE ~closed
    <2>1. Shaped(c, phase[c], c \in detached)
          /\ Accounted(c, phase[c], entries[c], errors[c], c \in es.pending)
      BY <1>2 DEF HeadlessInv, Running, CellsStand, Stands
    <2>2. CASE c \in Broken
      <3>1. c \notin Exposing
        BY <2>2, NotebookAssumption
      <3>2. QED
        BY <2>1, <2>2, <3>1, DrawnOnes DEF Shaped, Working
    <2>3. CASE c \notin Broken
      <3>1. phase[c][ValueChannel(c)] = "success"
        BY <2>1, <2>3 DEF Accounted
      <3>2. QED
        BY <2>1, <3>1, DrawnOnes DEF Shaped, Working, ValueChannel, Terminal
    <2>4. QED
      BY <2>2, <2>3
  <1>3. QED
    BY <1>1, <1>2

\* A value that a reader can have comes from nothing that is to be renewed.
LEMMA ValuesAreFresh == HeadlessInv => \A c \in Cells : entries[c] = "success" => Fresh(c)
  <1> SUFFICES ASSUME HeadlessInv, NEW c \in Cells, entries[c] = "success" PROVE Fresh(c)
    OBVIOUS
  <1>1. ~Working(phase[c])
    BY ValuesRest
  <1>2. CASE closed
    BY <1>2, RenewingWorks DEF HeadlessInv, Unrun, Working, Drawn, Fresh
  <1>3. CASE ~closed
    <2> SUFFICES ASSUME NEW u \in Cells, Working(phase[u]), u # c,
                        c \notin detached, c \in Reached(Dependents(u), Cells \ detached)
                 PROVE  FALSE
      BY <1>1, RenewingWorks DEF Fresh
    <2> DEFINE busy == {d \in Cells : d \in detached \/ Working(phase[d])}
    <2>1. \A e \in Cells, d \in Cells \ detached : e \in Upstream[d] /\ Working(phase[e]) => Working(phase[d])
      BY <1>3 DEF HeadlessInv, Running, Spreading
    <2>2. Dependents(u) \subseteq busy
      BY <2>1 DEF Dependents
    <2>3. \A e \in busy \cap (Cells \ detached), d \in Cells : e \in Upstream[d] => d \in busy
      BY <2>1
    <2>4. busy \in SUBSET Cells
      OBVIOUS
    <2> HIDE DEF busy
    <2>5. Reached(Dependents(u), Cells \ detached) \subseteq busy
      BY <2>2, <2>3, <2>4, ReachedLeast
    <2>6. QED
      BY <1>1, <2>5 DEF busy
  <1>4. QED
    BY <1>2, <1>3

\* Once the inputs are settled a selected cell has a result, which the diagnostics agree with.
LEMMA SettledCell ==
  ASSUME HeadlessInv, ~closed, Settled(es), NEW c \in Selected
  PROVE  /\ es.results[c].status \in Terminal
         /\ es.results[c].status = "error" <=> errors[c] # {}
         /\ errors[c] = {} => entries[c] = "success"
  <1>1. Running /\ HeadlessTyped
    BY DEF HeadlessInv
  <1>2. /\ es \in State /\ es.selected = Selected /\ Coherent(es) /\ Regular(es) /\ es.pending = {}
        /\ c \in Cells
    BY <1>1, NotebookAssumption DEF Running, Evaluating, Fit, Settled
  <1>3. es.results[c].status \in Terminal
    BY <1>2 DEF Regular, Coherent, State, Result
  <1>4. Shaped(c, phase[c], c \in detached) /\ Accounted(c, phase[c], entries[c], errors[c], c \in es.pending)
    BY <1>1, <1>2 DEF Running, CellsStand, Stands
  <1>5. /\ Agrees(c, cs[c], phase[c], es.results[c]) /\ phase[c] \in [Drawn -> Marks]
        /\ Channels = Drawn \cup {"failure"} /\ "failure" \notin Drawn
    BY <1>1, <1>2, NotebookAssumption DEF Running, Evaluating, CellsAgree, Phases, Drawn
  <1>6. ~Working(phase[c])
    BY <1>2, <1>4 DEF Accounted
  <1>7. es.results[c].status = "error" <=> cs[c].errors # {}
    BY <1>3, <1>5 DEF Agrees
  <1>8. Failing = Broken
    BY HeadlessAssumption DEF Failing
  <1>9. CASE c \in Broken
    <2>1. cs[c].errors # {} /\ errors[c] # {}
      BY <1>4, <1>5, <1>8, <1>9 DEF Agrees, Accounted
    <2>2. QED
      BY <1>3, <1>7, <2>1
  <1>10. CASE c \notin Broken
    <2>1. \A ch \in Drawn : cs[c].statuses[ch] = "error" <=> phase[c][ch] = "error"
      BY <1>5, <1>6 DEF Agrees, Marks, Terminal, Working
    <2>2. cs[c].statuses["failure"] = "absent"
      BY <1>5, <1>8, <1>10 DEF Agrees
    <2>3. cs[c].errors # {} <=> Erred(phase[c])
      BY <1>5, <2>1, <2>2 DEF Agrees, Erred
    <2>4. errors[c] # {} <=> Erred(phase[c])
      BY <1>2, <1>4, <1>10 DEF Accounted
    <2>5. entries[c] \in Statuses /\ entries[c] # "pending"
      BY <1>1, <1>2, <1>4, <1>10 DEF Accounted, HeadlessTyped, ValueStates, Values
    <2>6. phase[c][ValueChannel(c)] = entries[c]
      BY <1>4, <1>10, <2>5 DEF Accounted
    <2>7. errors[c] = {} => entries[c] = "success"
      BY <1>2, <2>4, <2>5, <2>6, DrawnOnes DEF Erred, Statuses, Terminal
    <2>8. QED
      BY <1>3, <1>7, <2>3, <2>4, <2>7
  <1>11. QED
    BY <1>9, <1>10

LEMMA InvRecordsAgree == HeadlessInv => RecordsAgree
  BY SettledCell DEF RecordsAgree

\* When everything is ready, every selected cell has a fresh result.
LEMMA ReadyState ==
  HeadlessInv /\ ~closed /\ Settled(es) /\ Diagnosed(errors) = {} =>
    \A c \in Selected : es.results[c].status = "success" /\ Fresh(c)
  <1> SUFFICES ASSUME HeadlessInv, ~closed, Settled(es), Diagnosed(errors) = {}, NEW c \in Selected
               PROVE  es.results[c].status = "success" /\ Fresh(c)
    OBVIOUS
  <1>1. c \in Cells /\ errors[c] = {}
    BY NotebookAssumption DEF Diagnosed
  <1>2. es.results[c].status \in Terminal /\ es.results[c].status # "error" /\ entries[c] = "success"
    BY <1>1, SettledCell
  <1>3. QED
    BY <1>1, <1>2, ValuesAreFresh DEF Terminal

-----------------------------------------------------------------------------
(* The theorems *)

LEMMA StepInv ==
  ASSUME Whole, HeadlessInv, [Next]_vars
  PROVE  HeadlessInv' /\ Answers
  <1>1. ASSUME NEW roots \in InputRoots, UpdateVariable(roots)
        PROVE  HeadlessInv' /\ Answers
    BY <1>1, UpdateVariableInv, TruthfulAnswers
  <1>2. ASSUME NEW c \in Ownable, UpdateName(c) \/ UpdateNewView(c)
        PROVE  HeadlessInv' /\ Answers
    BY <1>2, UpdateNameInv, UpdateNewViewInv, TruthfulAnswers
  <1>3. ASSUME NEW owned \in SUBSET Ownable, ReplaceVariables(owned)
        PROVE  HeadlessInv' /\ Answers
    BY <1>3, ReplaceVariablesInv, TruthfulAnswers
  <1>4. CASE ComputeNow \/ Microtask
    BY <1>4, ComputeNowInv, MicrotaskInv, TruthfulAnswers
  <1>5. CASE Dispose
    BY <1>5, DisposeInv
  <1>6. ASSUME NEW c \in Cells, NEW ch \in {"display", "variable"}, NEW outcome \in Terminal,
               Finish(c, ch, outcome)
        PROVE  HeadlessInv' /\ Answers
    <2>1. ch \in Drawn
      BY DEF Drawn
    <2>2. QED
      BY <1>6, <2>1, FinishInv, TruthfulAnswers
  <1>7. ASSUME NEW r \in Requests,
               \/ AskReady(r) \/ Discover(r) \/ Abort(r) \/ Convert(r) \/ Complete(r) \/ Answer(r) \/ Refuse(r)
               \/ \E c \in Cells : Describe(r, c) \/ Read(r, c)
        PROVE  HeadlessInv' /\ Answers
    <2>1. CASE AskReady(r) \/ Discover(r) \/ Answer(r)
      <3>1. r \in Checkpoints
        BY <2>1 DEF AskReady, Discover, Answer
      <3>2. QED
        BY <2>1, <3>1, CheckpointInv
    <2>2. CASE Abort(r)
      BY <2>2, AbortInv
    <2>3. CASE Convert(r) \/ Complete(r) \/ Refuse(r) \/ \E c \in Cells : Describe(r, c) \/ Read(r, c)
      <3>1. r \in Reads
        BY <2>3 DEF Convert, Complete, Refuse, Describe, Read
      <3>2. QED
        BY <2>3, <3>1, ReadInv
    <2>4. QED
      BY <1>7, <2>1, <2>2, <2>3
  <1>8. CASE UNCHANGED vars
    <2>1. /\ UNCHANGED <<es, cs, phase, detached, closed, entries, errors, request>>
      BY <1>8 DEF vars
    <2>2. HeadlessTyped' /\ Holds(Values)' /\ (Running => Running')
      BY <2>1 DEF HeadlessInv, HeadlessTyped, Holds, Values, Running, Evaluating, BrokenUnobserved,
         CellsAgree, CellsStand, Spreading
    <2>3. HeadlessInv'
      BY <2>1, <2>2 DEF HeadlessInv
    <2>4. Answers
      BY <2>1 DEF Answers
    <2>5. QED
      BY <2>3, <2>4
  <1>9. QED
    BY <1>1, <1>2, <1>3, <1>4, <1>5, <1>6, <1>7, <1>8 DEF Next

\* The variables, results, diagnostics and values of a headless evaluation tell one
\* story at all times, and a read that relies on an entry relies on a value.
THEOREM HeadlessInvHolds ==
  ASSUME Whole
  PROVE  Spec => []HeadlessInv
  <1>1. HeadlessInv /\ [Next]_vars => HeadlessInv'
    BY StepInv
  <1>2. QED
    BY <1>1, InitInv, PTL DEF Spec

\* Once the inputs are settled, results, diagnostics and values agree on every
\* selected cell, in every notebook.
THEOREM SettledRecordsAgree ==
  ASSUME Whole
  PROVE  Spec => []RecordsAgree
  BY HeadlessInvHolds, InvRecordsAgree, PTL

\* A read returns a value that nothing it comes from has outdated, whatever happened
\* while it waited or converted.
THEOREM ReadsReturnFreshValues ==
  ASSUME Whole
  PROVE  Spec => ReadsAreCurrent
  <1>1. HeadlessInv /\ [Next]_vars =>
          [\A r \in Reads : request'[r].stage = "value" /\ request[r].stage # "value" =>
             entries[request[r].cell] = "success" /\ Fresh(request[r].cell)]_vars
    <2> SUFFICES ASSUME HeadlessInv, [Next]_vars, NEW r \in Reads,
                        request'[r].stage = "value", request[r].stage # "value"
                 PROVE  entries[request[r].cell] = "success" /\ Fresh(request[r].cell)
      OBVIOUS
    <2>1. request[r].stage = "converting" /\ ~request[r].moved
      BY StepInv DEF Answers
    <2>2. request[r].cell \in Cells /\ entries[request[r].cell] = "success"
      BY <2>1 DEF HeadlessInv, Holds, Values, Relying
    <2>3. QED
      BY <2>2, ValuesAreFresh
  <1>2. QED
    BY <1>1, HeadlessInvHolds, PTL DEF Spec, ReadsAreCurrent

\* Whoever is told that everything is ready has fresh results of every selected cell.
THEOREM ReadyTellsTheTruth ==
  ASSUME Whole
  PROVE  Spec => ReadyIsFresh
  <1> DEFINE Done == \A c \in Selected : es.results[c].status = "success" /\ Fresh(c)
             Settles == ~closed /\ Settled(es) /\ Diagnosed(errors) = {}
  <1>1. HeadlessInv /\ Settles => Done
    BY ReadyState
  <1>2. HeadlessInv' /\ Settles' => Done'
    BY <1>1, PTL
  <1>3. HeadlessInv /\ [Next]_vars =>
          [\A r \in Checkpoints :
             request'[r].op = "ready" /\ request'[r].stage = "resolved" /\ request[r].stage # "resolved" =>
               \A c \in Selected : es'.results[c].status = "success" /\ Fresh(c)']_vars
    <2> SUFFICES ASSUME HeadlessInv, [Next]_vars, NEW r \in Checkpoints,
                        request'[r].op = "ready", request'[r].stage = "resolved", request[r].stage # "resolved"
                 PROVE  \A c \in Selected : es'.results[c].status = "success" /\ Fresh(c)'
      OBVIOUS
    <2>1. HeadlessInv' /\ Settles'
      BY StepInv DEF Answers
    <2>2. Done'
      BY <1>2, <2>1
    <2>3. QED
      BY <2>2
  <1>4. QED
    BY <1>3, HeadlessInvHolds, PTL DEF Spec, ReadyIsFresh
=============================================================================
