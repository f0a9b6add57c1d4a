--------------------------- MODULE ViewRequests_proofs ---------------------------
(***************************************************************************)
(* Proofs about ViewRequests, for any calls, mounts, reports and updates.  *)
(***************************************************************************)
EXTENDS ViewRequests, FiniteSetTheorems, TLAPS

Errors == {"unknown", "none", "fatal"}

Outcomes == {"named", "reply"} \cup Over

BrowserMessage ==
  [type : {"request", "cancel"}, id : Calls, generation : Nat]
    \cup [type : {"update"}, seq : Nat] \cup [type : {"close"}]

PythonMessage ==
  [type : {"traits"}, generation : Nat, revision : Nat, seq : Nat, errors : Errors]
    \cup [type : {"response"}, id : Calls, generation : Nat, outcome : {"reply", "error"}]

Coroutines ==
  [pc : {"idle", "adding", "looking", "waiting", "named", "checked", "registered", "sending",
         "sent"} \cup Over,
   generation : Nat, future : {"none"} \cup Outcomes, queue : Seq(Outcomes)]

Channel ==
  [generation : Nat, closed : BOOLEAN, ready : SUBSET Calls,
   pending : UNION {[ids -> Nat] : ids \in SUBSET Calls},
   failing : {"none", "closed", "fatal"}, cancelled : BOOLEAN]

Browser ==
  [stage : {"away", "resolving", "live", "failed", "closed"}, generation : Nat, mounts : Nat,
   reports : Nat, session : Nat, applied : Nat, pending : SUBSET Calls,
   work : SUBSET [id : Calls, generation : Nat, aborted : BOOLEAN],
   inspection : Nat, unsent : BOOLEAN]

Model == [revision : Nat, seq : Nat, errors : Errors]

TypeInv ==
  /\ call \in [Calls -> Coroutines]
  /\ channel \in Channel /\ IsFiniteSet(DOMAIN channel.pending)
  /\ accepted \in [revision : Nat, seq : Nat, errors : Errors, updates : Nat]
  /\ browser \in Browser
  /\ diag \in [revision : Nat, errors : Errors, model : Model]
  /\ toBrowser \in Seq(BrowserMessage)
  /\ toPython \in Seq(PythonMessage)

-----------------------------------------------------------------------------
(* Diagnostics *)

Traits == {i \in 1..Len(toPython) : toPython[i].type = "traits"}

CloseComing == \E i \in 1..Len(toBrowser) : toBrowser[i].type = "close"

\* The model's diagnostics have the highest revision and reach Python, unless it
\* closed the view.
DiagInv ==
  /\ diag.revision = diag.model.revision
  /\ accepted.revision <= diag.model.revision
  /\ accepted.revision = diag.model.revision => accepted.errors = diag.model.errors
  /\ \A i \in Traits : /\ toPython[i].revision <= diag.model.revision
                       /\ toPython[i].revision = diag.model.revision
                            => toPython[i].errors = diag.model.errors
  /\ ~channel.closed /\ ~browser.unsent =>
       \/ accepted.revision = diag.model.revision
       \/ \E i \in Traits : toPython[i].revision = diag.model.revision
  /\ browser.stage \in {"resolving", "live", "failed"} => diag.model.errors = diag.errors

\* Nothing fails before the browser has reported a failure.
FatalInv ==
  /\ browser.reports = 0 => /\ diag.model.errors # "fatal" /\ channel.failing # "fatal"
                            /\ \A i \in Traits : toPython[i].errors # "fatal"
  /\ channel.failing = "closed" \/ CloseComing => channel.closed

-----------------------------------------------------------------------------
(* Generations *)

\* A mount that no longer is, or never was, the one that listens, and never will be.
Past(g) ==
  /\ g # None /\ g # browser.generation /\ g <= browser.mounts
  /\ browser.stage = "resolving" => g < browser.mounts

\* What Python hears of generations: each mount has one of its own, and after the live
\* one nothing else is announced.
TrailInv ==
  /\ \A g \in {channel.generation, browser.inspection}
               \cup {toPython[i].generation : i \in Traits} :
       g <= browser.mounts /\ (browser.stage = "resolving" => g < browser.mounts)
  /\ IF browser.stage = "live" THEN /\ browser.generation = browser.mounts
                                    /\ browser.generation # None
                                    /\ browser.inspection = browser.generation
     ELSE browser.generation = None
  /\ browser.generation # None =>
       \A j \in Traits : /\ channel.generation = browser.generation
                              => toPython[j].generation = browser.generation
                         /\ \A i \in Traits :
                              i < j /\ toPython[i].generation = browser.generation
                                => toPython[j].generation = browser.generation

Queued(c) == {call[c].queue[i] : i \in 1..Len(call[c].queue)}

Holding == {"named", "checked", "registered", "sending", "sent"}

\* A generation that a call has been given is the channel's, or past.
Named(c) ==
  /\ call[c].pc \in Holding \/ call[c].future = "named" \/ "named" \in Queued(c)
       => call[c].generation # None
  /\ call[c].generation <= browser.mounts
  /\ browser.stage = "resolving" => call[c].generation < browser.mounts
  /\ \/ call[c].generation = None \/ call[c].generation = channel.generation
     \/ Past(call[c].generation) \/ channel.closed

-----------------------------------------------------------------------------
(* Requests *)

Tabled(c) ==
  /\ c \in channel.ready => call[c].pc \in {"looking", "waiting"}
  /\ c \in DOMAIN channel.pending => call[c].pc \in {"registered", "sending", "sent"}

Asked == {"sent"} \cup Over

IsRequest(m, c) == m.type = "request" /\ m.id = c

Requests(c) == {i \in 1..Len(toBrowser) : IsRequest(toBrowser[i], c)}

Answered(c) ==
  \E i \in 1..Len(toPython) : toPython[i].type = "response" /\ toPython[i].id = c

\* The browser neither works for the call nor will be asked to.
Done(c) == Requests(c) = {} /\ c \notin browser.pending

\* A call with a generation asks once, and is answered when the browser is done with it.
Asks(c) ==
  /\ call[c].pc \notin Asked \/ call[c].generation = None =>
       Done(c) /\ ~Answered(c) /\ \A w \in browser.work : w.id # c
  /\ \A i \in Requests(c) : /\ toBrowser[i].generation = call[c].generation
                            /\ \A j \in Requests(c) : i = j
  /\ c \in browser.pending =>
       Requests(c) = {} /\ call[c].generation = browser.generation
  /\ \A w \in browser.work : w.id = c =>
       /\ Requests(c) = {}
       /\ w.aborted => c \notin browser.pending
       /\ \A v \in browser.work : v.id = c => v = w
  /\ Answered(c) => Done(c)

\* The browser will drop the call with its mount.
Gone(c) == Past(call[c].generation) \/ CloseComing

\* The browser will be told, after it was asked.
Cancelled(c) ==
  \E j \in 1..Len(toBrowser) :
    /\ toBrowser[j] = [type |-> "cancel", id |-> c, generation |-> call[c].generation]
    /\ \A i \in Requests(c) : i < j

\* Who has left the table was answered, or the browser drops it all the same.
Kept(c) ==
  /\ call[c].pc \in {"registered", "sending"} => c \in DOMAIN channel.pending \/ Gone(c)
  /\ call[c].pc = "sent" => c \in DOMAIN channel.pending \/ Gone(c) \/ Done(c)
  /\ call[c].pc \in Over => Gone(c) \/ Done(c) \/ Cancelled(c)

CallInv(c) == Named(c) /\ Tabled(c) /\ Asks(c) /\ (browser.reports = 0 => Kept(c))

IInv == TypeInv /\ DiagInv /\ FatalInv /\ TrailInv /\ \A c \in Calls : CallInv(c)

-----------------------------------------------------------------------------
(* Sequences and calls *)

LEMMA ConcatFacts ==
  ASSUME NEW S, NEW w \in Seq(S), NEW s \in Seq(S)
  PROVE  LET v == w \o s
         IN  /\ v \in Seq(S) /\ Len(v) = Len(w) + Len(s) /\ Len(w) \in Nat /\ Len(s) \in Nat
             /\ \A i \in 1..Len(w) : v[i] = w[i]
             /\ \A i \in 1..Len(s) : v[Len(w) + i] = s[i]
  OBVIOUS

LEMMA AppendFacts ==
  ASSUME NEW S, NEW w \in Seq(S), NEW m \in S
  PROVE  LET v == Append(w, m)
         IN  /\ v \in Seq(S) /\ Len(v) = Len(w) + 1 /\ Len(w) \in Nat
             /\ \A i \in 1..Len(w) : v[i] = w[i]
             /\ v[Len(w) + 1] = m
  OBVIOUS

LEMMA TailFacts ==
  ASSUME NEW S, NEW w \in Seq(S), w # <<>>
  PROVE  LET v == Tail(w)
         IN  /\ v \in Seq(S) /\ Len(w) = Len(v) + 1 /\ Len(v) \in Nat
             /\ \A i \in 1..Len(v) : v[i] = w[i + 1]
             /\ Head(w) = w[1] /\ Head(w) \in S /\ 1 \in 1..Len(w)
  OBVIOUS

PCs == {"idle", "adding", "looking", "waiting", "named", "checked", "registered", "sending",
        "sent"} \cup Over

LEMMA CallTyped ==
  ASSUME TypeInv, NEW c \in Calls
  PROVE  /\ call[c] \in Coroutines /\ call[c].pc \in PCs /\ call[c].generation \in Nat
         /\ call[c].future \in {"none"} \cup Outcomes /\ call[c].queue \in Seq(Outcomes)
  BY DEF TypeInv, Coroutines, PCs

\* Only the coroutine of c moves on.
Moved(c, pc) ==
  /\ call' \in [Calls -> Coroutines] /\ call'[c].pc = pc
  /\ \A d \in Calls : d # c => call'[d] = call[d]

LEMMA GotoFacts ==
  ASSUME TypeInv, NEW c \in Calls, NEW pc \in PCs, Goto(c, pc)
  PROVE  /\ Moved(c, pc)
         /\ call'[c].generation = call[c].generation
         /\ call'[c].future = call[c].future /\ call'[c].queue = call[c].queue
  BY DEF TypeInv, Goto, Coroutines, PCs, Moved

LEMMA EndFacts ==
  ASSUME TypeInv, NEW c \in Calls, NEW outcome \in Over, End(c, outcome)
  PROVE  /\ Moved(c, outcome)
         /\ call'[c].generation = call[c].generation
         /\ call'[c].future = "none" /\ call'[c].queue = <<>>
  <1> DEFINE empty == <<>>
             ended == [call[c] EXCEPT !.pc = outcome, !.future = "none", !.queue = empty]
  <1>1. call' = [call EXCEPT ![c] = ended]
    BY DEF End
  <1>2. empty \in Seq(Outcomes) /\ call \in [Calls -> Coroutines]
    BY DEF TypeInv
  <1> HIDE DEF empty
  <1>3. /\ ended \in Coroutines /\ ended.pc = outcome /\ ended.generation = call[c].generation
        /\ ended.future = "none" /\ ended.queue = empty
    BY <1>2 DEF Coroutines
  <1> HIDE DEF ended
  <1>4. QED
    BY <1>1, <1>2, <1>3 DEF Moved, empty

-----------------------------------------------------------------------------
(* Steps of Python that receive nothing *)

PythonMoves ==
  /\ UNCHANGED <<browser, diag, toPython>>
  /\ accepted'.revision = accepted.revision /\ accepted'.errors = accepted.errors
  /\ channel.closed => channel'.closed
  /\ channel'.generation = channel.generation \/ (channel'.closed /\ channel'.generation = None)
  /\ channel'.failing = "closed" => channel'.closed
  /\ channel'.failing = "fatal" => channel.failing = "fatal"
  /\ Len(toBrowser') >= Len(toBrowser)
  /\ \A i \in 1..Len(toBrowser) : toBrowser'[i] = toBrowser[i]
  /\ \A i \in 1..Len(toBrowser') :
       i > Len(toBrowser) /\ toBrowser'[i].type = "close" => channel'.closed

LEMMA PythonKeeps ==
  ASSUME IInv, TypeInv', PythonMoves
  PROVE  DiagInv' /\ FatalInv' /\ TrailInv'
  <1>1. Traits' = Traits /\ \A i \in Traits : toPython'[i] = toPython[i]
    BY DEF Traits, PythonMoves
  <1>2. CloseComing' => channel'.closed
    <2>1. SUFFICES ASSUME NEW i \in 1..Len(toBrowser'), toBrowser'[i].type = "close"
                   PROVE  channel'.closed
      BY DEF CloseComing
    <2>2. CASE i > Len(toBrowser)
      BY <2>1, <2>2 DEF PythonMoves
    <2>3. CASE ~(i > Len(toBrowser))
      <3>1. Len(toBrowser) \in Nat
        BY DEF IInv, TypeInv
      <3>2. i \in 1..Len(toBrowser)
        BY <2>3, <3>1
      <3>3. CloseComing
        BY <2>1, <3>2 DEF CloseComing, PythonMoves
      <3>4. QED
        BY <3>3 DEF IInv, FatalInv, PythonMoves
    <2>4. QED
      BY <2>2, <2>3
  <1>3. DiagInv'
    BY <1>1 DEF IInv, DiagInv, PythonMoves
  <1>4. FatalInv'
    BY <1>1, <1>2 DEF IInv, FatalInv, PythonMoves
  <1>5. TrailInv'
    <2>1. channel'.generation = channel.generation \/ channel'.generation = None
      BY DEF PythonMoves
    <2>2. None <= browser.mounts /\ (browser.stage = "resolving" => None < browser.mounts)
      <3>1. channel.generation \in Nat /\ browser.mounts \in Nat
        BY DEF IInv, TypeInv, Browser, Channel
      <3>2. browser.stage = "resolving" => channel.generation < browser.mounts
        BY DEF IInv, TrailInv
      <3>3. QED
        BY <3>1, <3>2 DEF None
    <2>3. browser' = browser
      BY DEF PythonMoves
    <2>4. \A g \in {channel'.generation, browser.inspection}
                      \cup {toPython[i].generation : i \in Traits} :
            g <= browser.mounts /\ (browser.stage = "resolving" => g < browser.mounts)
      BY <2>1, <2>2 DEF IInv, TrailInv
    <2>5. browser.generation # None /\ channel'.generation = browser.generation
            => channel.generation = browser.generation
      BY <2>1
    <2>6. {toPython'[i].generation : i \in Traits'} = {toPython[i].generation : i \in Traits}
      BY <1>1
    <2>7. \A g \in {channel'.generation, browser'.inspection}
                      \cup {toPython'[i].generation : i \in Traits'} :
            g <= browser'.mounts /\ (browser'.stage = "resolving" => g < browser'.mounts)
      BY <2>3, <2>4, <2>6
    <2>8. IF browser'.stage = "live" THEN /\ browser'.generation = browser'.mounts
                                          /\ browser'.generation # None
                                          /\ browser'.inspection = browser'.generation
          ELSE browser'.generation = None
      BY <2>3 DEF IInv, TrailInv
    <2>9. browser'.generation # None =>
            \A j \in Traits' : /\ channel'.generation = browser'.generation
                                    => toPython'[j].generation = browser'.generation
                               /\ \A i \in Traits' :
                                    i < j /\ toPython'[i].generation = browser'.generation
                                      => toPython'[j].generation = browser'.generation
      BY <1>1, <2>3, <2>5 DEF IInv, TrailInv
    <2>10. QED
      BY <2>7, <2>8, <2>9 DEF TrailInv
  <1>6. QED
    BY <1>3, <1>4, <1>5

NothingNew(c) ==
  \A i \in 1..Len(toBrowser') : i > Len(toBrowser) => ~IsRequest(toBrowser'[i], c)

LEMMA RequestsStay ==
  ASSUME IInv, TypeInv', PythonMoves, NEW c, NothingNew(c)
  PROVE  /\ Requests(c)' = Requests(c)
         /\ \A i \in Requests(c) : toBrowser'[i] = toBrowser[i]
  <1>1. Len(toBrowser) \in Nat /\ Len(toBrowser') \in Nat
    BY DEF IInv, TypeInv
  <1>2. \A i \in 1..Len(toBrowser') : ~(i > Len(toBrowser)) => i \in 1..Len(toBrowser)
    BY <1>1
  <1>3. \A i \in 1..Len(toBrowser) : i \in 1..Len(toBrowser') /\ ~(i > Len(toBrowser))
    BY <1>1 DEF PythonMoves
  <1>4. QED
    BY <1>2, <1>3 DEF Requests, NothingNew, PythonMoves

LEMMA PromisesStay ==
  ASSUME IInv, TypeInv', PythonMoves, NEW c, NothingNew(c),
         call'[c].generation = call[c].generation
  PROVE  /\ Gone(c) => Gone(c)'
         /\ Done(c) => Done(c)'
         /\ Cancelled(c) => Cancelled(c)'
  <1>1. /\ Requests(c)' = Requests(c)
    BY RequestsStay
  <1>2. \A i \in 1..Len(toBrowser) : i \in 1..Len(toBrowser') /\ toBrowser'[i] = toBrowser[i]
    BY DEF IInv, TypeInv, PythonMoves
  <1>3. Gone(c) => Gone(c)'
    BY <1>2 DEF Gone, CloseComing, Past, PythonMoves
  <1>4. Done(c) => Done(c)'
    BY <1>1 DEF Done, PythonMoves
  <1>5. Cancelled(c) => Cancelled(c)'
    BY <1>1, <1>2 DEF Cancelled
  <1>6. QED
    BY <1>3, <1>4, <1>5

\* A call whose coroutine goes on, or stays, without sending its request.
LEMMA CallGoesOn ==
  ASSUME IInv, TypeInv', PythonMoves, NEW c \in Calls, NothingNew(c), Tabled(c)',
         call'[c].pc \notin Asked => call[c].pc \notin Asked,
         browser.reports = 0 /\ call'[c].pc \in Over =>
           \/ call[c].pc \notin Asked \/ call[c].pc \in Over
           \/ Gone(c)' \/ Done(c)' \/ Cancelled(c)',
         \/ call'[c].generation = call[c].generation
         \/ call[c].pc \notin Asked /\ call'[c].generation = channel.generation,
         call'[c].pc \in Holding \/ call'[c].future = "named" \/ "named" \in Queued(c)'
           => call'[c].generation # None,
         browser.reports = 0 /\ call'[c].pc \in {"registered", "sending", "sent"} =>
           \/ c \in DOMAIN channel'.pending
           \/ Gone(c)' \/ (call'[c].pc = "sent" /\ Done(c)')
  PROVE  CallInv(c)'
  <1>1. Requests(c)' = Requests(c) /\ \A i \in Requests(c) : toBrowser'[i] = toBrowser[i]
    BY RequestsStay
  <1>2. Named(c)'
    <2>1. /\ channel.generation <= browser.mounts
          /\ browser.stage = "resolving" => channel.generation < browser.mounts
      BY DEF IInv, TrailInv
    <2>2. Named(c)
      BY DEF IInv, CallInv
    <2>3. browser' = browser
      BY DEF PythonMoves
    <2>4. /\ call'[c].generation <= browser'.mounts
          /\ browser'.stage = "resolving" => call'[c].generation < browser'.mounts
      BY <2>1, <2>2, <2>3 DEF Named
    <2>5. \/ call'[c].generation = None \/ call'[c].generation = channel'.generation
          \/ Past(call[c].generation)' \/ channel'.closed
      BY <2>2, <2>3 DEF Named, PythonMoves, Past
    <2>6. QED
      BY <2>4, <2>5 DEF Named
  <1>3. Asks(c)'
    <2>1. Asks(c)
      BY DEF IInv, CallInv
    <2>2. browser' = browser /\ toPython' = toPython
      BY DEF PythonMoves
    <2>3. Done(c)' <=> Done(c)
      BY <1>1, <2>2 DEF Done
    <2>4. Answered(c)' <=> Answered(c)
      BY <2>2 DEF Answered
    <2>5. CASE call'[c].generation = call[c].generation
      BY <1>1, <2>1, <2>2, <2>3, <2>4, <2>5 DEF Asks
    <2>6. CASE call[c].pc \notin Asked
      <3>1. Requests(c) = {} /\ c \notin browser.pending
        BY <2>1, <2>6 DEF Asks, Done
      <3>2. QED
        BY <1>1, <2>1, <2>2, <2>3, <2>4, <2>6, <3>1 DEF Asks
    <2>7. QED
      BY <2>5, <2>6
  <1>4. ASSUME browser.reports = 0
        PROVE  Kept(c)'
    <2>1. call[c].pc \notin Asked => Done(c)'
      BY <1>1 DEF IInv, CallInv, Asks, Done, PythonMoves
    <2>2. CASE call'[c].pc \in Over
      <3>1. call[c].pc \in Over => Gone(c)' \/ Done(c)' \/ Cancelled(c)'
        <4>1. call[c].pc \in Over => call'[c].generation = call[c].generation
          BY DEF Asked
        <4>2. call[c].pc \in Over => Gone(c) \/ Done(c) \/ Cancelled(c)
          BY <1>4 DEF IInv, CallInv, Kept
        <4>3. QED
          BY <4>1, <4>2, PromisesStay
      <3>2. call'[c].pc \notin {"registered", "sending", "sent"}
        BY <2>2 DEF Over
      <3>3. QED
        BY <1>4, <2>1, <2>2, <3>1, <3>2 DEF Kept
    <2>3. CASE call'[c].pc \notin Over
      BY <1>4, <2>3 DEF Kept
    <2>4. QED
      BY <2>2, <2>3
  <1>5. QED
    BY <1>2, <1>3, <1>4 DEF CallInv, PythonMoves

\* A call that another step is about: its coroutine stays where it is.
LEMMA CallStays ==
  ASSUME IInv, TypeInv', PythonMoves, NEW c \in Calls, NothingNew(c),
         call'[c].pc = call[c].pc, call'[c].generation = call[c].generation,
         call'[c].future = "named" \/ "named" \in Queued(c)'
           => call[c].future = "named" \/ "named" \in Queued(c),
         c \in channel'.ready => c \in channel.ready,
         c \in DOMAIN channel'.pending => c \in DOMAIN channel.pending,
         browser.reports = 0 /\ c \in DOMAIN channel.pending =>
           c \in DOMAIN channel'.pending \/ Gone(c)'
  PROVE  CallInv(c)'
  <1>1. Tabled(c)' /\ Named(c)
    BY DEF IInv, CallInv, Tabled
  <1>2. ASSUME browser.reports = 0
        PROVE  Kept(c)
    BY <1>2 DEF IInv, CallInv
  <1>3. browser.reports = 0 /\ call'[c].pc \in {"registered", "sending", "sent"} =>
          \/ c \in DOMAIN channel'.pending
          \/ Gone(c)' \/ (call'[c].pc = "sent" /\ Done(c)')
    BY <1>2, PromisesStay DEF Kept
  <1>4. call'[c].pc \in Holding \/ call'[c].future = "named" \/ "named" \in Queued(c)'
           => call'[c].generation # None
    BY <1>1 DEF Named
  <1>5. QED
    BY <1>1, <1>3, <1>4, CallGoesOn

-----------------------------------------------------------------------------
(* The coroutines *)

LEMMA OneMoves ==
  ASSUME IInv, NEW c \in Calls, NEW pc, Moved(c, pc), TypeInv', PythonMoves, CallInv(c)',
         \A d \in Calls : d # c => /\ NothingNew(d)
                                   /\ d \in channel'.ready => d \in channel.ready
                                   /\ d \in DOMAIN channel'.pending
                                        <=> d \in DOMAIN channel.pending
  PROVE  IInv'
  <1>1. ASSUME NEW d \in Calls
        PROVE  CallInv(d)'
    <2>1. CASE d = c
      BY <2>1
    <2>2. CASE d # c
      <3>1. call'[d] = call[d]
        BY <2>2 DEF Moved
      <3>2. Queued(d)' = Queued(d)
        BY <3>1 DEF Queued
      <3>3. QED
        BY <2>2, <3>1, <3>2, CallStays
    <2>3. QED
      BY <2>1, <2>2
  <1>2. QED
    BY <1>1, PythonKeeps DEF IInv

\* A coroutine that touches nothing but itself.
LEMMA AloneMoves ==
  ASSUME IInv, NEW c \in Calls, NEW pc, Moved(c, pc),
         UNCHANGED <<channel, accepted, browser, diag, toBrowser, toPython>>
  PROVE  TypeInv' /\ PythonMoves /\ \A d : NothingNew(d)
  <1>1. TypeInv'
    BY DEF IInv, TypeInv, Moved
  <1>2. PythonMoves
    BY DEF IInv, TypeInv, PythonMoves, FatalInv
  <1>3. \A d : NothingNew(d)
    BY DEF NothingNew, IInv, TypeInv
  <1>4. QED
    BY <1>1, <1>2, <1>3

LEMMA Named_generation ==
  ASSUME IInv, NEW c \in Calls
  PROVE  Named(c) /\ Tabled(c)
  BY DEF IInv, CallInv

LEMMA RefusalFacts ==
  (Refusal # "none" => Refusal \in Over) /\ \A c : Objection(c) # "none" => Objection(c) \in Over
  BY DEF Refusal, Objection, Over

LEMMA RequestKeeps ==
  ASSUME IInv, NEW c \in Calls, Request(c)
  PROVE  IInv'
  <1>1. /\ call[c].pc = "idle" /\ TypeInv /\ Named(c) /\ Tabled(c)
        /\ UNCHANGED <<channel, accepted, browser, diag, toBrowser, toPython>>
    BY Named_generation DEF Request, At, IInv
  <1>2. "idle" \notin Asked /\ "idle" \notin Over /\ Over \cap Holding = {}
    BY DEF Asked, Over, Holding
  <1>3. Tabled(c)'
    BY <1>1 DEF Tabled
  <1>4. CASE Refusal # "none" /\ End(c, Refusal)
    <2>1. Refusal \in Over
      BY <1>4, RefusalFacts
    <2>2. /\ Moved(c, Refusal) /\ call'[c].generation = call[c].generation
          /\ call'[c].future = "none" /\ call'[c].queue = <<>>
      BY <1>1, <1>4, <2>1, EndFacts
    <2>3. TypeInv' /\ PythonMoves /\ \A d : NothingNew(d)
      BY <1>1, <2>2, AloneMoves
    <2>4. Queued(c)' = {} /\ call'[c].pc \in Over
      BY <2>1, <2>2 DEF Queued, Moved
    <2>5. call'[c].pc \notin {"registered", "sending", "sent"}
      BY <2>4 DEF Over
    <2>6. CallInv(c)'
      BY <1>1, <1>2, <1>3, <2>2, <2>3, <2>4, <2>5, CallGoesOn
    <2>7. QED
      BY <1>1, <2>2, <2>3, <2>6, OneMoves
  <1>5. CASE /\ Refusal = "none" /\ channel.generation # None
             /\ call' = [call EXCEPT ![c].pc = "named", ![c].generation = channel.generation]
    <2>1. /\ Moved(c, "named") /\ call'[c].generation = channel.generation
          /\ call'[c].future = call[c].future /\ call'[c].queue = call[c].queue
      BY <1>1, <1>5 DEF TypeInv, Coroutines, Moved, Channel
    <2>2. TypeInv' /\ PythonMoves /\ \A d : NothingNew(d)
      BY <1>1, <2>1, AloneMoves
    <2>3. call'[c].pc \notin Asked /\ call'[c].pc \notin {"registered", "sending", "sent"}
          /\ call'[c].pc \notin Over
      BY <2>1 DEF Moved, Asked, Over
    <2>4. CallInv(c)'
      BY <1>1, <1>2, <1>3, <1>5, <2>1, <2>2, <2>3, CallGoesOn
    <2>5. QED
      BY <1>1, <2>1, <2>2, <2>4, OneMoves
  <1>6. CASE Refusal = "none" /\ channel.generation = None /\ Goto(c, "adding")
    <2>1. /\ Moved(c, "adding") /\ call'[c].generation = call[c].generation
          /\ call'[c].future = call[c].future /\ call'[c].queue = call[c].queue
      BY <1>1, <1>6, GotoFacts DEF PCs
    <2>2. TypeInv' /\ PythonMoves /\ \A d : NothingNew(d)
      BY <1>1, <2>1, AloneMoves
    <2>3. call'[c].pc \notin Asked /\ call'[c].pc \notin Holding /\ call'[c].pc \notin Over
          /\ call'[c].pc \notin {"registered", "sending", "sent"} /\ Queued(c)' = Queued(c)
      BY <2>1 DEF Moved, Asked, Over, Holding, Queued
    <2>4. call'[c].future = "named" \/ "named" \in Queued(c)' => call'[c].generation # None
      BY <1>1, <2>1, <2>3 DEF Named
    <2>5. CallInv(c)'
      BY <1>1, <1>2, <1>3, <2>1, <2>2, <2>3, <2>4, CallGoesOn
    <2>6. QED
      BY <1>1, <2>1, <2>2, <2>5, OneMoves
  <1>7. QED
    BY <1>4, <1>5, <1>6 DEF Request

\* A coroutine that moves and writes _ready.
LEMMA ReadyMoves ==
  ASSUME IInv, NEW c \in Calls, NEW pc, Moved(c, pc), NEW ready \in SUBSET Calls,
         channel' = [channel EXCEPT !.ready = ready],
         UNCHANGED <<accepted, browser, diag, toBrowser, toPython>>
  PROVE  /\ TypeInv' /\ PythonMoves /\ \A d : NothingNew(d)
         /\ channel'.ready = ready /\ channel'.pending = channel.pending
         /\ channel'.generation = channel.generation
  <1>1. /\ channel' \in Channel /\ channel'.ready = ready /\ channel'.pending = channel.pending
        /\ channel'.generation = channel.generation /\ channel'.closed = channel.closed
        /\ channel'.failing = channel.failing
    BY DEF IInv, TypeInv, Channel
  <1>2. TypeInv'
    BY <1>1 DEF IInv, TypeInv, Moved
  <1>3. PythonMoves
    BY <1>1 DEF IInv, TypeInv, PythonMoves, FatalInv
  <1>4. \A d : NothingNew(d)
    BY DEF NothingNew, IInv, TypeInv
  <1>5. QED
    BY <1>1, <1>2, <1>3, <1>4

LEMMA AddReadyKeeps ==
  ASSUME IInv, NEW c \in Calls, AddReady(c)
  PROVE  IInv'
  <1>1. /\ call[c].pc = "adding" /\ TypeInv /\ Named(c) /\ Tabled(c)
        /\ channel' = [channel EXCEPT !.ready = channel.ready \cup {c}] /\ Goto(c, "looking")
        /\ UNCHANGED <<accepted, browser, diag, toBrowser, toPython>>
    BY Named_generation DEF AddReady, At, IInv
  <1>2. /\ Moved(c, "looking") /\ call'[c].generation = call[c].generation
        /\ call'[c].future = call[c].future /\ call'[c].queue = call[c].queue
    BY <1>1, GotoFacts DEF PCs
  <1>3. channel.ready \cup {c} \in SUBSET Calls
    BY <1>1 DEF TypeInv, Channel
  <1>4. /\ TypeInv' /\ PythonMoves /\ \A d : NothingNew(d)
        /\ channel'.ready = channel.ready \cup {c} /\ channel'.pending = channel.pending
        /\ channel'.generation = channel.generation
    BY <1>1, <1>2, <1>3, ReadyMoves
  <1>5. /\ call[c].pc \notin Asked /\ call'[c].pc \notin Asked /\ call'[c].pc \notin Holding
        /\ call'[c].pc \notin Over /\ call'[c].pc \notin {"registered", "sending", "sent"}
        /\ Queued(c)' = Queued(c)
    BY <1>1, <1>2 DEF Moved, Asked, Over, Holding, Queued
  <1>6. call'[c].future = "named" \/ "named" \in Queued(c)' => call'[c].generation # None
    BY <1>1, <1>2, <1>5 DEF Named
  <1>7. Tabled(c)'
    BY <1>1, <1>2, <1>4 DEF Tabled, Moved
  <1>8. CallInv(c)'
    BY <1>2, <1>4, <1>5, <1>6, <1>7, CallGoesOn
  <1>9. QED
    BY <1>2, <1>4, <1>8, OneMoves

LEMMA LookAgainKeeps ==
  ASSUME IInv, NEW c \in Calls, LookAgain(c)
  PROVE  IInv'
  <1>1. /\ call[c].pc = "looking" /\ TypeInv /\ Named(c) /\ Tabled(c)
        /\ UNCHANGED <<accepted, browser, diag, toBrowser, toPython>>
    BY Named_generation DEF LookAgain, At, IInv
  <1>2. /\ call[c].pc \notin Asked /\ call[c].pc \notin Over /\ c \notin DOMAIN channel.pending
        /\ channel.ready \ {c} \in SUBSET Calls
    BY <1>1 DEF Asked, Over, Tabled, TypeInv, Channel
  <1>3. CASE /\ Refusal # "none" /\ End(c, Refusal)
             /\ channel' = [channel EXCEPT !.ready = @ \ {c}]
    <2>1. Refusal \in Over /\ channel' = [channel EXCEPT !.ready = channel.ready \ {c}]
      BY <1>3, RefusalFacts
    <2>2. /\ Moved(c, Refusal) /\ call'[c].generation = call[c].generation
          /\ call'[c].future = "none" /\ call'[c].queue = <<>>
      BY <1>1, <1>3, <2>1, EndFacts
    <2>3. /\ TypeInv' /\ PythonMoves /\ \A d : NothingNew(d)
          /\ channel'.ready = channel.ready \ {c} /\ channel'.pending = channel.pending
      BY <1>1, <1>2, <2>1, <2>2, ReadyMoves
    <2>4. Queued(c)' = {} /\ call'[c].pc \in Over
      BY <2>1, <2>2 DEF Queued, Moved
    <2>5. call'[c].pc \notin {"registered", "sending", "sent"} /\ call'[c].pc \notin Holding
      BY <2>4 DEF Over, Holding
    <2>6. Tabled(c)'
      BY <1>2, <2>3 DEF Tabled
    <2>7. CallInv(c)'
      BY <1>2, <2>2, <2>3, <2>4, <2>5, <2>6, CallGoesOn
    <2>8. QED
      BY <2>2, <2>3, <2>7, OneMoves
  <1>4. CASE /\ Refusal = "none" /\ channel.generation # None
             /\ call' = [call EXCEPT ![c] = [@ EXCEPT !.pc = "named",
                                               !.generation = channel.generation, !.queue = <<>>]]
             /\ channel' = [channel EXCEPT !.ready = @ \ {c}]
    <2> DEFINE empty == <<>>
               named == [call[c] EXCEPT !.pc = "named", !.generation = channel.generation,
                                        !.queue = empty]
    <2>1. call' = [call EXCEPT ![c] = named]
      BY <1>4
    <2>2. empty \in Seq(Outcomes) /\ call \in [Calls -> Coroutines] /\ channel.generation \in Nat
      BY <1>1 DEF TypeInv, Channel
    <2> HIDE DEF empty
    <2>3. named \in Coroutines /\ named.pc = "named" /\ named.generation = channel.generation
      BY <2>2 DEF Coroutines
    <2> HIDE DEF named
    <2>4. Moved(c, "named") /\ call'[c].generation = channel.generation
      BY <2>1, <2>2, <2>3 DEF Moved
    <2>5. channel' = [channel EXCEPT !.ready = channel.ready \ {c}]
      BY <1>4
    <2>6. /\ TypeInv' /\ PythonMoves /\ \A d : NothingNew(d)
          /\ channel'.ready = channel.ready \ {c} /\ channel'.pending = channel.pending
      BY <1>1, <1>2, <2>4, <2>5, ReadyMoves
    <2>7. call'[c].pc \notin Asked /\ call'[c].pc \notin {"registered", "sending", "sent"}
          /\ call'[c].pc \notin Over
      BY <2>4 DEF Moved, Asked, Over
    <2>8. Tabled(c)'
      BY <1>2, <2>6 DEF Tabled
    <2>9. CallInv(c)'
      BY <1>2, <1>4, <2>4, <2>6, <2>7, <2>8, CallGoesOn
    <2>10. QED
      BY <2>4, <2>6, <2>9, OneMoves
  <1>5. CASE Refusal = "none" /\ channel.generation = None /\ Goto(c, "waiting") /\ UNCHANGED channel
    <2>1. /\ Moved(c, "waiting") /\ call'[c].generation = call[c].generation
          /\ call'[c].future = call[c].future /\ call'[c].queue = call[c].queue
      BY <1>1, <1>5, GotoFacts DEF PCs
    <2>2. TypeInv' /\ PythonMoves /\ \A d : NothingNew(d)
      BY <1>1, <1>5, <2>1, AloneMoves
    <2>3. call'[c].pc \notin Asked /\ call'[c].pc \notin Holding /\ call'[c].pc \notin Over
          /\ call'[c].pc \notin {"registered", "sending", "sent"} /\ Queued(c)' = Queued(c)
      BY <2>1 DEF Moved, Asked, Over, Holding, Queued
    <2>4. call'[c].future = "named" \/ "named" \in Queued(c)' => call'[c].generation # None
      BY <1>1, <2>1, <2>3 DEF Named
    <2>5. Tabled(c)'
      BY <1>2, <1>5, <2>1 DEF Tabled, Moved
    <2>6. CallInv(c)'
      BY <1>2, <2>1, <2>2, <2>3, <2>4, <2>5, CallGoesOn
    <2>7. QED
      BY <1>5, <2>1, <2>2, <2>6, OneMoves
  <1>6. QED
    BY <1>3, <1>4, <1>5 DEF LookAgain

LEMMA RunCompletionKeeps ==
  ASSUME IInv, NEW c \in Calls, RunCompletion(c)
  PROVE  IInv'
  <1> DEFINE rest == Tail(call[c].queue)
             first == IF call[c].future = "none" THEN Head(call[c].queue) ELSE call[c].future
  <1>1. /\ call[c].queue # <<>> /\ TypeInv
        /\ UNCHANGED <<channel, accepted, browser, diag, toBrowser, toPython>>
        /\ call' = [call EXCEPT ![c] = [call[c] EXCEPT !.queue = rest, !.future = first]]
    BY DEF RunCompletion, IInv, TypeInv
  <1>2. call[c] \in Coroutines /\ call[c].queue \in Seq(Outcomes) /\ call \in [Calls -> Coroutines]
    BY <1>1, CallTyped DEF TypeInv
  <1>3. /\ rest \in Seq(Outcomes) /\ Head(call[c].queue) \in Outcomes
        /\ Head(call[c].queue) \in Queued(c) /\ {rest[i] : i \in 1..Len(rest)} \subseteq Queued(c)
    <2>1. /\ rest \in Seq(Outcomes) /\ Len(call[c].queue) = Len(rest) + 1 /\ Len(rest) \in Nat
          /\ \A i \in 1..Len(rest) : rest[i] = call[c].queue[i + 1]
          /\ Head(call[c].queue) = call[c].queue[1] /\ Head(call[c].queue) \in Outcomes
          /\ 1 \in 1..Len(call[c].queue)
      BY <1>1, <1>2, TailFacts
    <2>2. \A i \in 1..Len(rest) : i + 1 \in 1..Len(call[c].queue)
      BY <2>1
    <2>3. QED
      BY <2>1, <2>2 DEF Queued
  <1>4. /\ first \in {"none"} \cup Outcomes
        /\ first = "named" => call[c].future = "named" \/ "named" \in Queued(c)
    BY <1>2, <1>3 DEF Coroutines
  <1> HIDE DEF rest, first
  <1>5. /\ Moved(c, call[c].pc) /\ call'[c].generation = call[c].generation
        /\ call'[c].queue = rest /\ call'[c].future = first
    BY <1>1, <1>2, <1>3, <1>4 DEF Moved, Coroutines
  <1>6. TypeInv' /\ PythonMoves /\ \A d : NothingNew(d)
    BY <1>1, <1>5, AloneMoves
  <1>7. call'[c].future = "named" \/ "named" \in Queued(c)'
          => call[c].future = "named" \/ "named" \in Queued(c)
    BY <1>3, <1>4, <1>5 DEF Queued
  <1>8. CallInv(c)'
    BY <1>1, <1>5, <1>6, <1>7, CallStays DEF Moved
  <1>9. QED
    BY <1>1, <1>5, <1>6, <1>8, OneMoves

LEMMA TimeOutKeeps ==
  ASSUME IInv, NEW c \in Calls, TimeOut(c)
  PROVE  IInv'
  <1>1. /\ TypeInv /\ UNCHANGED <<channel, accepted, browser, diag, toBrowser, toPython>>
        /\ call' = [call EXCEPT ![c].future = "timed out"]
    BY DEF TimeOut, IInv
  <1>2. /\ Moved(c, call[c].pc) /\ call'[c].generation = call[c].generation
        /\ call'[c].queue = call[c].queue /\ call'[c].future = "timed out"
    BY <1>1 DEF TypeInv, Coroutines, Moved, Outcomes, Over
  <1>3. TypeInv' /\ PythonMoves /\ \A d : NothingNew(d)
    BY <1>1, <1>2, AloneMoves
  <1>4. Queued(c)' = Queued(c)
    BY <1>2 DEF Queued
  <1>5. CallInv(c)'
    BY <1>1, <1>2, <1>3, <1>4, CallStays DEF Moved
  <1>6. QED
    BY <1>1, <1>2, <1>3, <1>5, OneMoves

LEMMA ResumeReadyKeeps ==
  ASSUME IInv, NEW c \in Calls, ResumeReady(c)
  PROVE  IInv'
  <1>1. /\ call[c].pc = "waiting" /\ TypeInv /\ Named(c) /\ Tabled(c)
        /\ channel' = [channel EXCEPT !.ready = channel.ready \ {c}]
        /\ UNCHANGED <<accepted, browser, diag, toBrowser, toPython>>
    BY Named_generation DEF ResumeReady, At, IInv
  <1>2. /\ call[c].pc \notin Asked /\ call[c].pc \notin Over /\ c \notin DOMAIN channel.pending
        /\ channel.ready \ {c} \in SUBSET Calls
    BY <1>1 DEF Asked, Over, Tabled, TypeInv, Channel
  <1>3. CASE /\ call[c].future = "named"
             /\ call' = [call EXCEPT ![c].pc = "named", ![c].future = "none"]
    <2>1. Moved(c, "named") /\ call'[c].generation = call[c].generation
      BY <1>1, <1>3 DEF TypeInv, Coroutines, Moved
    <2>2. /\ TypeInv' /\ PythonMoves /\ \A d : NothingNew(d)
          /\ channel'.ready = channel.ready \ {c} /\ channel'.pending = channel.pending
      BY <1>1, <1>2, <2>1, ReadyMoves
    <2>3. call'[c].pc \notin Asked /\ call'[c].pc \notin {"registered", "sending", "sent"}
          /\ call'[c].pc \notin Over
      BY <2>1 DEF Moved, Asked, Over
    <2>4. Tabled(c)' /\ call'[c].generation # None
      BY <1>1, <1>2, <1>3, <2>1, <2>2 DEF Tabled, Named
    <2>5. CallInv(c)'
      BY <1>2, <2>1, <2>2, <2>3, <2>4, CallGoesOn
    <2>6. QED
      BY <2>1, <2>2, <2>5, OneMoves
  <1>4. CASE call[c].future \in Over /\ End(c, call[c].future)
    <2>1. /\ Moved(c, call[c].future) /\ call'[c].generation = call[c].generation
          /\ call'[c].future = "none" /\ call'[c].queue = <<>>
      BY <1>1, <1>4, EndFacts
    <2>2. /\ TypeInv' /\ PythonMoves /\ \A d : NothingNew(d)
          /\ channel'.ready = channel.ready \ {c} /\ channel'.pending = channel.pending
      BY <1>1, <1>2, <2>1, ReadyMoves
    <2>3. Queued(c)' = {} /\ call'[c].pc \in Over
      BY <1>4, <2>1 DEF Queued, Moved
    <2>4. call'[c].pc \notin {"registered", "sending", "sent"} /\ call'[c].pc \notin Holding
      BY <2>3 DEF Over, Holding
    <2>5. Tabled(c)'
      BY <1>2, <2>2 DEF Tabled
    <2>6. CallInv(c)'
      BY <1>2, <2>1, <2>2, <2>3, <2>4, <2>5, CallGoesOn
    <2>7. QED
      BY <2>1, <2>2, <2>6, OneMoves
  <1>5. QED
    BY <1>3, <1>4 DEF ResumeReady

LEMMA CheckKeeps ==
  ASSUME IInv, NEW c \in Calls, Check(c)
  PROVE  IInv'
  <1>1. /\ call[c].pc = "named" /\ TypeInv /\ Named(c) /\ Tabled(c)
        /\ UNCHANGED <<channel, accepted, browser, diag, toBrowser, toPython>>
    BY Named_generation DEF Check, At, IInv
  <1>2. /\ call[c].pc \notin Asked /\ c \notin DOMAIN channel.pending /\ c \notin channel.ready
        /\ call[c].generation # None
    BY <1>1 DEF Asked, Over, Tabled, Named, Holding
  <1>3. Tabled(c)'
    BY <1>1, <1>2 DEF Tabled
  <1>4. CASE Objection(c) # "none" /\ End(c, Objection(c))
    <2>1. Objection(c) \in Over
      BY <1>4, RefusalFacts
    <2>2. /\ Moved(c, Objection(c)) /\ call'[c].generation = call[c].generation
          /\ call'[c].future = "none" /\ call'[c].queue = <<>>
      BY <1>1, <1>4, <2>1, EndFacts
    <2>3. TypeInv' /\ PythonMoves /\ \A d : NothingNew(d)
      BY <1>1, <2>2, AloneMoves
    <2>4. call'[c].pc \in Over
      BY <2>1, <2>2 DEF Moved
    <2>5. call'[c].pc \notin {"registered", "sending", "sent"}
      BY <2>4 DEF Over
    <2>6. CallInv(c)'
      BY <1>2, <1>3, <2>2, <2>3, <2>4, <2>5, CallGoesOn
    <2>7. QED
      BY <1>1, <2>2, <2>3, <2>6, OneMoves
  <1>5. CASE Objection(c) = "none" /\ Goto(c, "checked")
    <2>1. Moved(c, "checked") /\ call'[c].generation = call[c].generation
      BY <1>1, <1>5, GotoFacts DEF PCs
    <2>2. TypeInv' /\ PythonMoves /\ \A d : NothingNew(d)
      BY <1>1, <2>1, AloneMoves
    <2>3. call'[c].pc \notin Asked /\ call'[c].pc \notin {"registered", "sending", "sent"}
          /\ call'[c].pc \notin Over
      BY <2>1 DEF Moved, Asked, Over
    <2>4. CallInv(c)'
      BY <1>2, <1>3, <2>1, <2>2, <2>3, CallGoesOn
    <2>5. QED
      BY <1>1, <2>1, <2>2, <2>4, OneMoves
  <1>6. QED
    BY <1>4, <1>5 DEF Check

LEMMA RegisterKeeps ==
  ASSUME IInv, NEW c \in Calls, Register(c)
  PROVE  IInv'
  <1> DEFINE table == [i \in DOMAIN channel.pending \cup {c} |->
                         IF i = c THEN call[c].generation ELSE channel.pending[i]]
  <1>1. /\ call[c].pc = "checked" /\ TypeInv /\ Named(c) /\ Tabled(c) /\ Goto(c, "registered")
        /\ channel' = [channel EXCEPT !.pending = table]
        /\ UNCHANGED <<accepted, browser, diag, toBrowser, toPython>>
    BY Named_generation DEF Register, At, IInv
  <1>2. /\ DOMAIN table = DOMAIN channel.pending \cup {c}
        /\ table \in UNION {[ids -> Nat] : ids \in SUBSET Calls}
    <2>1. /\ DOMAIN channel.pending \in SUBSET Calls
          /\ \A i \in DOMAIN channel.pending : channel.pending[i] \in Nat
      BY <1>1 DEF TypeInv, Channel
    <2>2. call[c].generation \in Nat
      BY <1>1, CallTyped
    <2>3. table \in [DOMAIN channel.pending \cup {c} -> Nat]
      BY <2>1, <2>2
    <2>4. DOMAIN channel.pending \cup {c} \in SUBSET Calls
      BY <2>1
    <2>5. QED
      BY <2>3, <2>4
  <1>3. IsFiniteSet(DOMAIN channel.pending \cup {c})
    BY <1>1, FS_AddElement DEF TypeInv
  <1> HIDE DEF table
  <1>4. /\ channel' \in Channel /\ channel'.pending = table /\ channel'.ready = channel.ready
        /\ channel'.generation = channel.generation /\ channel'.closed = channel.closed
        /\ channel'.failing = channel.failing
    BY <1>1, <1>2 DEF TypeInv, Channel
  <1>5. Moved(c, "registered") /\ call'[c].generation = call[c].generation
    BY <1>1, GotoFacts DEF PCs
  <1>6. TypeInv'
    BY <1>1, <1>2, <1>3, <1>4, <1>5 DEF TypeInv, Moved
  <1>7. PythonMoves
    BY <1>1, <1>4 DEF IInv, TypeInv, PythonMoves, FatalInv
  <1>8. \A d : NothingNew(d)
    BY <1>1 DEF NothingNew, TypeInv
  <1>9. /\ call[c].pc \notin Asked /\ call'[c].pc \notin Asked /\ call'[c].pc \notin Over
        /\ c \notin channel.ready /\ call[c].generation # None
    BY <1>1, <1>5 DEF Asked, Over, Tabled, Named, Holding, Moved
  <1>10. Tabled(c)'
    BY <1>4, <1>5, <1>9 DEF Tabled, Moved
  <1>11. c \in DOMAIN channel'.pending
    BY <1>2, <1>4
  <1>12. CallInv(c)'
    BY <1>5, <1>6, <1>7, <1>8, <1>9, <1>10, <1>11, CallGoesOn
  <1>13. \A d \in Calls : d # c =>
           (d \in DOMAIN channel'.pending <=> d \in DOMAIN channel.pending)
    BY <1>2, <1>4
  <1>14. QED
    BY <1>4, <1>5, <1>6, <1>7, <1>8, <1>12, <1>13, OneMoves

LEMMA DroppedFacts ==
  ASSUME TypeInv, NEW ids
  PROVE  /\ Dropped(ids) \in Channel /\ IsFiniteSet(DOMAIN Dropped(ids).pending)
         /\ DOMAIN Dropped(ids).pending = DOMAIN channel.pending \ ids
         /\ Dropped(ids).generation = channel.generation /\ Dropped(ids).closed = channel.closed
         /\ Dropped(ids).ready = channel.ready /\ Dropped(ids).failing = channel.failing
         /\ Dropped(ids).cancelled = channel.cancelled
  <1> DEFINE table == [i \in DOMAIN channel.pending \ ids |-> channel.pending[i]]
  <1>1. Dropped(ids) = [channel EXCEPT !.pending = table]
    BY DEF Dropped
  <1>2. /\ DOMAIN table = DOMAIN channel.pending \ ids
        /\ table \in UNION {[is -> Nat] : is \in SUBSET Calls}
    <2>1. /\ DOMAIN channel.pending \in SUBSET Calls
          /\ \A i \in DOMAIN channel.pending : channel.pending[i] \in Nat
      BY DEF TypeInv, Channel
    <2>2. table \in [DOMAIN channel.pending \ ids -> Nat]
      BY <2>1
    <2>3. DOMAIN channel.pending \ ids \in SUBSET Calls
      BY <2>1
    <2>4. QED
      BY <2>2, <2>3
  <1>3. IsFiniteSet(DOMAIN channel.pending \ ids)
    BY FS_Subset DEF TypeInv
  <1> HIDE DEF table
  <1>4. QED
    BY <1>1, <1>2, <1>3 DEF TypeInv, Channel

LEMMA SentFacts ==
  ASSUME TypeInv, NEW s \in Seq(BrowserMessage), toBrowser' = toBrowser \o s
  PROVE  /\ toBrowser' \in Seq(BrowserMessage) /\ Len(toBrowser) \in Nat
         /\ Len(toBrowser') = Len(toBrowser) + Len(s)
         /\ \A i \in 1..Len(toBrowser) : toBrowser'[i] = toBrowser[i]
         /\ \A i \in 1..Len(s) : toBrowser'[Len(toBrowser) + i] = s[i]
         /\ \A i \in 1..Len(toBrowser') : i > Len(toBrowser) =>
              \E j \in 1..Len(s) : toBrowser'[i] = s[j]
  <1>1. /\ toBrowser' \in Seq(BrowserMessage)
        /\ Len(toBrowser') = Len(toBrowser) + Len(s) /\ Len(toBrowser) \in Nat /\ Len(s) \in Nat
        /\ \A i \in 1..Len(toBrowser) : toBrowser'[i] = toBrowser[i]
        /\ \A i \in 1..Len(s) : toBrowser'[Len(toBrowser) + i] = s[i]
    BY ConcatFacts DEF TypeInv
  <1>2. ASSUME NEW i \in 1..Len(toBrowser'), i > Len(toBrowser)
        PROVE  \E j \in 1..Len(s) : toBrowser'[i] = s[j]
    <2>1. i - Len(toBrowser) \in 1..Len(s) /\ Len(toBrowser) + (i - Len(toBrowser)) = i
      BY <1>1, <1>2
    <2>2. toBrowser'[Len(toBrowser) + (i - Len(toBrowser))] = s[i - Len(toBrowser)]
      BY <1>1, <2>1
    <2>3. QED
      BY <2>1, <2>2
  <1>3. QED
    BY <1>1, <1>2

LEMMA FinallyMoves ==
  ASSUME IInv, NEW c \in Calls, NEW pc, Moved(c, pc), call'[c].generation = call[c].generation,
         Finally(c), UNCHANGED <<accepted, browser, diag, toPython>>
  PROVE  /\ TypeInv' /\ PythonMoves /\ \A d : NothingNew(d)
         /\ channel'.ready = channel.ready /\ channel'.generation = channel.generation
         /\ DOMAIN channel'.pending = DOMAIN channel.pending \ {c}
         /\ c \in DOMAIN channel.pending => Cancelled(c)'
  <1> DEFINE cancel == [type |-> "cancel", id |-> c, generation |-> call[c].generation]
             s == IF c \in DOMAIN channel.pending THEN <<cancel>> ELSE <<>>
  <1>1. TypeInv /\ channel' = Dropped({c}) /\ toBrowser' = toBrowser \o s
    BY DEF IInv, Finally
  <1>2. cancel \in BrowserMessage /\ cancel.type = "cancel"
    BY <1>1, CallTyped DEF BrowserMessage
  <1>3. /\ s \in Seq(BrowserMessage) /\ \A j \in 1..Len(s) : s[j] = cancel
        /\ c \in DOMAIN channel.pending => Len(s) = 1
    <2> HIDE DEF cancel
    <2>1. QED
      BY <1>2
  <1> HIDE DEF s
  <1>4. /\ toBrowser' \in Seq(BrowserMessage) /\ Len(toBrowser) \in Nat
        /\ Len(toBrowser') = Len(toBrowser) + Len(s)
        /\ \A i \in 1..Len(toBrowser) : toBrowser'[i] = toBrowser[i]
        /\ \A i \in 1..Len(s) : toBrowser'[Len(toBrowser) + i] = s[i]
        /\ \A i \in 1..Len(toBrowser') : i > Len(toBrowser) =>
             \E j \in 1..Len(s) : toBrowser'[i] = s[j]
    BY <1>1, <1>3, SentFacts
  <1>5. /\ channel' \in Channel /\ IsFiniteSet(DOMAIN channel'.pending)
        /\ DOMAIN channel'.pending = DOMAIN channel.pending \ {c}
        /\ channel'.generation = channel.generation /\ channel'.closed = channel.closed
        /\ channel'.ready = channel.ready /\ channel'.failing = channel.failing
    BY <1>1, DroppedFacts
  <1>6. TypeInv'
    BY <1>1, <1>4, <1>5 DEF TypeInv, Moved
  <1>7. \A i \in 1..Len(toBrowser') : i > Len(toBrowser) => toBrowser'[i] = cancel
    BY <1>3, <1>4
  <1>8. \A d : NothingNew(d)
    BY <1>2, <1>7 DEF NothingNew, IsRequest
  <1>9. Len(toBrowser') >= Len(toBrowser)
    BY <1>3, <1>4
  <1>10. PythonMoves
    <2> HIDE DEF cancel
    <2>1. \A i \in 1..Len(toBrowser') :
            i > Len(toBrowser) /\ toBrowser'[i].type = "close" => channel'.closed
      BY <1>2, <1>7
    <2>2. channel'.failing = "closed" => channel'.closed
      BY <1>5 DEF IInv, FatalInv
    <2>3. UNCHANGED <<browser, diag, toPython>> /\ accepted' = accepted
      OBVIOUS
    <2>4. QED
      BY <1>4, <1>5, <1>9, <2>1, <2>2, <2>3 DEF PythonMoves
  <1>11. ASSUME c \in DOMAIN channel.pending
         PROVE  Cancelled(c)'
    <2>1. /\ Len(toBrowser') = Len(toBrowser) + 1
          /\ Len(toBrowser') \in 1..Len(toBrowser') /\ Len(toBrowser') > Len(toBrowser)
      <3>1. Len(toBrowser') = Len(toBrowser) + 1 /\ Len(toBrowser) \in Nat
        BY <1>3, <1>4, <1>11
      <3> DEFINE n == Len(toBrowser)
      <3>2. n \in Nat /\ Len(toBrowser') = n + 1
        BY <3>1
      <3> HIDE DEF n
      <3>3. n + 1 \in 1..(n + 1) /\ n + 1 > n
        BY <3>2
      <3>4. QED
        BY <3>2, <3>3 DEF n
    <2>2. toBrowser'[Len(toBrowser')] = cancel
      BY <1>7, <2>1
    <2>3. \A i \in Requests(c)' : i < Len(toBrowser')
      <3>1. SUFFICES ASSUME NEW i \in 1..Len(toBrowser'), IsRequest(toBrowser'[i], c)
                     PROVE  i < Len(toBrowser')
        BY DEF Requests
      <3>2. ~(i > Len(toBrowser))
        BY <3>1, <1>8 DEF NothingNew
      <3>3. QED
        BY <3>2, <2>1, <1>4
    <2>4. cancel = [type |-> "cancel", id |-> c, generation |-> call'[c].generation]
      OBVIOUS
    <2> HIDE DEF cancel
    <2>5. QED
      BY <2>1, <2>2, <2>3, <2>4 DEF Cancelled
  <1>12. QED
    BY <1>5, <1>6, <1>8, <1>10, <1>11

LEMMA RecheckKeeps ==
  ASSUME IInv, NEW c \in Calls, Recheck(c)
  PROVE  IInv'
  <1>1. /\ call[c].pc = "registered" /\ TypeInv /\ Named(c) /\ Tabled(c)
        /\ UNCHANGED <<accepted, browser, diag, toPython>>
    BY Named_generation DEF Recheck, At, IInv
  <1>2. /\ call[c].pc \notin Asked /\ c \notin channel.ready /\ call[c].generation # None
    BY <1>1 DEF Asked, Over, Tabled, Named, Holding
  <1>3. CASE Objection(c) # "none" /\ End(c, Objection(c)) /\ Finally(c)
    <2>1. Objection(c) \in Over
      BY <1>3, RefusalFacts
    <2>2. /\ Moved(c, Objection(c)) /\ call'[c].generation = call[c].generation
      BY <1>1, <1>3, <2>1, EndFacts
    <2>3. /\ TypeInv' /\ PythonMoves /\ \A d : NothingNew(d)
          /\ channel'.ready = channel.ready
          /\ DOMAIN channel'.pending = DOMAIN channel.pending \ {c}
      BY <1>1, <1>3, <2>2, FinallyMoves
    <2>4. call'[c].pc \in Over
      BY <2>1, <2>2 DEF Moved
    <2>5. call'[c].pc \notin {"registered", "sending", "sent"}
      BY <2>4 DEF Over
    <2>6. Tabled(c)'
      BY <1>2, <2>3 DEF Tabled
    <2>7. CallInv(c)'
      BY <1>2, <2>2, <2>3, <2>4, <2>5, <2>6, CallGoesOn
    <2>8. QED
      BY <2>2, <2>3, <2>7, OneMoves
  <1>4. CASE Objection(c) = "none" /\ Goto(c, "sending") /\ UNCHANGED <<channel, toBrowser>>
    <2>1. Moved(c, "sending") /\ call'[c].generation = call[c].generation
      BY <1>1, <1>4, GotoFacts DEF PCs
    <2>2. TypeInv' /\ PythonMoves /\ \A d : NothingNew(d)
      BY <1>1, <1>4, <2>1, AloneMoves
    <2>3. call'[c].pc \notin Asked /\ call'[c].pc \notin Over
      BY <2>1 DEF Moved, Asked, Over
    <2>4. Tabled(c)'
      BY <1>2, <1>4, <2>1 DEF Tabled, Moved
    <2>5. ASSUME browser.reports = 0
          PROVE  c \in DOMAIN channel'.pending \/ Gone(c)'
      <3>1. c \in DOMAIN channel.pending \/ Gone(c)
        BY <1>1, <2>5 DEF IInv, CallInv, Kept
      <3>2. QED
        BY <1>4, <2>1, <2>2, <3>1, PromisesStay
    <2>6. CallInv(c)'
      BY <1>2, <2>1, <2>2, <2>3, <2>4, <2>5, CallGoesOn
    <2>7. QED
      BY <1>4, <2>1, <2>2, <2>6, OneMoves
  <1>5. QED
    BY <1>3, <1>4 DEF Recheck

LEMMA ResumeKeeps ==
  ASSUME IInv, NEW c \in Calls, Resume(c)
  PROVE  IInv'
  <1>1. /\ call[c].pc = "sent" /\ TypeInv /\ Named(c) /\ Tabled(c) /\ Finally(c)
        /\ UNCHANGED <<accepted, browser, diag, toPython>>
    BY Named_generation DEF Resume, At, IInv
  <1>2. PICK outcome \in Over : End(c, outcome)
    <2>1. {"returned", "stale"} \subseteq Over
      BY DEF Over
    <2>2. QED
      BY <2>1 DEF Resume
  <1>3. /\ Moved(c, outcome) /\ call'[c].generation = call[c].generation
        /\ call'[c].future = "none" /\ call'[c].queue = <<>>
    BY <1>1, <1>2, EndFacts
  <1>4. /\ TypeInv' /\ PythonMoves /\ \A d : NothingNew(d)
        /\ channel'.ready = channel.ready
        /\ DOMAIN channel'.pending = DOMAIN channel.pending \ {c}
        /\ c \in DOMAIN channel.pending => Cancelled(c)'
    BY <1>1, <1>3, FinallyMoves
  <1>5. /\ call'[c].pc \in Over /\ c \notin channel.ready /\ Queued(c)' = {}
        /\ call[c].generation # None
    BY <1>1, <1>3 DEF Moved, Tabled, Queued, Named, Holding
  <1>6. /\ call'[c].pc \notin {"registered", "sending", "sent"} /\ call'[c].pc \in Asked
    BY <1>5 DEF Over, Asked
  <1>7. Tabled(c)'
    BY <1>4, <1>5 DEF Tabled
  <1>8. ASSUME browser.reports = 0
        PROVE  Gone(c)' \/ Done(c)' \/ Cancelled(c)'
    <2>1. c \in DOMAIN channel.pending \/ Gone(c) \/ Done(c)
      BY <1>1, <1>8 DEF IInv, CallInv, Kept
    <2>2. QED
      BY <1>3, <1>4, <2>1, PromisesStay
  <1>9. CallInv(c)'
    BY <1>3, <1>4, <1>5, <1>6, <1>7, <1>8, CallGoesOn
  <1>10. QED
    BY <1>3, <1>4, <1>9, OneMoves

-----------------------------------------------------------------------------
(* Steps that keep every coroutine where it is *)

LEMMA AllStay ==
  ASSUME IInv, TypeInv', PythonMoves, \A c : NothingNew(c),
         \A c \in Calls :
           /\ call'[c].pc = call[c].pc /\ call'[c].generation = call[c].generation
           /\ call'[c].future = "named" \/ "named" \in Queued(c)'
                => call[c].future = "named" \/ "named" \in Queued(c)
           /\ c \in channel'.ready => c \in channel.ready
           /\ c \in DOMAIN channel'.pending => c \in DOMAIN channel.pending
           /\ browser.reports = 0 /\ c \in DOMAIN channel.pending =>
                c \in DOMAIN channel'.pending \/ Gone(c)'
  PROVE  IInv'
  <1>1. ASSUME NEW c \in Calls
        PROVE  CallInv(c)'
    BY CallStays
  <1>2. QED
    BY <1>1, PythonKeeps DEF IInv

LEMMA SendRequestKeeps ==
  ASSUME IInv, NEW c \in Calls, SendRequest(c)
  PROVE  IInv'
  <1> DEFINE request == [type |-> "request", id |-> c, generation |-> call[c].generation]
  <1>1. /\ call[c].pc = "sending" /\ TypeInv /\ Named(c) /\ Tabled(c) /\ Asks(c)
        /\ Goto(c, "sent") /\ toBrowser' = Append(toBrowser, request)
        /\ UNCHANGED <<channel, accepted, browser, diag, toPython>>
    BY Named_generation DEF SendRequest, At, IInv, CallInv
  <1>2. /\ request \in BrowserMessage /\ IsRequest(request, c)
        /\ request.type = "request" /\ request.id = c /\ request.generation = call[c].generation
    BY <1>1, CallTyped DEF BrowserMessage, IsRequest
  <1> HIDE DEF request
  <1>3. /\ toBrowser' \in Seq(BrowserMessage) /\ Len(toBrowser') = Len(toBrowser) + 1
        /\ Len(toBrowser) \in Nat
        /\ \A i \in 1..Len(toBrowser) : toBrowser'[i] = toBrowser[i]
        /\ toBrowser'[Len(toBrowser) + 1] = request
    BY <1>1, <1>2, AppendFacts DEF TypeInv
  <1>4. /\ Moved(c, "sent") /\ call'[c].generation = call[c].generation
        /\ call'[c].future = call[c].future /\ call'[c].queue = call[c].queue
    BY <1>1, GotoFacts DEF PCs
  <1>5. TypeInv'
    BY <1>1, <1>3, <1>4 DEF TypeInv, Moved
  <1>6. \A i \in 1..Len(toBrowser') : i > Len(toBrowser) => i = Len(toBrowser) + 1
    BY <1>3
  <1>7. PythonMoves
    <2>1. \A i \in 1..Len(toBrowser') :
            i > Len(toBrowser) /\ toBrowser'[i].type = "close" => channel'.closed
      BY <1>2, <1>3, <1>6
    <2>2. Len(toBrowser') >= Len(toBrowser)
      BY <1>3
    <2>3. channel'.failing = "closed" => channel'.closed
      BY <1>1 DEF IInv, FatalInv
    <2>4. QED
      BY <1>1, <1>3, <2>1, <2>2, <2>3 DEF PythonMoves
  <1>8. \A d \in Calls : d # c => NothingNew(d)
    BY <1>2, <1>3, <1>6 DEF NothingNew, IsRequest
  <1>9. Done(c) /\ ~Answered(c) /\ \A w \in browser.work : w.id # c
    BY <1>1 DEF Asks, Asked, Over
  <1>10. \A i \in Requests(c)' : i = Len(toBrowser) + 1
    <2>1. SUFFICES ASSUME NEW i \in 1..Len(toBrowser'), IsRequest(toBrowser'[i], c),
                          ~(i > Len(toBrowser))
                   PROVE  FALSE
      BY <1>6 DEF Requests
    <2>2. i \in 1..Len(toBrowser)
      BY <1>3, <2>1
    <2>3. i \in Requests(c)
      BY <1>3, <2>1, <2>2 DEF Requests
    <2>4. QED
      BY <1>9, <2>3 DEF Done
  <1>11. Asks(c)'
    <2>1. call'[c].pc \in Asked /\ c \notin browser'.pending /\ ~Answered(c)'
          /\ \A w \in browser'.work : w.id # c
      BY <1>1, <1>4, <1>9 DEF Moved, Asked, Done, Answered
    <2>2. \A i \in Requests(c)' : toBrowser'[i].generation = call'[c].generation
      BY <1>2, <1>3, <1>4, <1>10
    <2>3. call'[c].generation # None
      BY <1>1, <1>4 DEF Named, Holding
    <2>4. QED
      BY <1>10, <2>1, <2>2, <2>3 DEF Asks
  <1>12. Named(c)'
    <2>1. Queued(c)' = Queued(c) /\ call[c].pc \in Holding
      BY <1>1, <1>4 DEF Queued, Holding
    <2>2. Past(call[c].generation)' <=> Past(call[c].generation)
      BY <1>1, <1>4 DEF Past
    <2>3. QED
      BY <1>1, <1>4, <2>1, <2>2 DEF Named
  <1>13. Tabled(c)'
    BY <1>1, <1>4 DEF Tabled, Moved
  <1>14. ASSUME browser.reports = 0
         PROVE  Kept(c)'
    <2>1. c \in DOMAIN channel.pending \/ Gone(c)
      BY <1>1, <1>14 DEF IInv, CallInv, Kept
    <2>2. \A i \in 1..Len(toBrowser) : i \in 1..Len(toBrowser')
      BY <1>3
    <2>3. Gone(c) => Gone(c)'
      BY <1>1, <1>3, <1>4, <2>2 DEF Gone, Past, CloseComing
    <2>4. call'[c].pc = "sent" /\ "sent" \notin Over
      BY <1>4 DEF Moved, Over
    <2>5. QED
      BY <1>1, <2>1, <2>3, <2>4 DEF Kept
  <1>15. CallInv(c)'
    BY <1>1, <1>11, <1>12, <1>13, <1>14 DEF CallInv
  <1>16. QED
    BY <1>1, <1>4, <1>5, <1>7, <1>8, <1>15, OneMoves

LEMMA CloseKeeps ==
  ASSUME IInv, Close
  PROVE  IInv'
  <1>1. /\ TypeInv /\ UNCHANGED <<call, accepted, browser, diag, toBrowser, toPython>>
        /\ channel' = [channel EXCEPT !.closed = TRUE, !.generation = None, !.failing = "closed"]
    BY DEF IInv, Close
  <1>2. /\ channel' \in Channel /\ channel'.closed /\ channel'.generation = None
        /\ channel'.failing = "closed" /\ channel'.ready = channel.ready
        /\ channel'.pending = channel.pending
    BY <1>1 DEF TypeInv, Channel, None
  <1>3. TypeInv'
    BY <1>1, <1>2 DEF TypeInv
  <1>4. PythonMoves
    BY <1>1, <1>2 DEF TypeInv, PythonMoves
  <1>5. \A c : NothingNew(c)
    BY <1>1 DEF NothingNew, TypeInv
  <1>6. \A c \in Calls : call' = call /\ Queued(c)' = Queued(c)
    BY <1>1 DEF Queued
  <1>7. QED
    BY <1>2, <1>3, <1>4, <1>5, <1>6, AllStay

LEMMA UpdateKeeps ==
  ASSUME IInv, Update
  PROVE  IInv'
  <1> DEFINE update == [type |-> "update", seq |-> accepted.updates + 1]
  <1>1. /\ TypeInv /\ UNCHANGED <<call, channel, browser, diag, toPython>>
        /\ accepted' = [accepted EXCEPT !.updates = @ + 1]
        /\ toBrowser' = Append(toBrowser, update)
    BY DEF IInv, Update
  <1>2. update \in BrowserMessage /\ update.type = "update"
    BY <1>1 DEF TypeInv, BrowserMessage
  <1> HIDE DEF update
  <1>3. /\ toBrowser' \in Seq(BrowserMessage) /\ Len(toBrowser') = Len(toBrowser) + 1
        /\ Len(toBrowser) \in Nat
        /\ \A i \in 1..Len(toBrowser) : toBrowser'[i] = toBrowser[i]
        /\ toBrowser'[Len(toBrowser) + 1] = update
    BY <1>1, <1>2, AppendFacts DEF TypeInv
  <1>4. /\ accepted' \in [revision : Nat, seq : Nat, errors : Errors, updates : Nat]
        /\ accepted'.revision = accepted.revision /\ accepted'.errors = accepted.errors
    BY <1>1 DEF TypeInv
  <1>5. TypeInv'
    BY <1>1, <1>3, <1>4 DEF TypeInv
  <1>6. \A i \in 1..Len(toBrowser') : i > Len(toBrowser) => toBrowser'[i] = update
    BY <1>3
  <1>7. PythonMoves
    <2>1. \A i \in 1..Len(toBrowser') :
            i > Len(toBrowser) /\ toBrowser'[i].type = "close" => channel'.closed
      BY <1>2, <1>6
    <2>2. Len(toBrowser') >= Len(toBrowser)
      BY <1>3
    <2>3. channel'.failing = "closed" => channel'.closed
      BY <1>1 DEF IInv, FatalInv
    <2>4. QED
      BY <1>1, <1>3, <1>4, <2>1, <2>2, <2>3 DEF PythonMoves
  <1>8. \A c : NothingNew(c)
    BY <1>2, <1>6 DEF NothingNew, IsRequest
  <1>9. \A c \in Calls : call' = call /\ channel' = channel /\ Queued(c)' = Queued(c)
    BY <1>1 DEF Queued
  <1>10. QED
    BY <1>5, <1>7, <1>8, <1>9, AllStay

\* Several cancels of registered requests at once.
LEMMA SendCancelsKeeps ==
  ASSUME IInv, SendCancels
  PROVE  IInv'
  <1> DEFINE ids == DOMAIN channel.pending
             n == Cardinality(ids)
             order == CHOOSE s \in [1..n -> ids] : {s[i] : i \in 1..n} = ids
             cancels == [i \in 1..n |-> [type |-> "cancel", id |-> order[i],
                                         generation |-> channel.pending[order[i]]]]
  <1>1. /\ TypeInv /\ UNCHANGED <<call, accepted, browser, diag, toPython>>
        /\ toBrowser' = toBrowser \o cancels
        /\ channel' = [channel EXCEPT !.cancelled = TRUE]
    BY DEF IInv, SendCancels
  <1>2. n \in Nat /\ order \in [1..n -> ids]
    <2>1. IsFiniteSet(ids)
      BY <1>1 DEF TypeInv
    <2>2. n \in Nat /\ ExistsBijection(1..n, ids)
      BY <2>1, FS_CardinalityType
    <2> HIDE DEF ids, n
    <2>3. PICK f \in [1..n -> ids] : \A t \in ids : \E i \in 1..n : f[i] = t
      BY <2>2 DEF ExistsBijection, Bijection, Surjection
    <2>4. {f[i] : i \in 1..n} = ids
      BY <2>3
    <2>5. QED
      BY <2>2, <2>4
  <1>3. \A i \in 1..n : order[i] \in Calls /\ channel.pending[order[i]] \in Nat
    <2>1. ids \in SUBSET Calls /\ \A c \in ids : channel.pending[c] \in Nat
      BY <1>1 DEF TypeInv, Channel
    <2> HIDE DEF ids, n, order
    <2>2. QED
      BY <1>2, <2>1
  <1> HIDE DEF n, order
  <1>4. /\ cancels \in Seq(BrowserMessage) /\ Len(cancels) = n
        /\ \A j \in 1..Len(cancels) : cancels[j].type = "cancel"
    <2>1. \A i \in 1..n : [type |-> "cancel", id |-> order[i],
                           generation |-> channel.pending[order[i]]] \in BrowserMessage
      BY <1>3 DEF BrowserMessage
    <2>2. cancels \in [1..n -> BrowserMessage]
      BY <2>1
    <2>3. cancels \in Seq(BrowserMessage) /\ Len(cancels) = n
      <3> HIDE DEF cancels
      <3>1. QED
        BY <1>2, <2>2
    <2>4. QED
      BY <2>3
  <1> HIDE DEF cancels
  <1>5. /\ toBrowser' \in Seq(BrowserMessage) /\ Len(toBrowser) \in Nat
        /\ Len(toBrowser') = Len(toBrowser) + Len(cancels)
        /\ \A i \in 1..Len(toBrowser) : toBrowser'[i] = toBrowser[i]
        /\ \A i \in 1..Len(toBrowser') : i > Len(toBrowser) =>
             \E j \in 1..Len(cancels) : toBrowser'[i] = cancels[j]
    BY <1>1, <1>4, SentFacts
  <1>6. /\ channel' \in Channel /\ channel'.closed = channel.closed
        /\ channel'.generation = channel.generation /\ channel'.failing = channel.failing
        /\ channel'.ready = channel.ready /\ channel'.pending = channel.pending
    BY <1>1 DEF TypeInv, Channel
  <1>7. TypeInv'
    BY <1>1, <1>5, <1>6 DEF TypeInv
  <1>8. \A i \in 1..Len(toBrowser') : i > Len(toBrowser) => toBrowser'[i].type = "cancel"
    BY <1>4, <1>5
  <1>9. PythonMoves
    <2>1. \A i \in 1..Len(toBrowser') :
            i > Len(toBrowser) /\ toBrowser'[i].type = "close" => channel'.closed
      BY <1>8
    <2>2. Len(toBrowser') >= Len(toBrowser)
      BY <1>2, <1>4, <1>5
    <2>3. channel'.failing = "closed" => channel'.closed
      BY <1>6 DEF IInv, FatalInv
    <2>4. QED
      BY <1>1, <1>5, <1>6, <2>1, <2>2, <2>3 DEF PythonMoves
  <1>10. \A c : NothingNew(c)
    BY <1>8 DEF NothingNew, IsRequest
  <1>11. \A c \in Calls : call' = call /\ Queued(c)' = Queued(c)
    BY <1>1 DEF Queued
  <1>12. QED
    BY <1>6, <1>7, <1>9, <1>10, <1>11, AllStay

\* What a queue holds.
Held(queue) == {queue[i] : i \in 1..Len(queue)}

\* The calls are told the outcome, and nothing else changes.
Told(new, calls, outcome, current) ==
  /\ new \in [Calls -> Coroutines]
  /\ \A c \in Calls :
       /\ new[c].pc = current[c].pc /\ new[c].generation = current[c].generation
       /\ new[c].future = current[c].future
       /\ Held(new[c].queue) \subseteq Held(current[c].queue) \cup {outcome}
       /\ c \notin calls => new[c] = current[c]

LEMMA CompleteFacts ==
  ASSUME NEW calls, NEW outcome \in Outcomes, NEW current \in [Calls -> Coroutines]
  PROVE  Told(Complete(calls, outcome, current), calls, outcome, current)
  <1>1. ASSUME NEW c \in Calls
        PROVE  LET new == [current[c] EXCEPT !.queue = Append(@, outcome)]
               IN  /\ new \in Coroutines /\ new.pc = current[c].pc
                   /\ new.generation = current[c].generation /\ new.future = current[c].future
                   /\ Held(new.queue) \subseteq Held(current[c].queue) \cup {outcome}
    <2> DEFINE longer == Append(current[c].queue, outcome)
               new == [current[c] EXCEPT !.queue = longer]
    <2>1. current[c] \in Coroutines /\ current[c].queue \in Seq(Outcomes)
      BY DEF Coroutines
    <2>2. /\ longer \in Seq(Outcomes) /\ Len(longer) = Len(current[c].queue) + 1
          /\ Len(current[c].queue) \in Nat
          /\ \A i \in 1..Len(current[c].queue) : longer[i] = current[c].queue[i]
          /\ longer[Len(current[c].queue) + 1] = outcome
      BY <2>1, AppendFacts
    <2>3. Held(longer) \subseteq Held(current[c].queue) \cup {outcome}
      <3> HIDE DEF longer
      <3>1. \A i \in 1..Len(longer) :
              i \in 1..Len(current[c].queue) \/ i = Len(current[c].queue) + 1
        BY <2>2
      <3>2. QED
        BY <2>2, <3>1 DEF Held
    <2> HIDE DEF longer
    <2>4. /\ new \in Coroutines /\ new.pc = current[c].pc /\ new.queue = longer
          /\ new.generation = current[c].generation /\ new.future = current[c].future
      BY <2>1, <2>2 DEF Coroutines
    <2>5. new = [current[c] EXCEPT !.queue = Append(@, outcome)]
      BY <2>1 DEF longer
    <2> HIDE DEF new
    <2>6. QED
      BY <2>3, <2>4, <2>5
  <1>2. ASSUME NEW c \in Calls
        PROVE  Complete(calls, outcome, current)[c]
                 = IF c \in calls THEN [current[c] EXCEPT !.queue = Append(@, outcome)]
                   ELSE current[c]
    BY DEF Complete
  <1>3. Complete(calls, outcome, current) \in [Calls -> Coroutines]
    BY <1>1 DEF Complete
  <1>4. QED
    BY <1>1, <1>2, <1>3 DEF Told

LEMMA FailAllKeeps ==
  ASSUME IInv, FailAll
  PROVE  IInv'
  <1> DEFINE ids == DOMAIN channel.pending
             over == [Dropped(ids) EXCEPT !.ready = {}, !.failing = "none", !.cancelled = FALSE]
             close == [type |-> "close"]
             s == IF channel.failing = "closed" THEN <<close>> ELSE <<>>
  <1>1. /\ TypeInv /\ channel.failing # "none"
        /\ call' = Complete(ids \cup channel.ready, channel.failing, call)
        /\ channel' = over
        /\ UNCHANGED <<accepted, browser, diag, toPython>>
    BY DEF IInv, FailAll
  <1>2. channel.failing \in {"closed", "fatal"} /\ channel.failing \in Outcomes
        /\ channel.failing # "named"
    BY <1>1 DEF TypeInv, Channel, Outcomes, Over
  <1>3. toBrowser' = toBrowser \o s
    <2>1. CASE channel.failing = "closed"
      BY <1>1, <2>1 DEF FailAll, TypeInv
    <2>2. CASE channel.failing # "closed"
      <3>1. toBrowser' = toBrowser
        BY <2>2 DEF FailAll
      <3>2. toBrowser \o <<>> = toBrowser
        BY <1>1 DEF TypeInv
      <3>3. QED
        BY <2>2, <3>1, <3>2
    <2>3. QED
      BY <2>1, <2>2
  <1>4. close \in BrowserMessage /\ close.type = "close"
    BY DEF BrowserMessage
  <1>5. /\ s \in Seq(BrowserMessage) /\ \A j \in 1..Len(s) : s[j] = close
        /\ channel.failing = "closed" => Len(s) = 1
        /\ channel.failing # "closed" => Len(s) = 0
    <2> HIDE DEF close
    <2>1. QED
      BY <1>4
  <1> HIDE DEF s, close
  <1>6. /\ toBrowser' \in Seq(BrowserMessage) /\ Len(toBrowser) \in Nat
        /\ Len(toBrowser') = Len(toBrowser) + Len(s)
        /\ \A i \in 1..Len(toBrowser) : toBrowser'[i] = toBrowser[i]
        /\ \A i \in 1..Len(s) : toBrowser'[Len(toBrowser) + i] = s[i]
        /\ \A i \in 1..Len(toBrowser') : i > Len(toBrowser) =>
             \E j \in 1..Len(s) : toBrowser'[i] = s[j]
    BY <1>1, <1>3, <1>5, SentFacts
  <1>7. /\ channel' \in Channel /\ IsFiniteSet(DOMAIN channel'.pending)
        /\ DOMAIN channel'.pending = {} /\ channel'.ready = {} /\ channel'.failing = "none"
        /\ channel'.generation = channel.generation /\ channel'.closed = channel.closed
    <2>1. /\ Dropped(ids) \in Channel /\ IsFiniteSet(DOMAIN Dropped(ids).pending)
          /\ DOMAIN Dropped(ids).pending = DOMAIN channel.pending \ ids
          /\ Dropped(ids).generation = channel.generation /\ Dropped(ids).closed = channel.closed
      BY <1>1, DroppedFacts
    <2>2. /\ over \in Channel /\ over.pending = Dropped(ids).pending /\ over.ready = {}
          /\ over.failing = "none" /\ over.generation = Dropped(ids).generation
          /\ over.closed = Dropped(ids).closed
      BY <2>1 DEF Channel
    <2> HIDE DEF over
    <2>3. QED
      BY <1>1, <2>1, <2>2
  <1>8. /\ call' \in [Calls -> Coroutines]
        /\ \A c \in Calls :
             /\ call'[c].pc = call[c].pc /\ call'[c].generation = call[c].generation
             /\ call'[c].future = call[c].future
             /\ Held(call'[c].queue) \subseteq Held(call[c].queue) \cup {channel.failing}
    <2>1. call \in [Calls -> Coroutines]
      BY <1>1 DEF TypeInv
    <2>2. Told(call', ids \cup channel.ready, channel.failing, call)
      BY <1>1, <1>2, <2>1, CompleteFacts
    <2>3. QED
      BY <2>2 DEF Told
  <1>9. TypeInv'
    BY <1>1, <1>6, <1>7, <1>8 DEF TypeInv
  <1>10. \A i \in 1..Len(toBrowser') : i > Len(toBrowser) =>
            toBrowser'[i] = close /\ channel.failing = "closed"
    <2>1. SUFFICES ASSUME NEW i \in 1..Len(toBrowser'), i > Len(toBrowser)
                   PROVE  toBrowser'[i] = close /\ channel.failing = "closed"
      OBVIOUS
    <2>2. PICK j \in 1..Len(s) : toBrowser'[i] = s[j]
      BY <1>6, <2>1
    <2>3. Len(s) # 0
      BY <2>2
    <2>4. QED
      BY <1>5, <2>2, <2>3
  <1>11. PythonMoves
    <2>1. \A i \in 1..Len(toBrowser') :
            i > Len(toBrowser) /\ toBrowser'[i].type = "close" => channel'.closed
      BY <1>7, <1>10 DEF IInv, FatalInv
    <2>2. Len(toBrowser') >= Len(toBrowser)
      BY <1>5, <1>6
    <2>3. QED
      BY <1>1, <1>6, <1>7, <2>1, <2>2 DEF PythonMoves
  <1>12. \A c : NothingNew(c)
    BY <1>4, <1>10 DEF NothingNew, IsRequest
  <1>13. browser.reports = 0 => CloseComing'
    <2>1. SUFFICES ASSUME browser.reports = 0
                   PROVE  CloseComing'
      OBVIOUS
    <2>2. channel.failing = "closed"
      BY <1>2, <2>1 DEF IInv, FatalInv
    <2> DEFINE n == Len(toBrowser)
    <2>3. Len(s) = 1 /\ n \in Nat /\ Len(toBrowser') = n + 1
      BY <1>5, <1>6, <2>2
    <2>4. 1 \in 1..Len(s) /\ n + 1 \in 1..Len(toBrowser')
      <3> HIDE DEF n
      <3>1. QED
        BY <2>3
    <2>5. toBrowser'[Len(toBrowser) + 1] = close
      BY <1>5, <1>6, <2>4
    <2>6. QED
      BY <1>4, <2>4, <2>5 DEF CloseComing
  <1>14. \A c \in Calls : "named" \in Queued(c)' => "named" \in Queued(c)
    BY <1>2, <1>8 DEF Queued, Held
  <1>15. QED
    BY <1>7, <1>8, <1>9, <1>11, <1>12, <1>13, <1>14, AllStay DEF Gone

-----------------------------------------------------------------------------
(* What Python receives *)

LEMMA ReceivedFacts ==
  ASSUME TypeInv, toPython # <<>>, toPython' = Tail(toPython)
  PROVE  /\ toPython' \in Seq(PythonMessage)
         /\ Head(toPython) = toPython[1] /\ toPython[1] \in PythonMessage
         /\ 1 \in 1..Len(toPython)
         /\ \A i \in Traits' : i + 1 \in Traits /\ toPython'[i] = toPython[i + 1]
         /\ \A i \in Traits : i # 1 =>
              i - 1 \in Traits' /\ toPython'[i - 1] = toPython[i]
         /\ \A c : Answered(c)' => Answered(c)
  <1>1. /\ toPython' \in Seq(PythonMessage) /\ Len(toPython) = Len(toPython') + 1
        /\ Len(toPython') \in Nat
        /\ \A i \in 1..Len(toPython') : toPython'[i] = toPython[i + 1]
        /\ Head(toPython) = toPython[1] /\ Head(toPython) \in PythonMessage
        /\ 1 \in 1..Len(toPython)
    BY TailFacts DEF TypeInv
  <1>2. \A i \in 1..Len(toPython') : i + 1 \in 1..Len(toPython)
    BY <1>1
  <1>3. \A i \in 1..Len(toPython) : i # 1 => i - 1 \in 1..Len(toPython') /\ (i - 1) + 1 = i
    BY <1>1
  <1>4. \A i \in Traits' : i + 1 \in Traits /\ toPython'[i] = toPython[i + 1]
    BY <1>1, <1>2 DEF Traits
  <1>5. \A i \in Traits : i # 1 => i - 1 \in Traits' /\ toPython'[i - 1] = toPython[i]
    BY <1>1, <1>3 DEF Traits
  <1>6. \A c : Answered(c)' => Answered(c)
    BY <1>1, <1>2 DEF Answered
  <1>7. QED
    BY <1>1, <1>4, <1>5, <1>6

LEMMA PythonMessageFacts ==
  ASSUME NEW m \in PythonMessage
  PROVE  /\ m.type = "traits" => /\ m.generation \in Nat /\ m.revision \in Nat /\ m.seq \in Nat
                                 /\ m.errors \in Errors
         /\ m.type = "response" => m.id \in Calls /\ m.outcome \in {"reply", "error"}
  BY DEF PythonMessage

\* What a mount has announced, and no later one.
Reached(g) == g <= browser.mounts /\ (browser.stage = "resolving" => g < browser.mounts)

LEMMA TrailReached ==
  ASSUME TrailInv
  PROVE  /\ Reached(channel.generation) /\ Reached(browser.inspection)
         /\ \A i \in Traits : Reached(toPython[i].generation)
  BY DEF TrailInv, Reached

\* A call is told of an answer or of a generation, or goes on waiting.
LEMMA CallHears ==
  ASSUME IInv, TypeInv', UNCHANGED <<browser, toBrowser>>, NEW c \in Calls,
         Answered(c)' => Answered(c), call'[c].pc = call[c].pc,
         channel.closed => channel'.closed,
         \/ channel'.generation = channel.generation \/ channel.generation = None
         \/ Past(channel.generation),
         \/ call'[c].generation = call[c].generation
         \/ /\ call[c].pc \in {"looking", "waiting"} /\ Reached(channel'.generation)
            /\ call'[c].generation = channel'.generation,
         call'[c].pc \in Holding \/ call'[c].future = "named" \/ "named" \in Queued(c)'
           => call'[c].generation # None,
         c \in channel'.ready => c \in channel.ready,
         c \in DOMAIN channel'.pending => c \in DOMAIN channel.pending,
         (browser.reports = 0 /\ c \in DOMAIN channel.pending
            /\ c \notin DOMAIN channel'.pending)
           => /\ call'[c].generation = call[c].generation
              /\ Gone(c) \/ (Done(c) /\ call[c].pc \in Asked)
  PROVE  CallInv(c)'
  <1>1. /\ Named(c) /\ Tabled(c) /\ Asks(c)
    BY DEF IInv, CallInv
  <1>2. /\ Requests(c)' = Requests(c) /\ CloseComing' = CloseComing
        /\ \A i \in Requests(c) : toBrowser'[i] = toBrowser[i]
    BY DEF Requests, CloseComing
  <1>3. Done(c)' <=> Done(c)
    BY <1>2 DEF Done
  <1>4. Tabled(c)'
    BY <1>1 DEF Tabled
  <1>5. Named(c)'
    <2>1. Reached(call'[c].generation)
      BY <1>1 DEF Named, Reached
    <2>2. \/ call'[c].generation = None \/ call'[c].generation = channel'.generation
          \/ Past(call[c].generation)' \/ channel'.closed
      <3>1. CASE call'[c].generation = call[c].generation
        <4>1. \/ call[c].generation = None \/ call[c].generation = channel.generation
              \/ Past(call[c].generation) \/ channel.closed
          BY <1>1 DEF Named
        <4>2. Past(call[c].generation) => Past(call[c].generation)'
          BY <3>1 DEF Past
        <4>3. QED
          BY <3>1, <4>1, <4>2
      <3>2. CASE call'[c].generation = channel'.generation
        BY <3>2
      <3>3. QED
        BY <3>1, <3>2
    <2>3. QED
      BY <2>1, <2>2 DEF Named, Reached
  <1>6. Asks(c)'
    <2>1. CASE call'[c].generation = call[c].generation
      BY <1>1, <1>2, <1>3, <2>1 DEF Asks
    <2>2. CASE call[c].pc \in {"looking", "waiting"}
      <3>0. call[c].pc \notin Asked
        BY <2>2 DEF Asked, Over
      <3>1. Requests(c) = {} /\ Done(c) /\ ~Answered(c) /\ \A w \in browser.work : w.id # c
        BY <1>1, <3>0 DEF Asks, Done
      <3>2. c \notin browser.pending
        BY <3>1 DEF Done
      <3>3. QED
        BY <1>2, <1>3, <3>1, <3>2 DEF Asks
    <2>3. QED
      BY <2>1, <2>2
  <1>7. ASSUME browser.reports = 0
        PROVE  Kept(c)'
    <2>1. Kept(c)
      BY <1>7 DEF IInv, CallInv
    <2>2. CASE call'[c].generation = call[c].generation
      <3>1. Gone(c)' <=> Gone(c)
        BY <1>2, <2>2 DEF Gone, Past
      <3>2. Cancelled(c)' <=> Cancelled(c)
        BY <1>2, <2>2 DEF Cancelled
      <3>3. "registered" \notin Asked /\ "sending" \notin Asked
        BY DEF Asked, Over
      <3>4. /\ call[c].pc \in {"registered", "sending"} =>
                 c \in DOMAIN channel'.pending \/ Gone(c)
            /\ call[c].pc = "sent" => c \in DOMAIN channel'.pending \/ Gone(c) \/ Done(c)
        BY <1>7, <2>1, <3>3 DEF Kept
      <3>5. QED
        BY <1>3, <2>1, <3>1, <3>2, <3>4 DEF Kept
    <2>3. CASE call'[c].generation # call[c].generation
      <3>1. call[c].pc \in {"looking", "waiting"}
        BY <2>3
      <3>2. QED
        BY <3>1 DEF Kept, Over
    <2>4. QED
      BY <2>2, <2>3
  <1>8. QED
    BY <1>4, <1>5, <1>6, <1>7 DEF CallInv

\* What stays true of the trail when Python takes the first message: no new name.
LEMMA TrailHears ==
  ASSUME IInv, TypeInv', UNCHANGED <<browser, toBrowser>>,
         \A i \in Traits' : i + 1 \in Traits /\ toPython'[i] = toPython[i + 1],
         \/ channel'.generation = channel.generation
         \/ /\ 1 \in Traits /\ channel'.generation = toPython[1].generation
  PROVE  TrailInv'
  <1>1. TrailInv
    BY DEF IInv
  <1>2. \A i \in Traits' : i \in Nat /\ i + 1 > 1
    BY DEF Traits, IInv, TypeInv
  <1>3. \A i, j \in Traits' : i < j => i + 1 < j + 1
    BY <1>2
  <1>4. /\ Reached(channel'.generation) /\ Reached(browser.inspection)
        /\ \A i \in Traits' : Reached(toPython'[i].generation)
    BY <1>1, TrailReached
  <1>5. \A g \in {channel'.generation, browser'.inspection}
                   \cup {toPython'[i].generation : i \in Traits'} :
          g <= browser'.mounts /\ (browser'.stage = "resolving" => g < browser'.mounts)
    BY <1>4 DEF Reached
  <1>6. ASSUME browser.generation # None, NEW j \in Traits'
        PROVE  /\ channel'.generation = browser.generation
                    => toPython'[j].generation = browser.generation
               /\ \A i \in Traits' : i < j /\ toPython'[i].generation = browser.generation
                    => toPython'[j].generation = browser.generation
    <2>1. /\ j + 1 \in Traits /\ toPython'[j] = toPython[j + 1] /\ 1 < j + 1
      BY <1>2
    <2>2. channel'.generation = browser.generation
            => toPython'[j].generation = browser.generation
      BY <1>1, <1>6, <2>1 DEF TrailInv
    <2>3. \A i \in Traits' : i < j /\ toPython'[i].generation = browser.generation
            => toPython'[j].generation = browser.generation
      BY <1>1, <1>3, <1>6, <2>1 DEF TrailInv
    <2>4. QED
      BY <2>2, <2>3
  <1>7. IF browser'.stage = "live" THEN /\ browser'.generation = browser'.mounts
                                        /\ browser'.generation # None
                                        /\ browser'.inspection = browser'.generation
        ELSE browser'.generation = None
    BY <1>1 DEF TrailInv
  <1>8. QED
    BY <1>5, <1>6, <1>7 DEF TrailInv

LEMMA DiagHears ==
  ASSUME IInv, TypeInv', UNCHANGED <<browser, diag>>, channel'.closed = channel.closed,
         toPython' \in Seq(PythonMessage),
         \A i \in Traits' : i + 1 \in Traits /\ toPython'[i] = toPython[i + 1],
         \A i \in Traits : i # 1 =>
           i - 1 \in Traits' /\ toPython'[i - 1] = toPython[i],
         accepted.revision <= accepted'.revision,
         \/ accepted' = accepted
         \/ /\ 1 \in Traits /\ accepted'.revision = toPython[1].revision
            /\ accepted'.errors = toPython[1].errors,
         ~channel.closed /\ 1 \in Traits => toPython[1].revision <= accepted'.revision
  PROVE  DiagInv'
  <1>1. DiagInv
    BY DEF IInv
  <1>2. /\ accepted.revision \in Nat /\ accepted'.revision \in Nat
        /\ diag.model.revision \in Nat
    BY DEF IInv, TypeInv, Model
  <1>3. /\ accepted'.revision <= diag.model.revision
        /\ accepted'.revision = diag.model.revision => accepted'.errors = diag.model.errors
    BY <1>1 DEF DiagInv
  <1>4. \A i \in Traits' : /\ toPython'[i].revision <= diag.model.revision
                            /\ toPython'[i].revision = diag.model.revision
                                 => toPython'[i].errors = diag.model.errors
    BY <1>1 DEF DiagInv
  <1>5. ASSUME ~channel.closed, ~browser.unsent
        PROVE  \/ accepted'.revision = diag.model.revision
               \/ \E i \in Traits' : toPython'[i].revision = diag.model.revision
    <2>1. CASE accepted.revision = diag.model.revision
      BY <1>2, <1>3, <2>1
    <2>2. CASE 1 \in Traits /\ toPython[1].revision = diag.model.revision
      BY <1>2, <1>3, <1>5, <2>2
    <2>3. CASE \E i \in Traits : i # 1 /\ toPython[i].revision = diag.model.revision
      <3>1. PICK i \in Traits : i # 1 /\ toPython[i].revision = diag.model.revision
        BY <2>3
      <3>2. i - 1 \in Traits' /\ toPython'[i - 1].revision = diag.model.revision
        BY <3>1
      <3>3. QED
        BY <3>2
    <2>4. QED
      BY <1>1, <1>5, <2>1, <2>2, <2>3 DEF DiagInv
  <1>6. QED
    BY <1>1, <1>3, <1>4, <1>5 DEF DiagInv

LEMMA ReceiveResponseKeeps ==
  ASSUME IInv, ReceiveResponse
  PROVE  IInv'
  <1> DEFINE m == Head(toPython)
  <1>1. /\ TypeInv /\ toPython # <<>> /\ m.type = "response"
        /\ toPython' = Tail(toPython)
        /\ UNCHANGED <<accepted, browser, diag, toBrowser>>
    BY DEF IInv, ReceiveResponse
  <1>2. /\ toPython' \in Seq(PythonMessage)
        /\ m = toPython[1] /\ m \in PythonMessage /\ 1 \in 1..Len(toPython)
        /\ \A i \in Traits' : i + 1 \in Traits /\ toPython'[i] = toPython[i + 1]
        /\ \A i \in Traits : i # 1 =>
             i - 1 \in Traits' /\ toPython'[i - 1] = toPython[i]
        /\ \A c : Answered(c)' => Answered(c)
    BY <1>1, ReceivedFacts
  <1>3. m.id \in Calls /\ m.outcome \in Outcomes /\ m.outcome # "named"
    BY <1>1, <1>2, PythonMessageFacts DEF Outcomes, Over
  <1>4. 1 \notin Traits /\ Answered(m.id)
    BY <1>1, <1>2 DEF Traits, Answered
  <1> HIDE DEF m
  <1>5. /\ channel' \in Channel /\ IsFiniteSet(DOMAIN channel'.pending)
        /\ channel'.generation = channel.generation /\ channel'.closed = channel.closed
        /\ channel'.ready = channel.ready /\ channel'.failing = channel.failing
        /\ DOMAIN channel'.pending \in {DOMAIN channel.pending, DOMAIN channel.pending \ {m.id}}
    <2>1. channel' = channel \/ channel' = Dropped({m.id})
      BY DEF ReceiveResponse, m
    <2>2. CASE channel' = channel
      BY <1>1, <2>2 DEF TypeInv
    <2>3. CASE channel' = Dropped({m.id})
      BY <1>1, <2>3, DroppedFacts
    <2>4. QED
      BY <2>1, <2>2, <2>3
  <1>6. /\ call' \in [Calls -> Coroutines]
        /\ \A c \in Calls :
             /\ call'[c].pc = call[c].pc /\ call'[c].generation = call[c].generation
             /\ call'[c].future = call[c].future
             /\ Held(call'[c].queue) \subseteq Held(call[c].queue) \cup {m.outcome}
    <2>1. call' = call \/ call' = Complete({m.id}, m.outcome, call)
      BY DEF ReceiveResponse, m
    <2>2. call \in [Calls -> Coroutines]
      BY <1>1 DEF TypeInv
    <2>3. CASE call' = call
      BY <2>2, <2>3
    <2>4. CASE call' = Complete({m.id}, m.outcome, call)
      <3>1. Told(call', {m.id}, m.outcome, call)
        BY <1>3, <2>2, <2>4, CompleteFacts
      <3>2. QED
        BY <3>1 DEF Told
    <2>5. QED
      BY <2>1, <2>3, <2>4
  <1>7. TypeInv'
    BY <1>1, <1>2, <1>5, <1>6 DEF TypeInv
  <1>8. DiagInv'
    <2>1. accepted' = accepted /\ accepted.revision <= accepted.revision
      BY <1>1 DEF TypeInv
    <2>2. QED
      BY <1>1, <1>2, <1>4, <1>5, <1>7, <2>1, DiagHears
  <1>9. CloseComing' = CloseComing
    BY <1>1 DEF CloseComing
  <1>10. FatalInv'
    <2>1. FatalInv
      BY DEF IInv
    <2>2. \A i \in Traits' : i + 1 \in Traits /\ toPython'[i] = toPython[i + 1]
      BY <1>2
    <2>3. browser.reports = 0 => \A i \in Traits' : toPython'[i].errors # "fatal"
      BY <2>1, <2>2 DEF FatalInv
    <2>4. QED
      BY <1>1, <1>5, <1>9, <2>1, <2>3 DEF FatalInv
  <1>11. TrailInv'
    BY <1>1, <1>2, <1>5, <1>7, TrailHears
  <1>12. ASSUME NEW c \in Calls
         PROVE  CallInv(c)'
    <2>1. Named(c) /\ Tabled(c) /\ Asks(c)
      BY DEF IInv, CallInv
    <2>2. "named" \in Queued(c)' => "named" \in Queued(c)
      BY <1>3, <1>6 DEF Queued, Held
    <2>3. call'[c].pc \in Holding \/ call'[c].future = "named" \/ "named" \in Queued(c)'
            => call'[c].generation # None
      BY <1>6, <2>1, <2>2 DEF Named
    <2>4. c \in DOMAIN channel.pending /\ c \notin DOMAIN channel'.pending => c = m.id
      BY <1>5
    <2>5. c = m.id => Done(c) /\ call[c].pc \in Asked
      BY <1>4, <2>1 DEF Asks
    <2>6. /\ call'[c].pc = call[c].pc /\ call'[c].generation = call[c].generation
          /\ channel'.ready = channel.ready /\ channel'.generation = channel.generation
          /\ channel.closed => channel'.closed
          /\ c \in DOMAIN channel'.pending => c \in DOMAIN channel.pending
      BY <1>5, <1>6
    <2>7. UNCHANGED <<browser, toBrowser>> /\ (Answered(c)' => Answered(c))
      BY <1>1, <1>2
    <2>8. QED
      BY <1>7, <2>3, <2>4, <2>5, <2>6, <2>7, CallHears
  <1>13. QED
    BY <1>7, <1>8, <1>10, <1>11, <1>12 DEF IInv

LEMMA ReceiveTraitsKeeps ==
  ASSUME IInv, ReceiveTraits
  PROVE  IInv'
  <1> DEFINE m == Head(toPython)
             fatal == Accepts(m) /\ m.errors = "fatal"
                        /\ (m.seq >= accepted.updates \/ m.generation = None)
             failing == IF fatal THEN "fatal" ELSE "none"
  <1>1. /\ TypeInv /\ toPython # <<>> /\ m.type = "traits" /\ channel.failing = "none"
        /\ toPython' = Tail(toPython)
        /\ UNCHANGED <<browser, diag, toBrowser>>
    BY DEF IInv, ReceiveTraits
  <1>2. /\ Accepts(m) => accepted' = [accepted EXCEPT !.revision = m.revision, !.seq = m.seq,
                                                      !.errors = m.errors]
        /\ ~Accepts(m) => accepted' = accepted
    BY DEF ReceiveTraits
  <1>3. /\ channel.closed => UNCHANGED <<call, channel>>
        /\ ~channel.closed => Renamed(m.generation, failing)
    BY DEF ReceiveTraits
  <1>4. /\ toPython' \in Seq(PythonMessage)
        /\ m = toPython[1] /\ m \in PythonMessage /\ 1 \in 1..Len(toPython)
        /\ \A i \in Traits' : i + 1 \in Traits /\ toPython'[i] = toPython[i + 1]
        /\ \A i \in Traits : i # 1 =>
             i - 1 \in Traits' /\ toPython'[i - 1] = toPython[i]
        /\ \A c : Answered(c)' => Answered(c)
    BY <1>1, ReceivedFacts
  <1>5. /\ m.generation \in Nat /\ m.revision \in Nat /\ m.seq \in Nat /\ m.errors \in Errors
    BY <1>1, <1>4, PythonMessageFacts
  <1>6. 1 \in Traits
    BY <1>1, <1>4 DEF Traits
  <1>7. /\ Accepts(m) <=> ~channel.closed /\ m.revision > accepted.revision
        /\ fatal => m.errors = "fatal"
        /\ failing \in {"none", "fatal"} /\ (failing = "fatal" => fatal)
    BY DEF Accepts
  <1> HIDE DEF m, fatal, failing
  <1> DEFINE lost == channel.generation # None /\ channel.generation # m.generation
             failed == IF lost THEN DOMAIN channel.pending ELSE {}
             woken == IF m.generation = None THEN {} ELSE channel.ready
             outcome == IF m.generation = None THEN "closed" ELSE "stale"
             named == [c \in Calls |-> IF c \in woken THEN [call[c] EXCEPT !.generation = m.generation]
                                       ELSE call[c]]
  <1>8. ~channel.closed =>
          /\ channel' = [Dropped(failed) EXCEPT !.generation = m.generation, !.ready = @ \ woken,
                                                !.failing = failing]
          /\ call' = Complete(woken, "named", Complete(failed, outcome, named))
    BY <1>3 DEF Renamed
  <1>9. /\ accepted' \in [revision : Nat, seq : Nat, errors : Errors, updates : Nat]
        /\ Accepts(m) => accepted'.revision = m.revision /\ accepted'.errors = m.errors
        /\ ~Accepts(m) => accepted' = accepted
    BY <1>1, <1>2, <1>5 DEF TypeInv
  <1>10. /\ channel' \in Channel /\ IsFiniteSet(DOMAIN channel'.pending)
         /\ channel'.closed = channel.closed
         /\ channel.closed => channel' = channel
         /\ ~channel.closed =>
              /\ channel'.generation = m.generation /\ channel'.failing = failing
              /\ channel'.ready = channel.ready \ woken
              /\ DOMAIN channel'.pending = DOMAIN channel.pending \ failed
    <2>1. CASE channel.closed
      BY <1>1, <1>3, <2>1 DEF TypeInv
    <2>2. CASE ~channel.closed
      <3> DEFINE left == Dropped(failed)
                 next == [left EXCEPT !.generation = m.generation, !.ready = left.ready \ woken,
                                      !.failing = failing]
      <3>1. /\ left \in Channel /\ IsFiniteSet(DOMAIN left.pending)
            /\ DOMAIN left.pending = DOMAIN channel.pending \ failed
            /\ left.closed = channel.closed /\ left.ready = channel.ready
        BY <1>1, DroppedFacts
      <3>2. channel' = next
        BY <1>8, <2>2
      <3> HIDE DEF left, failed, woken
      <3>3. /\ next \in Channel /\ next.pending = left.pending /\ next.closed = left.closed
            /\ next.generation = m.generation /\ next.failing = failing
            /\ next.ready = left.ready \ woken
        BY <1>5, <1>7, <3>1 DEF Channel
      <3> HIDE DEF next
      <3>4. QED
        BY <2>2, <3>1, <3>2, <3>3
    <2>3. QED
      BY <2>1, <2>2
  <1>11. /\ call' \in [Calls -> Coroutines]
         /\ channel.closed => call' = call
         /\ ~channel.closed => \A c \in Calls :
              /\ call'[c].pc = call[c].pc /\ call'[c].future = call[c].future
              /\ c \in woken => call'[c].generation = m.generation
              /\ c \notin woken => /\ call'[c].generation = call[c].generation
                                   /\ "named" \in Held(call'[c].queue)
                                        => "named" \in Held(call[c].queue)
    <2>1. call \in [Calls -> Coroutines]
      BY <1>1 DEF TypeInv
    <2>2. CASE channel.closed
      BY <1>3, <2>1, <2>2
    <2>3. CASE ~channel.closed
      <3>1. /\ outcome \in Outcomes /\ outcome # "named" /\ "named" \in Outcomes
        BY DEF Outcomes, Over
      <3> HIDE DEF outcome, woken, failed
      <3>2. /\ named \in [Calls -> Coroutines]
            /\ \A c \in Calls :
                 /\ named[c].pc = call[c].pc /\ named[c].future = call[c].future
                 /\ named[c].queue = call[c].queue
                 /\ c \in woken => named[c].generation = m.generation
                 /\ c \notin woken => named[c].generation = call[c].generation
        BY <1>5, <2>1 DEF Coroutines
      <3> HIDE DEF named
      <3> DEFINE middle == Complete(failed, outcome, named)
      <3>3. Told(middle, failed, outcome, named)
        BY <3>1, <3>2, CompleteFacts
      <3> HIDE DEF middle
      <3>4. middle \in [Calls -> Coroutines]
        BY <3>3 DEF Told
      <3>5. Told(Complete(woken, "named", middle), woken, "named", middle)
        BY <3>1, <3>4, CompleteFacts
      <3>6. call' = Complete(woken, "named", middle)
        BY <1>8, <2>3 DEF middle
      <3>7. Told(call', woken, "named", middle)
        BY <3>5, <3>6
      <3>8. ASSUME NEW c \in Calls
            PROVE  /\ call'[c].pc = named[c].pc /\ call'[c].future = named[c].future
                   /\ call'[c].generation = named[c].generation
        BY <3>3, <3>7, <3>8 DEF Told
      <3>9. ASSUME NEW c \in Calls, c \notin woken, "named" \in Held(call'[c].queue)
            PROVE  "named" \in Held(call[c].queue)
        <4>1. "named" \in Held(middle[c].queue)
          BY <3>7, <3>9 DEF Told
        <4>2. "named" \in Held(named[c].queue)
          BY <3>1, <3>3, <4>1 DEF Told
        <4>3. QED
          BY <3>2, <4>2
      <3>10. call' \in [Calls -> Coroutines]
        BY <3>7 DEF Told
      <3>11. QED
        BY <2>3, <3>2, <3>8, <3>9, <3>10
    <2>4. QED
      BY <2>2, <2>3
  <1>12. TypeInv'
    BY <1>1, <1>4, <1>9, <1>10, <1>11 DEF TypeInv
  <1>13. channel'.closed = channel.closed /\ UNCHANGED <<browser, toBrowser, diag>>
    BY <1>1, <1>10
  <1>14. DiagInv'
    <2>1. accepted.revision <= accepted'.revision
      BY <1>1, <1>5, <1>7, <1>9 DEF TypeInv
    <2>2. \/ accepted' = accepted
          \/ /\ 1 \in Traits /\ accepted'.revision = toPython[1].revision
             /\ accepted'.errors = toPython[1].errors
      BY <1>4, <1>6, <1>9
    <2>3. ~channel.closed => toPython[1].revision <= accepted'.revision
      <3>1. accepted.revision \in Nat
        BY <1>1 DEF TypeInv
      <3>2. QED
        BY <1>4, <1>5, <1>7, <1>9, <3>1
    <2>4. QED
      BY <1>4, <1>12, <1>13, <2>1, <2>2, <2>3, DiagHears
  <1>15. FatalInv'
    <2>1. CloseComing' <=> CloseComing
      BY <1>13 DEF CloseComing
    <2>2. browser.reports = 0 => failing # "fatal"
      BY <1>4, <1>6, <1>7 DEF IInv, FatalInv
    <2>3. channel'.failing # "closed" \/ channel'.failing = channel.failing
      BY <1>7, <1>10
    <2>4. browser.reports = 0 => channel'.failing # "fatal"
      BY <1>1, <1>10, <2>2
    <2>5. QED
      BY <1>1, <1>4, <1>13, <2>1, <2>3, <2>4 DEF IInv, FatalInv
  <1>16. TrailInv'
    BY <1>4, <1>6, <1>10, <1>12, <1>13, TrailHears
  <1>17. /\ Reached(m.generation) /\ Reached(channel.generation)
         /\ lost => Past(channel.generation)
    <2>1. Reached(m.generation) /\ Reached(channel.generation) /\ TrailInv
      BY <1>4, <1>6, TrailReached DEF IInv
    <2>2. lost => channel.generation # browser.generation
      BY <1>4, <1>6, <2>1 DEF TrailInv
    <2>3. QED
      BY <2>1, <2>2 DEF Reached, Past
  <1>18. ASSUME NEW c \in Calls
         PROVE  CallInv(c)'
    <2>1. Named(c) /\ Tabled(c) /\ Asks(c)
      BY DEF IInv, CallInv
    <2>2. Answered(c)' => Answered(c)
      BY <1>4
    <2>3. CASE channel.closed
      <3>1. call' = call /\ channel' = channel
        BY <1>10, <1>11, <2>3
      <3>2. Queued(c)' = Queued(c)
        BY <3>1 DEF Queued
      <3>3. call'[c].pc \in Holding \/ call'[c].future = "named" \/ "named" \in Queued(c)'
              => call'[c].generation # None
        BY <2>1, <3>1, <3>2 DEF Named
      <3>4. QED
        BY <1>12, <1>13, <2>2, <3>1, <3>3, CallHears
    <2>4. CASE ~channel.closed
      <3>1. /\ call'[c].pc = call[c].pc /\ call'[c].future = call[c].future
            /\ c \in woken => call'[c].generation = m.generation
            /\ c \notin woken => /\ call'[c].generation = call[c].generation
                                 /\ "named" \in Queued(c)' => "named" \in Queued(c)
        BY <1>11, <2>4 DEF Held, Queued
      <3>2. /\ channel'.generation = m.generation
            /\ c \in channel'.ready => c \in channel.ready
            /\ c \in DOMAIN channel'.pending => c \in DOMAIN channel.pending
            /\ c \in DOMAIN channel.pending /\ c \notin DOMAIN channel'.pending => lost
        BY <1>10, <2>4
      <3>3. c \in woken => call[c].pc \in {"looking", "waiting"} /\ m.generation # None
        BY <2>1 DEF Tabled
      <3> HIDE DEF woken
      <3>4. \/ channel'.generation = channel.generation \/ channel.generation = None
            \/ Past(channel.generation)
        BY <1>17, <3>2
      <3> HIDE DEF lost
      <3>5. \/ call'[c].generation = call[c].generation
            \/ /\ call[c].pc \in {"looking", "waiting"} /\ Reached(channel'.generation)
               /\ call'[c].generation = channel'.generation
        BY <1>17, <3>1, <3>2, <3>3
      <3>6. call'[c].pc \in Holding \/ call'[c].future = "named" \/ "named" \in Queued(c)'
              => call'[c].generation # None
        BY <2>1, <3>1, <3>3 DEF Named
      <3>7. ASSUME c \in DOMAIN channel.pending, c \notin DOMAIN channel'.pending
            PROVE  call'[c].generation = call[c].generation /\ Gone(c)
        <4>1. call[c].pc \in {"registered", "sending", "sent"}
          BY <2>1, <3>7 DEF Tabled
        <4>2. c \notin woken /\ call[c].generation # None
          BY <2>1, <3>3, <4>1 DEF Named, Holding
        <4>3. Past(channel.generation)
          BY <1>17, <3>2, <3>7
        <4>4. Past(call[c].generation)
          BY <2>1, <2>4, <4>2, <4>3 DEF Named
        <4>5. QED
          BY <3>1, <4>2, <4>4 DEF Gone
      <3>8. channel.closed => channel'.closed
        BY <2>4
      <3>9. QED
        BY <1>12, <1>13, <2>2, <3>1, <3>2, <3>4, <3>5, <3>6, <3>7, <3>8, CallHears
    <2>5. QED
      BY <2>3, <2>4
  <1>19. QED
    BY <1>12, <1>14, <1>15, <1>16, <1>18 DEF IInv

-----------------------------------------------------------------------------
(* The browser's diagnostics and mounts *)

LEMMA BrowserTyped ==
  ASSUME TypeInv
  PROVE  /\ browser \in Browser /\ browser.generation \in Nat /\ browser.mounts \in Nat
         /\ browser.reports \in Nat /\ browser.session \in Nat /\ browser.applied \in Nat
         /\ browser.inspection \in Nat /\ browser.pending \subseteq Calls
         /\ browser.work \subseteq [id : Calls, generation : Nat, aborted : BOOLEAN]
         /\ browser.unsent \in BOOLEAN
         /\ diag.revision \in Nat /\ diag.model \in Model /\ diag.model.revision \in Nat
         /\ diag.errors \in Errors
  BY DEF TypeInv, Browser, Model

\* Published diagnostics replace those of the model, under a higher revision.
Published(new, d, errors) ==
  /\ new \in [revision : Nat, errors : Errors, model : Model]
  /\ new.revision = new.model.revision /\ new.errors = errors /\ new.model.errors = errors
  /\ new.model = d.model \/ new.model.revision > d.model.revision

LEMMA PublishFacts ==
  ASSUME TypeInv, NEW d \in [revision : Nat, errors : Errors, model : Model],
         NEW errors \in Errors, d.revision = d.model.revision
  PROVE  Published(Publish(d, errors), d, errors)
  <1> DEFINE model == [revision |-> d.revision + 1, seq |-> browser.applied, errors |-> errors]
  <1>1. d.model \in Model /\ d.revision \in Nat /\ browser.applied \in Nat
    BY BrowserTyped
  <1>2. /\ model \in Model /\ model.revision = d.revision + 1 /\ model.errors = errors
        /\ d.revision + 1 \in Nat /\ d.revision + 1 > d.revision
    BY <1>1 DEF Model
  <1>3. CASE d.model.seq = browser.applied /\ d.model.errors = errors
    <2>1. Publish(d, errors) = [d EXCEPT !.errors = errors]
      BY <1>3 DEF Publish
    <2>2. QED
      BY <1>1, <1>3, <2>1 DEF Published
  <1>4. CASE ~(d.model.seq = browser.applied /\ d.model.errors = errors)
    <2>1. Publish(d, errors) = [errors |-> errors, revision |-> d.revision + 1, model |-> model]
      BY <1>4 DEF Publish
    <2> HIDE DEF model
    <2>2. QED
      BY <1>1, <1>2, <2>1 DEF Published
  <1>5. QED
    BY <1>3, <1>4

\* The diagnostics of the model change: Python will hear of them.
LEMMA DiagPublishes ==
  ASSUME IInv, TypeInv', UNCHANGED <<channel, accepted, toPython>>, NEW errors \in Errors,
         Published(diag', diag, errors),
         browser'.unsent \/ (diag'.model = diag.model /\ ~browser.unsent)
  PROVE  DiagInv'
  <1>1. DiagInv
    BY DEF IInv
  <1>2. /\ accepted.revision \in Nat /\ diag.model.revision \in Nat /\ diag'.model.revision \in Nat
        /\ Traits' = Traits
        /\ \A i \in Traits : toPython'[i] = toPython[i] /\ toPython[i].revision \in Nat
    <2>1. \A i \in Traits : toPython[i] \in PythonMessage
      BY DEF IInv, TypeInv, Traits
    <2>2. QED
      BY <2>1, PythonMessageFacts DEF IInv, TypeInv, Model, Traits
  <1>3. diag'.revision = diag'.model.revision /\ diag'.model.errors = diag'.errors
    BY DEF Published
  <1>4. CASE diag'.model = diag.model
    BY <1>1, <1>2, <1>3, <1>4 DEF DiagInv
  <1>5. CASE diag'.model.revision > diag.model.revision
    <2>1. /\ accepted'.revision <= diag'.model.revision
          /\ accepted'.revision # diag'.model.revision
      BY <1>1, <1>2, <1>5 DEF DiagInv
    <2>2. \A i \in Traits : /\ toPython[i].revision <= diag'.model.revision
                            /\ toPython[i].revision # diag'.model.revision
      BY <1>1, <1>2, <1>5 DEF DiagInv
    <2>3. CASE browser'.unsent
      BY <1>2, <1>3, <2>1, <2>2, <2>3 DEF DiagInv
    <2>4. CASE ~browser'.unsent
      <3>1. FALSE
        BY <1>2, <1>5, <2>4
      <3>2. QED
        BY <3>1
    <2>5. QED
      BY <2>3, <2>4
  <1>6. QED
    BY <1>4, <1>5 DEF Published

\* What the model holds already, Python hears of as before.
LEMMA DiagStays ==
  ASSUME IInv, TypeInv', UNCHANGED <<channel, accepted, diag, toPython>>,
         browser'.stage \in {"resolving", "live", "failed"}
           => browser.stage \in {"resolving", "live", "failed"},
         browser'.unsent \/ ~browser.unsent \/ channel.closed
  PROVE  DiagInv'
  <1>1. DiagInv
    BY DEF IInv
  <1>2. Traits' = Traits /\ \A i \in Traits : toPython'[i] = toPython[i]
    BY DEF Traits
  <1>3. QED
    BY <1>1, <1>2 DEF DiagInv

LEMMA UnmountedFacts ==
  ASSUME TypeInv, NEW stage \in {"away", "resolving", "live", "failed", "closed"}
  PROVE  /\ Unmounted(stage) \in Browser /\ Unmounted(stage).stage = stage
         /\ Unmounted(stage).generation = None /\ Unmounted(stage).pending = {}
         /\ Unmounted(stage).inspection = None
         /\ Unmounted(stage).mounts = browser.mounts
         /\ Unmounted(stage).reports = browser.reports
         /\ Unmounted(stage).unsent = (browser.unsent \/ browser.generation # None)
         /\ Unmounted(stage).work = {[w EXCEPT !.aborted = TRUE] : w \in browser.work}
  <1> DEFINE work == {[w EXCEPT !.aborted = TRUE] : w \in browser.work}
             unsent == browser.unsent \/ browser.generation # None
             nobody == {}
             gone == [browser EXCEPT !.stage = stage, !.generation = None, !.pending = nobody,
                                     !.work = work, !.inspection = None, !.unsent = unsent]
  <1>1. Unmounted(stage) = gone
    BY DEF Unmounted
  <1>2. browser \in Browser
    BY BrowserTyped
  <1>3. /\ work \subseteq [id : Calls, generation : Nat, aborted : BOOLEAN]
        /\ unsent \in BOOLEAN /\ nobody \in SUBSET Calls /\ None \in Nat
    BY BrowserTyped DEF None
  <1> HIDE DEF work, unsent, nobody
  <1>4. /\ gone \in Browser /\ gone.stage = stage /\ gone.generation = None
        /\ gone.pending = nobody /\ gone.inspection = None /\ gone.mounts = browser.mounts
        /\ gone.reports = browser.reports /\ gone.unsent = unsent /\ gone.work = work
    BY <1>2, <1>3 DEF Browser
  <1> HIDE DEF gone
  <1>5. QED
    BY <1>1, <1>4 DEF work, unsent, nobody

-----------------------------------------------------------------------------
(* Calls, while the browser moves *)

RequestsStill(c) ==
  /\ Requests(c) = {} => Requests(c)' = {}
  /\ \A i \in Requests(c)' : /\ toBrowser'[i].generation = call[c].generation
                             /\ \A j \in Requests(c)' : i = j

WorkStill(c) ==
  \A w \in browser'.work : w.id = c =>
    /\ \E v \in browser.work : v.id = c
    /\ w.aborted => c \notin browser'.pending
    /\ \A v \in browser'.work : v.id = c => v = w

LEMMA AsksWatches ==
  ASSUME IInv, UNCHANGED call, NEW c \in Calls, RequestsStill(c), WorkStill(c),
         Answered(c)' => \/ Answered(c)
                         \/ Done(c)' /\ \E v \in browser.work : v.id = c,
         c \in browser'.pending =>
           c \in browser.pending /\ browser'.generation = browser.generation
  PROVE  Asks(c)'
  <1>1. Asks(c)
    BY DEF IInv, CallInv
  <1>2. ASSUME call[c].pc \notin Asked \/ call[c].generation = None
        PROVE  Done(c)' /\ ~Answered(c)' /\ \A w \in browser'.work : w.id # c
    <2>1. Done(c) /\ ~Answered(c) /\ \A w \in browser.work : w.id # c
      BY <1>1, <1>2 DEF Asks
    <2>2. Done(c)'
      BY <2>1 DEF Done, RequestsStill
    <2>3. QED
      BY <2>1, <2>2 DEF WorkStill
  <1>3. \A i \in Requests(c)' : /\ toBrowser'[i].generation = call'[c].generation
                                /\ \A j \in Requests(c)' : i = j
    BY DEF RequestsStill
  <1>4. c \in browser'.pending =>
          Requests(c)' = {} /\ call'[c].generation = browser'.generation
    BY <1>1 DEF Asks, RequestsStill
  <1>5. \A w \in browser'.work : w.id = c =>
          /\ Requests(c)' = {}
          /\ w.aborted => c \notin browser'.pending
          /\ \A v \in browser'.work : v.id = c => v = w
    BY <1>1 DEF Asks, RequestsStill, WorkStill
  <1>6. Answered(c)' => Done(c)'
    BY <1>1 DEF Asks, Done, RequestsStill
  <1>7. QED
    BY <1>2, <1>3, <1>4, <1>5, <1>6 DEF Asks

LEMMA CallWatches ==
  ASSUME IInv, UNCHANGED <<call, channel>>, NEW c \in Calls, Asks(c)',
         \A g \in Nat : Reached(g) => Reached(g)',
         \A g \in Nat : Past(g) => Past(g)',
         browser'.reports = 0 =>
           /\ browser.reports = 0
           /\ Done(c) => Done(c)'
           /\ call[c].generation # None /\ Gone(c) => Gone(c)'
           /\ Cancelled(c) => Cancelled(c)' \/ Done(c)'
  PROVE  CallInv(c)'
  <1>1. /\ Named(c) /\ Tabled(c) /\ call[c].generation \in Nat
    BY CallTyped DEF IInv, CallInv
  <1>2. Tabled(c)'
    BY <1>1 DEF Tabled
  <1>3. Named(c)'
    <2>1. Queued(c)' = Queued(c)
      BY DEF Queued
    <2>2. Reached(call[c].generation)
      BY <1>1 DEF Named, Reached
    <2>3. Reached(call[c].generation)'
      BY <1>1, <2>2 DEF Reached
    <2>4. Past(call[c].generation) => Past(call[c].generation)'
      BY <1>1 DEF Past
    <2>5. QED
      BY <1>1, <2>1, <2>3, <2>4 DEF Named, Reached
  <1>4. ASSUME browser'.reports = 0
        PROVE  Kept(c)'
    <2>1. Kept(c)
      BY <1>4 DEF IInv, CallInv
    <2>2. call[c].generation = None => Done(c)'
      BY DEF Asks
    <2>3. call[c].pc \in {"registered", "sending", "sent"} => call[c].generation # None
      BY <1>1 DEF Named, Holding
    <2>4. QED
      BY <1>4, <2>1, <2>2, <2>3 DEF Kept
  <1>5. QED
    BY <1>2, <1>3, <1>4 DEF CallInv

\* The mount goes with everything it was asked.
LEMMA CallUnmounts ==
  ASSUME IInv, UNCHANGED <<call, channel, toPython>>, NEW c \in Calls, RequestsStill(c),
         browser'.pending = {}, browser'.generation = None,
         browser'.work = {[w EXCEPT !.aborted = TRUE] : w \in browser.work},
         \A g \in Nat : Reached(g) => Reached(g)',
         browser'.reports = 0 =>
           /\ browser.reports = 0
           /\ call[c].generation # None /\ Gone(c) => Gone(c)'
           /\ Cancelled(c) => Cancelled(c)' \/ Done(c)'
  PROVE  CallInv(c)'
  <1>1. Asks(c) /\ TypeInv
    BY DEF IInv, CallInv
  <1>2. Answered(c)' <=> Answered(c)
    BY DEF Answered
  <1>3. WorkStill(c)
    <2>1. SUFFICES ASSUME NEW w \in browser'.work, w.id = c
                   PROVE  /\ \E v \in browser.work : v.id = c
                          /\ \A v \in browser'.work : v.id = c => v = w
      BY DEF WorkStill
    <2>2. \A v \in browser.work : [v EXCEPT !.aborted = TRUE].id = v.id
      BY <1>1, BrowserTyped
    <2>3. PICK u \in browser.work : w = [u EXCEPT !.aborted = TRUE]
      BY <2>1
    <2>4. u.id = c
      BY <2>1, <2>2, <2>3
    <2>5. ASSUME NEW v \in browser'.work, v.id = c
          PROVE  v = w
      <3>1. PICK x \in browser.work : v = [x EXCEPT !.aborted = TRUE]
        BY <2>5
      <3>2. x.id = c
        BY <2>2, <2>5, <3>1
      <3>3. x = u
        BY <1>1, <2>4, <3>2 DEF Asks
      <3>4. QED
        BY <2>3, <3>1, <3>3
    <2>6. QED
      BY <2>4, <2>5
  <1>4. Asks(c)'
    BY <1>2, <1>3, AsksWatches
  <1>5. Done(c) => Done(c)'
    BY DEF Done, RequestsStill
  <1>6. \A g \in Nat : Past(g) => Past(g)'
    BY DEF Past, Reached
  <1>7. QED
    BY <1>4, <1>5, <1>6, CallWatches

LEMMA QueueStays ==
  ASSUME IInv, UNCHANGED <<call, toBrowser>>, NEW c \in Calls
  PROVE  /\ RequestsStill(c) /\ CloseComing' = CloseComing /\ Cancelled(c)' = Cancelled(c)
         /\ Requests(c)' = Requests(c)
  <1>1. Asks(c) /\ Requests(c)' = Requests(c)
    BY DEF IInv, CallInv, Requests
  <1>2. RequestsStill(c)
    BY <1>1 DEF Asks, RequestsStill
  <1>3. CloseComing' = CloseComing /\ Cancelled(c)' = Cancelled(c)
    BY <1>1 DEF CloseComing, Cancelled
  <1>4. QED
    BY <1>1, <1>2, <1>3

\* Nothing is announced while nobody listens.
LEMMA TrailUnmounts ==
  ASSUME IInv, UNCHANGED <<channel, toPython>>,
         browser'.generation = None, browser'.inspection = None,
         browser'.stage # "live", Reached(None)',
         \A g \in Nat : Reached(g) => Reached(g)'
  PROVE  TrailInv'
  <1>1. Traits' = Traits /\ \A i \in Traits : toPython[i] \in PythonMessage
    BY DEF Traits, IInv, TypeInv
  <1>2. \A i \in Traits : toPython[i].generation \in Nat
    BY <1>1, PythonMessageFacts DEF Traits
  <1>3. channel.generation \in Nat
    BY DEF IInv, TypeInv, Channel
  <1>4. /\ Reached(channel.generation) /\ \A i \in Traits : Reached(toPython[i].generation)
    BY TrailReached DEF IInv
  <1>5. \A g \in {channel'.generation, browser'.inspection}
                   \cup {toPython'[i].generation : i \in Traits'} : Reached(g)'
    <2>1. SUFFICES ASSUME NEW g \in {channel.generation, None}
                                      \cup {toPython[i].generation : i \in Traits}
                   PROVE  Reached(g)'
      BY <1>1
    <2>2. g = None \/ (g \in Nat /\ Reached(g))
      BY <1>2, <1>3, <1>4, <2>1
    <2>3. QED
      BY <2>2 DEF Reached
  <1>6. QED
    BY <1>5 DEF TrailInv, Reached

LEMMA RerenderKeeps ==
  ASSUME IInv, Rerender
  PROVE  IInv'
  <1> DEFINE old == Unmounted("resolving")
             unsent == old.unsent \/ diag'.model # diag.model
  <1>1. /\ TypeInv /\ UNCHANGED <<call, channel, accepted, toBrowser, toPython>>
        /\ browser' = [old EXCEPT !.mounts = @ + 1, !.unsent = @ \/ diag'.model # diag.model]
        /\ browser.stage \in {"away", "live", "failed"}
    BY DEF IInv, Rerender
  <1>2. /\ old \in Browser /\ old.stage = "resolving"
        /\ old.generation = None /\ old.pending = {} /\ old.inspection = None
        /\ old.mounts = browser.mounts /\ old.reports = browser.reports
        /\ old.unsent = (browser.unsent \/ browser.generation # None)
        /\ old.work = {[w EXCEPT !.aborted = TRUE] : w \in browser.work}
    BY <1>1, UnmountedFacts
  <1> HIDE DEF old
  <1>3. browser.mounts \in Nat /\ unsent \in BOOLEAN
    BY <1>1, <1>2, BrowserTyped DEF Browser
  <1>4. browser' = [old EXCEPT !.mounts = old.mounts + 1, !.unsent = unsent]
    BY <1>1, <1>2 DEF Browser
  <1>4b. unsent = (browser.unsent \/ browser.generation # None \/ diag'.model # diag.model)
    BY <1>2
  <1> HIDE DEF unsent
  <1>5. /\ browser' \in Browser /\ browser'.stage = "resolving"
        /\ browser'.generation = None /\ browser'.pending = {} /\ browser'.inspection = None
        /\ browser'.mounts = browser.mounts + 1 /\ browser'.reports = browser.reports
        /\ browser'.unsent = unsent
        /\ browser'.work = {[w EXCEPT !.aborted = TRUE] : w \in browser.work}
    <2> DEFINE mounts == old.mounts + 1
    <2>1. old \in Browser /\ mounts \in Nat /\ unsent \in BOOLEAN /\ mounts = browser.mounts + 1
      BY <1>2, <1>3
    <2>2. browser' = [old EXCEPT !.mounts = mounts, !.unsent = unsent]
      BY <1>4
    <2> HIDE DEF mounts
    <2>3. /\ browser' \in Browser /\ browser'.stage = old.stage
          /\ browser'.generation = old.generation /\ browser'.pending = old.pending
          /\ browser'.inspection = old.inspection /\ browser'.mounts = mounts
          /\ browser'.reports = old.reports /\ browser'.unsent = unsent
          /\ browser'.work = old.work
      BY <2>1, <2>2 DEF Browser
    <2>4. QED
      BY <1>2, <2>1, <2>3
  <1>6. Published(diag', diag, "none")
    <2>1. /\ diag \in [revision : Nat, errors : Errors, model : Model] /\ "none" \in Errors
          /\ diag.revision = diag.model.revision
      BY <1>1 DEF TypeInv, IInv, DiagInv, Errors
    <2> DEFINE fresh == Publisher(diag)
    <2>2. /\ fresh \in [revision : Nat, errors : Errors, model : Model]
          /\ fresh.revision = fresh.model.revision /\ fresh.model = diag.model
      BY <2>1 DEF Publisher, Model
    <2>3. diag' = Publish(fresh, "none") \/ diag' = Publish(diag, "none")
      BY DEF Rerender
    <2> HIDE DEF fresh
    <2>4. CASE diag' = Publish(fresh, "none")
      <3>1. Published(diag', fresh, "none")
        BY <1>1, <2>1, <2>2, <2>4, PublishFacts
      <3>2. QED
        BY <2>2, <3>1 DEF Published
    <2>5. CASE diag' = Publish(diag, "none")
      BY <1>1, <2>1, <2>5, PublishFacts
    <2>6. QED
      BY <2>3, <2>4, <2>5
  <1>7. TypeInv'
    BY <1>1, <1>5, <1>6 DEF TypeInv, Published
  <1>8. DiagInv'
    <2>1. browser'.unsent \/ (diag'.model = diag.model /\ ~browser.unsent)
      BY <1>4b, <1>5
    <2>2. "none" \in Errors
      BY DEF Errors
    <2>3. QED
      BY <1>1, <1>6, <1>7, <2>1, <2>2, DiagPublishes
  <1>9. FatalInv'
    <2>1. Traits' = Traits /\ CloseComing' = CloseComing
      BY <1>1 DEF Traits, CloseComing
    <2>2. diag'.model.errors # "fatal"
      BY <1>6 DEF Published
    <2>3. QED
      BY <1>1, <1>5, <2>1, <2>2 DEF IInv, FatalInv
  <1>10. \A g \in Nat : Reached(g) => Reached(g)'
    BY <1>3, <1>5 DEF Reached
  <1>11. Reached(None)'
    BY <1>3, <1>5 DEF Reached, None
  <1>12. TrailInv'
    BY <1>1, <1>5, <1>10, <1>11, TrailUnmounts
  <1>13. \A g \in Nat : Past(g) => Past(g)'
    BY <1>5, <1>10 DEF Past, Reached
  <1>14. ASSUME NEW c \in Calls
         PROVE  CallInv(c)'
    <2>1. RequestsStill(c) /\ CloseComing' = CloseComing /\ Cancelled(c)' = Cancelled(c)
      BY <1>1, QueueStays
    <2>2. Gone(c) => Gone(c)'
      BY <1>1, <1>13, <2>1, CallTyped DEF Gone, Past
    <2>3. QED
      BY <1>1, <1>5, <1>10, <2>1, <2>2, CallUnmounts
  <1>15. QED
    BY <1>7, <1>8, <1>9, <1>12, <1>14 DEF IInv

LEMMA ViewFailsKeeps ==
  ASSUME IInv, ViewFails
  PROVE  IInv'
  <1> DEFINE old == Unmounted("failed")
  <1>1. /\ TypeInv /\ UNCHANGED <<call, channel, accepted, toBrowser, toPython>>
        /\ browser' = [old EXCEPT !.reports = @ + 1, !.unsent = TRUE]
        /\ diag' = Publish(diag, "fatal")
    BY DEF IInv, ViewFails
  <1>2. /\ old \in Browser /\ old.stage = "failed"
        /\ old.generation = None /\ old.pending = {} /\ old.inspection = None
        /\ old.mounts = browser.mounts /\ old.reports = browser.reports
        /\ old.work = {[w EXCEPT !.aborted = TRUE] : w \in browser.work}
    BY <1>1, UnmountedFacts
  <1> HIDE DEF old
  <1>3. browser.mounts \in Nat /\ browser.reports \in Nat
    BY <1>1, BrowserTyped
  <1>4. /\ browser' \in Browser /\ browser'.stage = "failed"
        /\ browser'.generation = None /\ browser'.pending = {} /\ browser'.inspection = None
        /\ browser'.mounts = browser.mounts /\ browser'.reports = browser.reports + 1
        /\ browser'.unsent
        /\ browser'.work = {[w EXCEPT !.aborted = TRUE] : w \in browser.work}
    <2> DEFINE reports == old.reports + 1
    <2>1. old \in Browser /\ reports \in Nat /\ reports = browser.reports + 1
      BY <1>2, <1>3
    <2>2. browser' = [old EXCEPT !.reports = reports, !.unsent = TRUE]
      BY <1>1, <1>2 DEF Browser
    <2> HIDE DEF reports
    <2>3. /\ browser' \in Browser /\ browser'.stage = old.stage
          /\ browser'.generation = old.generation /\ browser'.pending = old.pending
          /\ browser'.inspection = old.inspection /\ browser'.mounts = old.mounts
          /\ browser'.reports = reports /\ browser'.unsent
          /\ browser'.work = old.work
      BY <2>1, <2>2 DEF Browser
    <2>4. QED
      BY <1>2, <2>1, <2>3
  <1>5. "fatal" \in Errors /\ Published(diag', diag, "fatal")
    BY <1>1, PublishFacts DEF TypeInv, IInv, DiagInv, Errors
  <1>6. TypeInv'
    BY <1>1, <1>4, <1>5 DEF TypeInv, Published
  <1>7. DiagInv'
    BY <1>1, <1>4, <1>5, <1>6, DiagPublishes
  <1>8. browser'.reports # 0
    BY <1>3, <1>4
  <1>9. FatalInv'
    <2>1. CloseComing' = CloseComing
      BY <1>1 DEF CloseComing
    <2>2. QED
      BY <1>1, <1>8, <2>1 DEF IInv, FatalInv
  <1>10. \A g \in Nat : Reached(g) => Reached(g)'
    BY <1>3, <1>4 DEF Reached
  <1>11. Reached(None)'
    BY <1>3, <1>4 DEF Reached, None
  <1>12. TrailInv'
    BY <1>1, <1>4, <1>10, <1>11, TrailUnmounts
  <1>13. ASSUME NEW c \in Calls
         PROVE  CallInv(c)'
    <2>1. RequestsStill(c)
      BY <1>1, QueueStays
    <2>2. QED
      BY <1>1, <1>4, <1>8, <1>10, <2>1, CallUnmounts
  <1>14. QED
    BY <1>6, <1>7, <1>9, <1>12, <1>13 DEF IInv

LEMMA LeaveKeeps ==
  ASSUME IInv, Leave
  PROVE  IInv'
  <1>1. /\ TypeInv /\ UNCHANGED <<call, channel, accepted, diag, toBrowser, toPython>>
        /\ browser' = Unmounted("away")
    BY DEF IInv, Leave
  <1>2. /\ browser' \in Browser /\ browser'.stage = "away"
        /\ browser'.generation = None /\ browser'.pending = {} /\ browser'.inspection = None
        /\ browser'.mounts = browser.mounts /\ browser'.reports = browser.reports
        /\ browser'.unsent = (browser.unsent \/ browser.generation # None)
        /\ browser'.work = {[w EXCEPT !.aborted = TRUE] : w \in browser.work}
    BY <1>1, UnmountedFacts
  <1>3. browser.mounts \in Nat
    BY <1>1, BrowserTyped
  <1>4. TypeInv'
    BY <1>1, <1>2 DEF TypeInv
  <1>5. DiagInv'
    BY <1>1, <1>2, <1>4, DiagStays
  <1>6. FatalInv'
    <2>1. Traits' = Traits /\ CloseComing' = CloseComing
      BY <1>1 DEF Traits, CloseComing
    <2>2. QED
      BY <1>1, <1>2, <2>1 DEF IInv, FatalInv
  <1>7. \A g \in Nat : Reached(g) => Reached(g)'
    BY <1>2 DEF Reached
  <1>8. Reached(None)'
    BY <1>2, <1>3 DEF Reached, None
  <1>9. TrailInv'
    BY <1>1, <1>2, <1>7, <1>8, TrailUnmounts
  <1>10. \A g \in Nat : Past(g) => Past(g)'
    BY <1>2 DEF Past
  <1>11. ASSUME NEW c \in Calls
         PROVE  CallInv(c)'
    <2>1. RequestsStill(c) /\ CloseComing' = CloseComing /\ Cancelled(c)' = Cancelled(c)
      BY <1>1, QueueStays
    <2>2. Gone(c) => Gone(c)'
      BY <1>1, <1>10, <2>1, CallTyped DEF Gone, Past
    <2>3. QED
      BY <1>1, <1>2, <1>7, <2>1, <2>2, CallUnmounts
  <1>12. QED
    BY <1>4, <1>5, <1>6, <1>9, <1>11 DEF IInv

LEMMA ConnectKeeps ==
  ASSUME IInv, Connect
  PROVE  IInv'
  <1>1. /\ TypeInv /\ UNCHANGED <<call, channel, accepted, diag, toBrowser, toPython>>
        /\ browser.stage = "resolving"
        /\ browser' = [browser EXCEPT !.stage = "live", !.generation = browser.mounts,
                                      !.applied = browser.session,
                                      !.inspection = browser.mounts, !.unsent = TRUE]
    BY DEF IInv, Connect
  <1>2. /\ browser \in Browser /\ browser.mounts \in Nat /\ browser.session \in Nat
    BY <1>1, BrowserTyped
  <1>3. /\ browser' \in Browser /\ browser'.stage = "live" /\ browser'.unsent
        /\ browser'.generation = browser.mounts /\ browser'.inspection = browser.mounts
        /\ browser'.mounts = browser.mounts /\ browser'.reports = browser.reports
        /\ browser'.pending = browser.pending /\ browser'.work = browser.work
    BY <1>1, <1>2 DEF Browser
  <1>4. TypeInv'
    BY <1>1, <1>3 DEF TypeInv
  <1>5. DiagInv'
    BY <1>1, <1>3, <1>4, DiagStays
  <1>6. FatalInv'
    <2>1. Traits' = Traits /\ CloseComing' = CloseComing
      BY <1>1 DEF Traits, CloseComing
    <2>2. QED
      BY <1>1, <1>3, <2>1 DEF IInv, FatalInv
  <1>7. TrailInv /\ browser.generation = None
    BY <1>1 DEF IInv, TrailInv
  <1>8. /\ channel.generation \in Nat
        /\ Reached(channel.generation) /\ channel.generation < browser.mounts
        /\ \A i \in Traits : /\ toPython[i].generation \in Nat
                             /\ Reached(toPython[i].generation)
                             /\ toPython[i].generation < browser.mounts
    <2>1. \A i \in Traits : toPython[i] \in PythonMessage
      BY <1>1 DEF Traits, TypeInv
    <2>2. QED
      BY <1>1, <1>7, <2>1, TrailReached, PythonMessageFacts DEF Traits, TypeInv, Channel, Reached
  <1>9. TrailInv'
    <2>1. Traits' = Traits /\ toPython' = toPython /\ channel' = channel
      BY <1>1 DEF Traits
    <2>2. browser.mounts # None
      BY <1>2, <1>8 DEF None
    <2>3. \A g \in {channel'.generation, browser'.inspection}
                     \cup {toPython'[i].generation : i \in Traits'} :
            g <= browser'.mounts /\ (browser'.stage = "resolving" => g < browser'.mounts)
      BY <1>2, <1>3, <1>8, <2>1
    <2>4. channel.generation # browser.mounts
          /\ \A i \in Traits : toPython[i].generation # browser.mounts
      BY <1>2, <1>8
    <2>5. \A j \in Traits' : /\ channel'.generation = browser'.generation
                                  => toPython'[j].generation = browser'.generation
                             /\ \A i \in Traits' :
                                  i < j /\ toPython'[i].generation = browser'.generation
                                    => toPython'[j].generation = browser'.generation
      BY <1>3, <2>1, <2>4
    <2>6. QED
      BY <1>3, <2>2, <2>3, <2>5 DEF TrailInv
  <1>10. \A g \in Nat : Reached(g) => Reached(g)'
    BY <1>3 DEF Reached
  <1>11. \A g \in Nat : Past(g) => Past(g)'
    BY <1>1, <1>2, <1>3 DEF Past
  <1>12. ASSUME NEW c \in Calls
         PROVE  CallInv(c)'
    <2>1. /\ RequestsStill(c) /\ CloseComing' = CloseComing /\ Cancelled(c)' = Cancelled(c)
          /\ Requests(c)' = Requests(c) /\ Asks(c)
      BY <1>1, QueueStays DEF IInv, CallInv
    <2>2. c \notin browser.pending
      BY <1>7, <2>1 DEF Asks, Done
    <2>3. WorkStill(c) /\ (Answered(c)' => Answered(c))
      BY <1>1, <1>3, <2>1 DEF WorkStill, Asks, Answered
    <2>4. Asks(c)'
      BY <1>1, <1>3, <2>1, <2>2, <2>3, AsksWatches
    <2>5. Done(c) => Done(c)'
      BY <1>3, <2>1 DEF Done
    <2>6. Gone(c) => Gone(c)'
      BY <1>1, <1>11, <2>1, CallTyped DEF Gone, Past
    <2>7. QED
      BY <1>1, <1>3, <1>10, <1>11, <2>1, <2>4, <2>5, <2>6, CallWatches
  <1>13. QED
    BY <1>4, <1>5, <1>6, <1>9, <1>12 DEF IInv

\* A call that the mount's own step is not about.
LEMMA CallUntouched ==
  ASSUME IInv, UNCHANGED <<call, channel, toBrowser>>, NEW c \in Calls,
         Answered(c)' => Answered(c),
         browser'.generation = browser.generation, browser'.mounts = browser.mounts,
         browser'.stage = browser.stage,
         c \in browser'.pending <=> c \in browser.pending,
         \A w \in browser'.work : w.id = c => w \in browser.work,
         browser'.reports = 0 => browser.reports = 0
  PROVE  CallInv(c)'
  <1>1. /\ RequestsStill(c) /\ CloseComing' = CloseComing /\ Cancelled(c)' = Cancelled(c)
        /\ Requests(c)' = Requests(c) /\ Asks(c)
    BY QueueStays DEF IInv, CallInv
  <1>2. WorkStill(c)
    BY <1>1 DEF WorkStill, Asks
  <1>3. Asks(c)'
    BY <1>1, <1>2, AsksWatches
  <1>4. Done(c) => Done(c)'
    BY <1>1 DEF Done
  <1>5. /\ \A g \in Nat : Reached(g) => Reached(g)'
        /\ \A g \in Nat : Past(g) => Past(g)'
    BY DEF Past, Reached
  <1>6. Gone(c) => Gone(c)'
    BY <1>1, <1>5, CallTyped DEF Gone, Past, IInv
  <1>7. QED
    BY <1>1, <1>3, <1>4, <1>5, <1>6, CallWatches

LEMMA ReportKeeps ==
  ASSUME IInv, NEW errors \in {"none", "fatal"}, Report(errors)
  PROVE  IInv'
  <1>1. /\ TypeInv /\ UNCHANGED <<call, channel, accepted, toBrowser, toPython>>
        /\ diag' = Publish(diag, errors)
        /\ browser' = [browser EXCEPT !.reports = @ + 1, !.unsent = TRUE]
    BY DEF IInv, Report
  <1>2. browser \in Browser /\ browser.reports \in Nat
    BY <1>1, BrowserTyped
  <1>3. /\ browser' \in Browser /\ browser'.unsent
        /\ browser'.generation = browser.generation /\ browser'.stage = browser.stage
        /\ browser'.inspection = browser.inspection /\ browser'.mounts = browser.mounts
        /\ browser'.reports = browser.reports + 1
        /\ browser'.pending = browser.pending /\ browser'.work = browser.work
    <2> DEFINE reports == browser.reports + 1
    <2>1. browser' = [browser EXCEPT !.reports = reports, !.unsent = TRUE] /\ reports \in Nat
      BY <1>1, <1>2
    <2> HIDE DEF reports
    <2>2. /\ browser' \in Browser /\ browser'.unsent
          /\ browser'.generation = browser.generation /\ browser'.stage = browser.stage
          /\ browser'.inspection = browser.inspection /\ browser'.mounts = browser.mounts
          /\ browser'.reports = reports
          /\ browser'.pending = browser.pending /\ browser'.work = browser.work
      BY <1>2, <2>1 DEF Browser
    <2>3. QED
      BY <2>2 DEF reports
  <1>4. errors \in Errors /\ Published(diag', diag, errors)
    BY <1>1, PublishFacts DEF TypeInv, IInv, DiagInv, Errors
  <1>5. TypeInv'
    BY <1>1, <1>3, <1>4 DEF TypeInv, Published
  <1>6. DiagInv'
    BY <1>1, <1>3, <1>4, <1>5, DiagPublishes
  <1>7. browser'.reports # 0
    BY <1>2, <1>3
  <1>8. FatalInv'
    <2>1. CloseComing' = CloseComing
      BY <1>1 DEF CloseComing
    <2>2. QED
      BY <1>1, <1>7, <2>1 DEF IInv, FatalInv
  <1>9. TrailInv'
    <2>1. Traits' = Traits /\ toPython' = toPython /\ channel' = channel
      BY <1>1 DEF Traits
    <2>2. QED
      BY <1>3, <2>1 DEF IInv, TrailInv
  <1>10. ASSUME NEW c \in Calls
         PROVE  CallInv(c)'
    <2>1. Answered(c)' = Answered(c)
      BY <1>1 DEF Answered
    <2>2. QED
      BY <1>1, <1>3, <1>7, <2>1, CallUntouched
  <1>11. QED
    BY <1>5, <1>6, <1>8, <1>9, <1>10 DEF IInv

LEMMA SendTraitsKeeps ==
  ASSUME IInv, SendTraits
  PROVE  IInv'
  <1> DEFINE m == [type |-> "traits", generation |-> browser.inspection,
                   revision |-> diag.model.revision, seq |-> diag.model.seq,
                   errors |-> diag.model.errors]
             n == Len(toPython)
  <1>1. /\ TypeInv /\ UNCHANGED <<call, channel, accepted, diag, toBrowser>>
        /\ toPython' = Append(toPython, m)
        /\ browser' = [browser EXCEPT !.unsent = FALSE]
    BY DEF IInv, SendTraits
  <1>2. browser \in Browser /\ browser.inspection \in Nat /\ diag.model \in Model
    BY <1>1, BrowserTyped
  <1>4. /\ m \in PythonMessage /\ m.type = "traits" /\ m.generation = browser.inspection
        /\ m.revision = diag.model.revision /\ m.errors = diag.model.errors
    BY <1>2 DEF Model, PythonMessage
  <1> HIDE DEF m
  <1>5. /\ browser' \in Browser /\ ~browser'.unsent
        /\ browser'.generation = browser.generation /\ browser'.stage = browser.stage
        /\ browser'.inspection = browser.inspection /\ browser'.mounts = browser.mounts
        /\ browser'.reports = browser.reports
        /\ browser'.pending = browser.pending /\ browser'.work = browser.work
    BY <1>1, <1>2 DEF Browser
  <1>6. /\ toPython' \in Seq(PythonMessage) /\ Len(toPython') = n + 1 /\ n \in Nat
        /\ \A i \in 1..n : toPython'[i] = toPython[i]
        /\ toPython'[n + 1] = m
    BY <1>1, <1>4, AppendFacts DEF TypeInv
  <1>7. /\ Traits' = Traits \cup {n + 1} /\ Traits \subseteq 1..n
        /\ \A i \in Traits : toPython'[i] = toPython[i]
    <2> HIDE DEF n
    <2>1. 1..Len(toPython') = 1..n \cup {n + 1}
      BY <1>6
    <2>2. Traits = {i \in 1..n : toPython[i].type = "traits"}
      BY DEF Traits, n
    <2>3. QED
      BY <1>4, <1>6, <2>1, <2>2 DEF Traits
  <1> HIDE DEF n
  <1>8. TypeInv'
    BY <1>1, <1>5, <1>6 DEF TypeInv
  <1>9. DiagInv'
    <2>1. diag.model.revision \in Nat /\ accepted' = accepted /\ channel' = channel /\ diag' = diag
      BY <1>1, <1>2 DEF Model
    <2>2. \A i \in Traits' : /\ toPython'[i].revision <= diag.model.revision
                             /\ toPython'[i].revision = diag.model.revision
                                  => toPython'[i].errors = diag.model.errors
      <3>1. diag.model.revision <= diag.model.revision
        BY <2>1
      <3>2. DiagInv
        BY DEF IInv
      <3>3. SUFFICES ASSUME NEW i \in Traits'
                     PROVE  /\ toPython'[i].revision <= diag.model.revision
                            /\ toPython'[i].revision = diag.model.revision
                                 => toPython'[i].errors = diag.model.errors
        OBVIOUS
      <3>4. CASE i = n + 1
        BY <1>4, <1>6, <3>1, <3>4
      <3>5. CASE i \in Traits
        BY <1>7, <3>2, <3>5 DEF DiagInv
      <3>6. QED
        BY <1>7, <3>3, <3>4, <3>5
    <2>3. n + 1 \in Traits' /\ toPython'[n + 1].revision = diag.model.revision
      BY <1>4, <1>6, <1>7
    <2>4. QED
      BY <1>5, <2>1, <2>2, <2>3 DEF IInv, DiagInv
  <1>10. FatalInv'
    <2>1. CloseComing' = CloseComing
      BY <1>1 DEF CloseComing
    <2>2. QED
      BY <1>1, <1>4, <1>5, <1>6, <1>7, <2>1 DEF IInv, FatalInv
  <1>11. TrailInv'
    <2>1. TrailInv /\ channel' = channel
      BY <1>1 DEF IInv
    <2>2. {toPython'[i].generation : i \in Traits'}
            = {toPython[i].generation : i \in Traits} \cup {browser.inspection}
      BY <1>4, <1>6, <1>7
    <2>3. \A g \in {channel'.generation, browser'.inspection}
                     \cup {toPython'[i].generation : i \in Traits'} :
            g <= browser'.mounts /\ (browser'.stage = "resolving" => g < browser'.mounts)
      BY <1>5, <2>1, <2>2 DEF TrailInv
    <2>4. ASSUME browser.generation # None, NEW j \in Traits'
          PROVE  /\ channel'.generation = browser.generation
                      => toPython'[j].generation = browser.generation
                 /\ \A i \in Traits' : i < j /\ toPython'[i].generation = browser.generation
                      => toPython'[j].generation = browser.generation
      <3>1. CASE j = n + 1
        BY <1>4, <1>6, <2>1, <2>4, <3>1 DEF TrailInv
      <3>2. CASE j \in Traits
        <4>1. \A i \in Traits' : i < j => i \in Traits
          BY <1>6, <1>7, <3>2
        <4>2. QED
          BY <1>7, <2>1, <2>4, <3>2, <4>1 DEF TrailInv
      <3>3. QED
        BY <1>7, <3>1, <3>2
    <2>5. IF browser'.stage = "live" THEN /\ browser'.generation = browser'.mounts
                                          /\ browser'.generation # None
                                          /\ browser'.inspection = browser'.generation
          ELSE browser'.generation = None
      BY <1>5, <2>1 DEF TrailInv
    <2>6. QED
      BY <1>5, <2>3, <2>4, <2>5 DEF TrailInv
  <1>12. ASSUME NEW c \in Calls
         PROVE  CallInv(c)'
    <2>1. Answered(c)' => Answered(c)
      <3>1. \A i \in 1..Len(toPython') : i \in 1..n \/ i = n + 1
        BY <1>6
      <3>2. QED
        BY <1>4, <1>6, <3>1 DEF Answered, n
    <2>2. QED
      BY <1>1, <1>5, <2>1, CallUntouched
  <1>13. QED
    BY <1>8, <1>9, <1>10, <1>11, <1>12 DEF IInv

LEMMA FinishKeeps ==
  ASSUME IInv, NEW c \in Calls, Finish(c)
  PROVE  IInv'
  <1>1. TypeInv
    BY DEF IInv
  <1>2. PICK w \in browser.work, outcome \in {"reply", "error"} :
          /\ w.id = c
          /\ browser' = [browser EXCEPT !.work = @ \ {w},
                                        !.pending = IF Active(w) THEN @ \ {c} ELSE @]
          /\ \/ toPython' = Append(toPython, [type |-> "response", id |-> c,
                                       generation |-> w.generation, outcome |-> outcome])
             \/ toPython' = toPython
          /\ UNCHANGED <<call, channel, accepted, diag, toBrowser>>
    BY DEF Finish
  <1> DEFINE m == [type |-> "response", id |-> c, generation |-> w.generation,
                   outcome |-> outcome]
             n == Len(toPython)
             pending == IF Active(w) THEN browser.pending \ {c} ELSE browser.pending
             work == browser.work \ {w}
  <1>3. /\ browser \in Browser /\ w.generation \in Nat /\ pending \subseteq Calls
        /\ work \subseteq [id : Calls, generation : Nat, aborted : BOOLEAN]
    BY <1>1, BrowserTyped
  <1>4. /\ browser' \in Browser /\ browser'.unsent = browser.unsent
        /\ browser'.generation = browser.generation /\ browser'.stage = browser.stage
        /\ browser'.inspection = browser.inspection /\ browser'.mounts = browser.mounts
        /\ browser'.reports = browser.reports
        /\ browser'.pending = pending /\ browser'.work = work
    <2>1. browser' = [browser EXCEPT !.work = work, !.pending = pending]
      BY <1>2, <1>3
    <2> HIDE DEF work, pending
    <2>2. QED
      BY <1>3, <2>1 DEF Browser
  <1>5. m \in PythonMessage /\ m.type = "response" /\ m.id = c
    BY <1>3 DEF PythonMessage
  <1>6. toPython' = Append(toPython, m) \/ toPython' = toPython
    BY <1>2
  <1> HIDE DEF m
  <1>7. /\ toPython' \in Seq(PythonMessage) /\ Traits' = Traits
        /\ \A i \in Traits : toPython'[i] = toPython[i]
        /\ \A d : Answered(d)' => Answered(d) \/ d = c
    <2>1. CASE toPython' = toPython
      BY <1>1, <2>1 DEF TypeInv, Traits, Answered
    <2>2. CASE toPython' = Append(toPython, m)
      <3>1. /\ toPython' \in Seq(PythonMessage) /\ Len(toPython') = n + 1 /\ n \in Nat
            /\ \A i \in 1..n : toPython'[i] = toPython[i]
            /\ toPython'[n + 1] = m
        BY <1>1, <1>5, <2>2, AppendFacts DEF TypeInv
      <3> HIDE DEF n
      <3>2. 1..Len(toPython') = 1..n \cup {n + 1}
        BY <3>1
      <3>3. Traits = {i \in 1..n : toPython[i].type = "traits"}
        BY DEF Traits, n
      <3>4. Traits' = Traits /\ \A i \in Traits : toPython'[i] = toPython[i]
        BY <1>5, <3>1, <3>2, <3>3 DEF Traits
      <3>5. \A d : Answered(d)' => Answered(d) \/ d = c
        BY <1>5, <3>1, <3>2 DEF Answered, n
      <3>6. QED
        BY <3>1, <3>4, <3>5
    <2>3. QED
      BY <1>6, <2>1, <2>2
  <1>8. TypeInv'
    BY <1>1, <1>2, <1>4, <1>7 DEF TypeInv
  <1>9. DiagInv'
    BY <1>2, <1>4, <1>7 DEF IInv, DiagInv
  <1>10. FatalInv'
    <2>1. CloseComing' = CloseComing
      BY <1>2 DEF CloseComing
    <2>2. QED
      BY <1>2, <1>4, <1>7, <2>1 DEF IInv, FatalInv
  <1>11. TrailInv'
    <2>1. {toPython'[i].generation : i \in Traits'} = {toPython[i].generation : i \in Traits}
      BY <1>7
    <2>2. QED
      BY <1>2, <1>4, <1>7, <2>1 DEF IInv, TrailInv
  <1>12. ASSUME NEW d \in Calls
         PROVE  CallInv(d)'
    <2>1. CASE d # c
      <3>1. d \in browser'.pending <=> d \in browser.pending
        BY <1>4, <2>1
      <3>2. \A v \in browser'.work : v.id = d => v \in browser.work
        BY <1>4
      <3>3. Answered(d)' => Answered(d)
        BY <1>7, <2>1
      <3>4. QED
        BY <1>2, <1>4, <3>1, <3>2, <3>3, CallUntouched
    <2>2. CASE d = c
      <3>1. /\ RequestsStill(c) /\ CloseComing' = CloseComing /\ Cancelled(c)' = Cancelled(c)
            /\ Requests(c)' = Requests(c) /\ Asks(c)
        BY <1>2, QueueStays DEF IInv, CallInv
      <3>2. Requests(c) = {} /\ c \notin pending
        BY <1>2, <3>1 DEF Asks, Active
      <3>3. Done(c)'
        BY <1>4, <3>1, <3>2 DEF Done
      <3>4. WorkStill(c)
        BY <1>2, <1>4, <3>1, <3>2 DEF WorkStill, Asks
      <3>5. c \notin browser'.pending
        BY <1>4, <3>2
      <3>6. Asks(c)'
        BY <1>2, <3>1, <3>3, <3>4, <3>5, AsksWatches
      <3>7. /\ \A g \in Nat : Reached(g) => Reached(g)'
            /\ \A g \in Nat : Past(g) => Past(g)'
        BY <1>4 DEF Past, Reached
      <3>8. Gone(c) => Gone(c)'
        BY <1>1, <1>2, <3>1, <3>7, CallTyped DEF Gone, Past
      <3>9. CallInv(c)'
        BY <1>2, <1>4, <3>3, <3>6, <3>7, <3>8, CallWatches
      <3>10. QED
        BY <2>2, <3>9
    <2>3. QED
      BY <2>1, <2>2
  <1>13. QED
    BY <1>8, <1>9, <1>10, <1>11, <1>12 DEF IInv

-----------------------------------------------------------------------------
(* What the browser receives *)

LEMMA TakenFacts ==
  ASSUME IInv, toBrowser # <<>>, toBrowser' = Tail(toBrowser), UNCHANGED call
  PROVE  /\ toBrowser' \in Seq(BrowserMessage)
         /\ Head(toBrowser) = toBrowser[1] /\ toBrowser[1] \in BrowserMessage
         /\ CloseComing' => CloseComing
         /\ CloseComing /\ toBrowser[1].type # "close" => CloseComing'
         /\ toBrowser[1].type = "close" => CloseComing
         /\ \A c \in Calls :
              /\ RequestsStill(c)
              /\ IsRequest(toBrowser[1], c) => 1 \in Requests(c) /\ Requests(c)' = {}
              /\ Cancelled(c) =>
                   \/ Cancelled(c)'
                   \/ /\ toBrowser[1] = [type |-> "cancel", id |-> c,
                                         generation |-> call[c].generation]
                      /\ Requests(c) = {}
  <1>1. /\ toBrowser' \in Seq(BrowserMessage) /\ Len(toBrowser) = Len(toBrowser') + 1
        /\ Len(toBrowser') \in Nat
        /\ \A i \in 1..Len(toBrowser') : toBrowser'[i] = toBrowser[i + 1]
        /\ Head(toBrowser) = toBrowser[1] /\ Head(toBrowser) \in BrowserMessage
        /\ 1 \in 1..Len(toBrowser)
    BY TailFacts DEF IInv, TypeInv
  <1>2. \A i \in 1..Len(toBrowser') : i + 1 \in 1..Len(toBrowser) /\ i + 1 # 1
    BY <1>1
  <1>3. \A i \in 1..Len(toBrowser) : i # 1 => i - 1 \in 1..Len(toBrowser') /\ (i - 1) + 1 = i
    BY <1>1
  <1>4. CloseComing' => CloseComing
    BY <1>1, <1>2 DEF CloseComing
  <1>5. CloseComing /\ toBrowser[1].type # "close" => CloseComing'
    <2>1. SUFFICES ASSUME NEW i \in 1..Len(toBrowser), toBrowser[i].type = "close",
                          toBrowser[1].type # "close"
                   PROVE  CloseComing'
      BY DEF CloseComing
    <2>2. i - 1 \in 1..Len(toBrowser') /\ (i - 1) + 1 = i
      BY <1>3, <2>1
    <2>3. toBrowser'[i - 1].type = "close"
      BY <1>1, <2>1, <2>2
    <2>4. QED
      BY <2>2, <2>3 DEF CloseComing
  <1>6. toBrowser[1].type = "close" => CloseComing
    BY <1>1 DEF CloseComing
  <1>7. ASSUME NEW c \in Calls
        PROVE  /\ RequestsStill(c)
               /\ IsRequest(toBrowser[1], c) => 1 \in Requests(c) /\ Requests(c)' = {}
    <2>1. Asks(c)
      BY DEF IInv, CallInv
    <2>2. \A i \in Requests(c)' : i + 1 \in Requests(c) /\ toBrowser'[i] = toBrowser[i + 1]
                                  /\ i \in Nat
      BY <1>1, <1>2 DEF Requests
    <2>3. \A i, j \in Requests(c)' : i = j
      <3>1. \A i, j \in Requests(c)' : i + 1 = j + 1
        BY <2>1, <2>2 DEF Asks
      <3>2. QED
        BY <2>2, <3>1
    <2>4. RequestsStill(c)
      <3>1. Requests(c) = {} => Requests(c)' = {}
        BY <2>2
      <3>2. \A i \in Requests(c)' : toBrowser'[i].generation = call[c].generation
        BY <2>1, <2>2 DEF Asks
      <3>3. QED
        BY <2>3, <3>1, <3>2 DEF RequestsStill
    <2>5. ASSUME IsRequest(toBrowser[1], c)
          PROVE  1 \in Requests(c) /\ Requests(c)' = {}
      <3>1. 1 \in Requests(c)
        BY <1>1, <2>5 DEF Requests
      <3>2. \A i \in Requests(c)' : FALSE
        <4>1. \A i \in Requests(c)' : i + 1 = 1 /\ i + 1 # 1
          BY <1>2, <2>1, <2>2, <3>1 DEF Asks, Requests
        <4>2. QED
          BY <4>1
      <3>3. QED
        BY <3>1, <3>2
    <2>6. QED
      BY <2>4, <2>5
  <1>8. ASSUME NEW c \in Calls, Cancelled(c)
        PROVE  \/ Cancelled(c)'
               \/ /\ toBrowser[1] = [type |-> "cancel", id |-> c,
                                     generation |-> call[c].generation]
                  /\ Requests(c) = {}
    <2> DEFINE cancel == [type |-> "cancel", id |-> c, generation |-> call[c].generation]
    <2>1. PICK j \in 1..Len(toBrowser) : /\ toBrowser[j] = cancel
                                         /\ \A i \in Requests(c) : i < j
      BY <1>8 DEF Cancelled
    <2>2. CASE j = 1
      <3>1. \A i \in Requests(c) : i \in 1..Len(toBrowser) /\ i < 1
        BY <2>1, <2>2 DEF Requests
      <3>2. Requests(c) = {}
        BY <1>1, <3>1
      <3>3. QED
        BY <2>1, <2>2, <3>2
    <2>3. CASE j # 1
      <3>1. j - 1 \in 1..Len(toBrowser') /\ (j - 1) + 1 = j
        BY <1>3, <2>3
      <3>2. toBrowser'[j - 1] = cancel
        BY <1>1, <2>1, <3>1
      <3>3. \A i \in Requests(c)' : i < j - 1
        <4>1. \A i \in Requests(c)' : i \in Nat /\ i + 1 \in Requests(c)
          BY <1>1, <1>2 DEF Requests
        <4>2. QED
          BY <2>1, <4>1
      <3>4. cancel = [type |-> "cancel", id |-> c, generation |-> call'[c].generation]
        OBVIOUS
      <3> HIDE DEF cancel
      <3>5. QED
        BY <3>1, <3>2, <3>3, <3>4 DEF Cancelled
    <2>4. QED
      BY <2>2, <2>3
  <1>9. QED
    BY <1>1, <1>4, <1>5, <1>6, <1>7, <1>8

LEMMA BrowserMessageFacts ==
  ASSUME NEW m \in BrowserMessage
  PROVE  /\ m.type \in {"request", "cancel"} => m.id \in Calls /\ m.generation \in Nat
         /\ m.type = "update" => m.seq \in Nat
  BY DEF BrowserMessage

\* A message that leaves the mount alone.
LEMMA TakenKeeps ==
  ASSUME IInv, UNCHANGED <<call, channel, accepted, diag, toPython>>,
         toBrowser # <<>>, toBrowser' = Tail(toBrowser), toBrowser[1].type # "close",
         browser' \in Browser, browser'.generation = browser.generation,
         browser'.stage = browser.stage, browser'.inspection = browser.inspection,
         browser'.mounts = browser.mounts, browser'.reports = browser.reports,
         browser'.unsent = browser.unsent,
         \A c \in Calls : /\ Asks(c)' /\ (Done(c) => Done(c)')
                          /\ Cancelled(c) => Cancelled(c)' \/ Done(c)'
  PROVE  IInv'
  <1>1. TypeInv /\ toBrowser' \in Seq(BrowserMessage) /\ (CloseComing' <=> CloseComing)
    BY TakenFacts DEF IInv
  <1>2. TypeInv'
    BY <1>1 DEF TypeInv
  <1>3. DiagInv'
    BY <1>2, DiagStays
  <1>4. Traits' = Traits
    BY DEF Traits
  <1>5. FatalInv'
    BY <1>1, <1>4 DEF IInv, FatalInv
  <1>6. TrailInv'
    BY <1>4 DEF IInv, TrailInv
  <1>7. /\ \A g \in Nat : Reached(g) => Reached(g)'
        /\ \A g \in Nat : Past(g) => Past(g)'
    BY DEF Past, Reached
  <1>8. ASSUME NEW c \in Calls
        PROVE  CallInv(c)'
    <2>1. Gone(c) => Gone(c)'
      BY <1>1, <1>7, CallTyped DEF Gone, Past
    <2>2. QED
      BY <1>7, <2>1, CallWatches
  <1>9. QED
    BY <1>2, <1>3, <1>5, <1>6, <1>8 DEF IInv

LEMMA ReceiveInBrowserKeeps ==
  ASSUME IInv, ReceiveInBrowser
  PROVE  IInv'
  <1> DEFINE m == Head(toBrowser)
  <1>1. /\ TypeInv /\ toBrowser # <<>> /\ toBrowser' = Tail(toBrowser)
        /\ UNCHANGED <<call, channel, accepted, diag, toPython>>
    BY DEF IInv, ReceiveInBrowser, ReceiveRequest, ReceiveCancel, ReceiveUpdate, ReceiveClose
  <1>2. ReceiveRequest(m) \/ ReceiveCancel(m) \/ ReceiveUpdate(m) \/ ReceiveClose(m)
    BY DEF ReceiveInBrowser
  <1>3. /\ toBrowser' \in Seq(BrowserMessage)
        /\ m = toBrowser[1] /\ m \in BrowserMessage
        /\ CloseComing' => CloseComing
        /\ m.type = "close" => CloseComing
        /\ \A c \in Calls :
             /\ RequestsStill(c)
             /\ IsRequest(m, c) => 1 \in Requests(c) /\ Requests(c)' = {}
             /\ Cancelled(c) =>
                  \/ Cancelled(c)'
                  \/ /\ m.type = "cancel" /\ m.id = c /\ m.generation = call[c].generation
                     /\ Requests(c) = {}
    <2>1. \A c \in Calls : m = [type |-> "cancel", id |-> c, generation |-> call[c].generation]
            => m.type = "cancel" /\ m.id = c /\ m.generation = call[c].generation
      <3> HIDE DEF m
      <3>1. QED
        OBVIOUS
    <2>2. QED
      BY <1>1, <2>1, TakenFacts
  <1>4. /\ browser \in Browser /\ browser.pending \subseteq Calls
        /\ browser.work \subseteq [id : Calls, generation : Nat, aborted : BOOLEAN]
    BY <1>1, BrowserTyped
  <1>5. \A c \in Calls : Asks(c) /\ (Answered(c)' => Answered(c))
    BY <1>1 DEF IInv, CallInv, Answered
  <1>6. \A c \in Calls : c \notin browser'.pending /\ Requests(c)' = {} => Done(c)'
    BY DEF Done
  <1> HIDE DEF m
  <1>7. CASE ReceiveRequest(m)
    <2>1. m.type = "request" /\ m.id \in Calls /\ m.generation \in Nat
      BY <1>3, <1>7, BrowserMessageFacts DEF ReceiveRequest
    <2> PICK id \in Calls : id = m.id
      BY <2>1
    <2>2. IsRequest(m, id)
      BY <2>1 DEF IsRequest
    <2>3. /\ Requests(id)' = {} /\ 1 \in Requests(id)
          /\ id \notin browser.pending /\ m.generation = call[id].generation
          /\ ~Answered(id) /\ \A w \in browser.work : w.id # id
          /\ call[id].pc \in Asked /\ call[id].generation # None
      <3>1. Requests(id)' = {} /\ 1 \in Requests(id)
        BY <1>3, <2>1, <2>2
      <3>2. QED
        BY <1>3, <1>5, <2>1, <3>1 DEF Asks, Done
    <2>4. \A c \in Calls : Cancelled(c) => Cancelled(c)'
      BY <1>3, <2>1
    <2>5. CASE m.generation # browser.generation /\ UNCHANGED browser
      <3>1. ASSUME NEW c \in Calls
            PROVE  Asks(c)' /\ (Done(c) => Done(c)')
        <4>1. WorkStill(c)
          BY <1>5, <2>5 DEF WorkStill, Asks
        <4>2. Asks(c)'
          BY <1>1, <1>3, <1>5, <2>5, <4>1, AsksWatches
        <4>3. Done(c) => Done(c)'
          BY <1>3, <2>5 DEF Done, RequestsStill
        <4>4. QED
          BY <4>2, <4>3
      <3>2. QED
        BY <1>1, <1>3, <1>4, <2>1, <2>4, <2>5, <3>1, TakenKeeps
    <2>6. CASE m.generation = browser.generation
      <3> DEFINE begun == [id |-> id, generation |-> m.generation, aborted |-> FALSE]
                 pending == browser.pending \cup {id}
                 work == browser.work \cup {begun}
      <3>1. browser' = [browser EXCEPT !.pending = pending, !.work = work]
        BY <1>4, <1>7, <2>3, <2>6 DEF ReceiveRequest
      <3>2. /\ pending \subseteq Calls
            /\ work \subseteq [id : Calls, generation : Nat, aborted : BOOLEAN]
            /\ begun.id = id /\ begun.aborted = FALSE
        <4>1. begun \in [id : Calls, generation : Nat, aborted : BOOLEAN]
          BY <2>1
        <4>2. begun.id = id /\ begun.aborted = FALSE
          OBVIOUS
        <4> HIDE DEF begun
        <4>3. QED
          BY <1>4, <4>1, <4>2
      <3> HIDE DEF begun
      <3>3. /\ browser' \in Browser /\ browser'.generation = browser.generation
            /\ browser'.stage = browser.stage /\ browser'.inspection = browser.inspection
            /\ browser'.mounts = browser.mounts /\ browser'.reports = browser.reports
            /\ browser'.unsent = browser.unsent
            /\ browser'.pending = pending /\ browser'.work = work
        <4> HIDE DEF pending, work
        <4>1. QED
          BY <1>4, <3>1, <3>2 DEF Browser
      <3>4. ASSUME NEW c \in Calls
            PROVE  Asks(c)' /\ (Done(c) => Done(c)')
        <4>1. CASE c = id
          <5>1. /\ call' = call /\ Requests(c)' = {} /\ ~Answered(c)'
                /\ call[c].pc \in Asked /\ call[c].generation # None
                /\ call[c].generation = browser'.generation
            BY <1>1, <1>5, <2>3, <2>6, <3>3, <4>1
          <5>2. \A w \in browser'.work : w.id = c => w = begun /\ ~w.aborted
            BY <2>3, <3>2, <3>3, <4>1
          <5>3. Asks(c)'
            BY <5>1, <5>2 DEF Asks
          <5>4. ~Done(c)
            BY <2>3, <4>1 DEF Done
          <5>5. QED
            BY <5>3, <5>4
        <4>2. CASE c # id
          <5>1. c \in browser'.pending <=> c \in browser.pending
            BY <3>3, <4>2
          <5>2. WorkStill(c)
            BY <1>5, <3>2, <3>3, <4>2, <5>1 DEF WorkStill, Asks
          <5>3. Asks(c)'
            BY <1>1, <1>3, <1>5, <3>3, <5>1, <5>2, AsksWatches
          <5>4. Done(c) => Done(c)'
            BY <1>3, <5>1 DEF Done, RequestsStill
          <5>5. QED
            BY <5>3, <5>4
        <4>3. QED
          BY <4>1, <4>2
      <3>5. QED
        BY <1>1, <1>3, <2>1, <2>4, <3>3, <3>4, TakenKeeps
    <2>7. QED
      BY <1>7, <2>3, <2>5, <2>6 DEF ReceiveRequest
  <1>8. CASE ReceiveCancel(m)
    <2>1. m.type = "cancel" /\ m.id \in Calls /\ m.generation \in Nat
      BY <1>3, <1>8, BrowserMessageFacts DEF ReceiveCancel
    <2> DEFINE pending == browser.pending \ {m.id}
               work == {IF w.id = m.id /\ w.id \in browser.pending
                        THEN [w EXCEPT !.aborted = TRUE] ELSE w : w \in browser.work}
    <2>2. CASE m.generation # browser.generation /\ UNCHANGED browser
      <3>1. ASSUME NEW c \in Calls
            PROVE  /\ Asks(c)' /\ (Done(c) => Done(c)')
                   /\ Cancelled(c) => Cancelled(c)' \/ Done(c)'
        <4>1. WorkStill(c)
          BY <1>5, <2>2 DEF WorkStill, Asks
        <4>2. Asks(c)'
          BY <1>1, <1>3, <1>5, <2>2, <4>1, AsksWatches
        <4>3. Done(c) => Done(c)'
          BY <1>3, <2>2 DEF Done, RequestsStill
        <4>4. ASSUME m.generation = call[c].generation, Requests(c) = {}
              PROVE  Done(c)'
          <5>1. m.generation = call[c].generation
            BY <4>4
          <5>2. c \notin browser.pending
            BY <1>5, <2>2, <5>1 DEF Asks
          <5>3. QED
            BY <4>3, <4>4, <5>2 DEF Done
        <4>5. QED
          BY <1>3, <4>2, <4>3, <4>4
      <3>2. QED
        BY <1>1, <1>3, <1>4, <2>1, <2>2, <3>1, TakenKeeps
    <2>3. CASE m.generation = browser.generation
      <3>1. browser' = [browser EXCEPT !.pending = pending, !.work = work]
        BY <1>4, <1>8, <2>3 DEF ReceiveCancel
      <3>2. /\ pending \subseteq Calls
            /\ work \subseteq [id : Calls, generation : Nat, aborted : BOOLEAN]
        BY <1>4
      <3>3. /\ browser' \in Browser /\ browser'.generation = browser.generation
            /\ browser'.stage = browser.stage /\ browser'.inspection = browser.inspection
            /\ browser'.mounts = browser.mounts /\ browser'.reports = browser.reports
            /\ browser'.unsent = browser.unsent
            /\ browser'.pending = pending /\ browser'.work = work
        <4> HIDE DEF pending, work
        <4>1. QED
          BY <1>4, <3>1, <3>2 DEF Browser
      <3>4. \A w \in browser'.work : \E v \in browser.work :
              /\ v.id = w.id
              /\ w = IF v.id = m.id /\ v.id \in browser.pending
                     THEN [v EXCEPT !.aborted = TRUE] ELSE v
              /\ w.aborted => v.aborted \/ w.id = m.id
        <4>1. SUFFICES ASSUME NEW w \in browser'.work
                       PROVE  \E v \in browser.work :
                                /\ v.id = w.id
                                /\ w = IF v.id = m.id /\ v.id \in browser.pending
                                       THEN [v EXCEPT !.aborted = TRUE] ELSE v
                                /\ w.aborted => v.aborted \/ w.id = m.id
          OBVIOUS
        <4>2. PICK v \in browser.work : w = IF v.id = m.id /\ v.id \in browser.pending
                                            THEN [v EXCEPT !.aborted = TRUE] ELSE v
          BY <3>3, <4>1
        <4>3. v \in [id : Calls, generation : Nat, aborted : BOOLEAN]
          BY <1>4
        <4>4. v.id = w.id /\ (w.aborted => v.aborted \/ w.id = m.id)
          BY <4>2, <4>3
        <4>5. QED
          BY <4>2, <4>4
      <3> HIDE DEF pending, work
      <3>5. ASSUME NEW c \in Calls
            PROVE  /\ Asks(c)' /\ (Done(c) => Done(c)')
                   /\ Cancelled(c) => Cancelled(c)' \/ Done(c)'
        <4>1. /\ c \in browser'.pending => c \in browser.pending
              /\ m.id \notin browser'.pending
          BY <3>3 DEF pending
        <4>2. WorkStill(c)
          <5>1. SUFFICES ASSUME NEW w \in browser'.work, w.id = c
                         PROVE  /\ \E v \in browser.work : v.id = c
                                /\ w.aborted => c \notin browser'.pending
                                /\ \A v \in browser'.work : v.id = c => v = w
            BY DEF WorkStill
          <5>2. PICK v \in browser.work :
                  /\ v.id = w.id
                  /\ w = IF v.id = m.id /\ v.id \in browser.pending
                         THEN [v EXCEPT !.aborted = TRUE] ELSE v
                  /\ w.aborted => v.aborted \/ w.id = m.id
            BY <3>4
          <5>3. w.aborted => c \notin browser'.pending
            BY <1>5, <4>1, <5>1, <5>2 DEF Asks
          <5>4. ASSUME NEW x \in browser'.work, x.id = c
                PROVE  x = w
            <6>1. PICK u \in browser.work :
                    /\ u.id = x.id
                    /\ x = IF u.id = m.id /\ u.id \in browser.pending
                           THEN [u EXCEPT !.aborted = TRUE] ELSE u
              BY <3>4
            <6>2. u = v
              BY <1>5, <5>1, <5>2, <5>4, <6>1 DEF Asks
            <6>3. QED
              BY <5>2, <6>1, <6>2
          <5>5. QED
            BY <5>1, <5>2, <5>3, <5>4
        <4>3. Asks(c)'
          BY <1>1, <1>3, <1>5, <3>3, <4>1, <4>2, AsksWatches
        <4>4. Done(c) => Done(c)'
          BY <1>3, <4>1 DEF Done, RequestsStill
        <4>5. ASSUME m.id = c, Requests(c) = {}
              PROVE  Done(c)'
          <5>1. m.id = c
            BY <4>5
          <5>2. Requests(c)' = {}
            BY <1>3, <4>5 DEF RequestsStill
          <5>3. QED
            BY <4>1, <5>1, <5>2 DEF Done
        <4>6. QED
          BY <1>3, <4>3, <4>4, <4>5
      <3>6. QED
        BY <1>1, <1>3, <2>1, <3>3, <3>5, TakenKeeps
    <2>4. QED
      BY <1>8, <2>2, <2>3 DEF ReceiveCancel
  <1>9. CASE ReceiveUpdate(m)
    <2>1. m.type = "update" /\ m.seq \in Nat
      BY <1>3, <1>9, BrowserMessageFacts DEF ReceiveUpdate
    <2> DEFINE applied == IF browser.stage = "live" THEN m.seq ELSE browser.applied
    <2>2. /\ browser' = [browser EXCEPT !.session = m.seq, !.applied = applied]
          /\ applied \in Nat
      BY <1>1, <1>4, <1>9, <2>1, BrowserTyped DEF ReceiveUpdate
    <2> HIDE DEF applied
    <2>3. /\ browser' \in Browser /\ browser'.generation = browser.generation
          /\ browser'.stage = browser.stage /\ browser'.inspection = browser.inspection
          /\ browser'.mounts = browser.mounts /\ browser'.reports = browser.reports
          /\ browser'.unsent = browser.unsent
          /\ browser'.pending = browser.pending /\ browser'.work = browser.work
      BY <1>4, <2>1, <2>2 DEF Browser
    <2>4. ASSUME NEW c \in Calls
          PROVE  Asks(c)' /\ (Done(c) => Done(c)') /\ (Cancelled(c) => Cancelled(c)')
      <3>1. WorkStill(c)
        BY <1>5, <2>3 DEF WorkStill, Asks
      <3>2. Asks(c)'
        BY <1>1, <1>3, <1>5, <2>3, <3>1, AsksWatches
      <3>3. Done(c) => Done(c)'
        BY <1>3, <2>3 DEF Done, RequestsStill
      <3>4. Cancelled(c) => Cancelled(c)'
        BY <1>3, <2>1
      <3>5. QED
        BY <3>2, <3>3, <3>4
    <2>5. QED
      BY <1>1, <1>3, <2>1, <2>3, <2>4, TakenKeeps
  <1>10. CASE ReceiveClose(m)
    <2> DEFINE old == Unmounted("closed")
    <2>1. m.type = "close" /\ browser' = [old EXCEPT !.unsent = FALSE]
      BY <1>10 DEF ReceiveClose
    <2>2. /\ old \in Browser /\ old.stage = "closed"
          /\ old.generation = None /\ old.pending = {} /\ old.inspection = None
          /\ old.mounts = browser.mounts /\ old.reports = browser.reports
          /\ old.work = {[w EXCEPT !.aborted = TRUE] : w \in browser.work}
      BY <1>1, UnmountedFacts
    <2> HIDE DEF old
    <2>3. /\ browser' \in Browser /\ browser'.stage = "closed" /\ browser'.generation = None
          /\ browser'.pending = {} /\ browser'.inspection = None
          /\ browser'.mounts = browser.mounts /\ browser'.reports = browser.reports
          /\ browser'.work = {[w EXCEPT !.aborted = TRUE] : w \in browser.work}
      <3>1. /\ browser' \in Browser /\ browser'.stage = old.stage
            /\ browser'.generation = old.generation
            /\ browser'.pending = old.pending /\ browser'.inspection = old.inspection
            /\ browser'.mounts = old.mounts /\ browser'.reports = old.reports
            /\ browser'.work = old.work
        <4>1. old \in Browser
          BY <2>2
        <4>2. QED
          BY <2>1, <4>1 DEF Browser
      <3>2. QED
        BY <2>2, <3>1
    <2>4. channel.closed
      BY <1>3, <2>1 DEF IInv, FatalInv
    <2>5. TypeInv'
      BY <1>1, <1>3, <2>3 DEF TypeInv
    <2>6. DiagInv'
      BY <1>1, <2>3, <2>4, <2>5, DiagStays
    <2>7. FatalInv'
      <3>1. Traits' = Traits
        BY <1>1 DEF Traits
      <3>2. QED
        BY <1>1, <1>3, <2>3, <3>1 DEF IInv, FatalInv
    <2>8. browser.mounts \in Nat
      BY <1>1, BrowserTyped
    <2>9. /\ \A g \in Nat : Reached(g) => Reached(g)'
          /\ Reached(None)'
      BY <2>3, <2>8 DEF Reached, None
    <2>10. TrailInv'
      BY <1>1, <2>3, <2>9, TrailUnmounts
    <2>11. ASSUME NEW c \in Calls
           PROVE  CallInv(c)'
      <3>1. RequestsStill(c) /\ (Cancelled(c) => Cancelled(c)')
        BY <1>3, <2>1
      <3>2. call[c].generation # None => Gone(c)'
        <4>1. Named(c)
          BY DEF IInv, CallInv
        <4>2. call[c].generation <= browser.mounts
          BY <4>1 DEF Named
        <4>3. call' = call
          BY <1>1
        <4>4. QED
          BY <2>3, <4>2, <4>3 DEF Gone, Past
      <3>3. QED
        BY <1>1, <2>3, <2>9, <3>1, <3>2, CallUnmounts
    <2>12. QED
      BY <2>5, <2>6, <2>7, <2>10, <2>11 DEF IInv
  <1>11. QED
    BY <1>2, <1>7, <1>8, <1>9, <1>10

-----------------------------------------------------------------------------
(* Theorems *)

LEMMA InitInvariant == Init => IInv
  <1> SUFFICES ASSUME Init
               PROVE  IInv
    OBVIOUS
  <1> DEFINE empty == <<>>
             table == [c \in {} |-> None]
             nobody == {}
             idle == [pc |-> "idle", generation |-> None, future |-> "none", queue |-> empty]
  <1>1. /\ \A c \in Calls : call[c] = idle
        /\ call = [c \in Calls |-> idle]
        /\ channel = [generation |-> None, closed |-> FALSE, ready |-> nobody, pending |-> table,
                      failing |-> "none", cancelled |-> FALSE]
        /\ browser = [stage |-> "away", generation |-> None, mounts |-> 0, reports |-> 0,
                      session |-> 0, applied |-> 0, pending |-> nobody, work |-> nobody,
                      inspection |-> None, unsent |-> FALSE]
        /\ accepted = [revision |-> 0, seq |-> 0, errors |-> "unknown", updates |-> 0]
        /\ diag = [revision |-> 0, errors |-> "none",
                   model |-> [revision |-> 0, seq |-> 0, errors |-> "unknown"]]
        /\ toBrowser = <<>> /\ toPython = <<>>
    BY DEF Init
  <1>2. /\ empty \in Seq(Outcomes) /\ Len(empty) = 0
        /\ toBrowser \in Seq(BrowserMessage) /\ toPython \in Seq(PythonMessage)
        /\ Len(toBrowser) = 0 /\ Len(toPython) = 0
    BY <1>1
  <1>3. /\ table \in UNION {[ids -> Nat] : ids \in SUBSET Calls} /\ DOMAIN table = {}
    <2>1. table \in [{} -> Nat] /\ {} \in SUBSET Calls /\ DOMAIN table = {}
      OBVIOUS
    <2> HIDE DEF table
    <2>2. QED
      BY <2>1
  <1>4. IsFiniteSet({})
    BY FS_EmptySet
  <1>5. nobody \in SUBSET Calls /\ (\A c : c \notin nobody)
        /\ nobody \in SUBSET [id : Calls, generation : Nat, aborted : BOOLEAN]
    OBVIOUS
  <1> HIDE DEF empty, table, nobody
  <1>6. idle \in Coroutines /\ idle.pc = "idle" /\ idle.generation = None /\ idle.future = "none"
        /\ idle.queue = empty
    BY <1>2 DEF Coroutines, None
  <1> HIDE DEF idle
  <1>7. /\ channel \in Channel /\ channel.generation = None /\ ~channel.closed
        /\ channel.ready = nobody /\ channel.pending = table /\ channel.failing = "none"
    BY <1>1, <1>3, <1>5 DEF Channel, None
  <1>8. /\ browser \in Browser /\ browser.stage = "away" /\ browser.generation = None
        /\ browser.mounts = 0 /\ browser.pending = nobody /\ browser.work = nobody
        /\ browser.inspection = None
    BY <1>1, <1>5 DEF Browser, None
  <1>9. /\ accepted \in [revision : Nat, seq : Nat, errors : Errors, updates : Nat]
        /\ diag \in [revision : Nat, errors : Errors, model : Model]
        /\ accepted.revision = 0 /\ accepted.errors = "unknown" /\ diag.revision = 0
        /\ diag.model.revision = 0 /\ diag.model.errors = "unknown"
    BY <1>1 DEF Errors, Model
  <1>10. TypeInv
    BY <1>1, <1>2, <1>3, <1>4, <1>6, <1>7, <1>8, <1>9 DEF TypeInv
  <1>11. Traits = {} /\ ~CloseComing
    BY <1>2 DEF Traits, CloseComing
  <1>12. DiagInv
    BY <1>8, <1>9, <1>11 DEF DiagInv
  <1>13. FatalInv
    BY <1>7, <1>9, <1>11 DEF FatalInv
  <1>14. TrailInv
    BY <1>7, <1>8, <1>11 DEF TrailInv, None
  <1>15. ASSUME NEW c \in Calls
         PROVE  CallInv(c)
    <2>1. /\ call[c].pc = "idle" /\ call[c].generation = None /\ call[c].future = "none"
          /\ Queued(c) = {}
      BY <1>1, <1>2, <1>6 DEF Queued
    <2>2. "idle" \notin Holding /\ "idle" \notin Asked /\ "idle" \notin Over
      BY DEF Holding, Asked, Over
    <2>3. Named(c)
      BY <1>8, <2>1, <2>2 DEF Named, None
    <2>4. Tabled(c)
      BY <1>3, <1>5, <1>7 DEF Tabled
    <2>5. Requests(c) = {} /\ ~Answered(c) /\ Done(c)
      BY <1>2, <1>5, <1>8 DEF Requests, Answered, Done
    <2>6. Asks(c)
      BY <1>5, <1>8, <2>5 DEF Asks, Done
    <2>7. Kept(c)
      BY <2>1, <2>2 DEF Kept
    <2>8. QED
      BY <2>3, <2>4, <2>6, <2>7 DEF CallInv
  <1>16. QED
    BY <1>10, <1>12, <1>13, <1>14, <1>15 DEF IInv

LEMMA StutterKeeps ==
  ASSUME IInv, UNCHANGED vars
  PROVE  IInv'
  <1>1. UNCHANGED <<call, channel, accepted, browser, diag, toBrowser, toPython>>
    BY DEF vars
  <1>2. TypeInv'
    BY <1>1 DEF IInv, TypeInv
  <1>3. PythonMoves
    BY <1>1 DEF IInv, TypeInv, FatalInv, PythonMoves
  <1>4. \A c : NothingNew(c)
    BY <1>1 DEF NothingNew, IInv, TypeInv
  <1>5. \A c \in Calls : call' = call /\ channel' = channel /\ Queued(c)' = Queued(c)
    BY <1>1 DEF Queued
  <1>6. QED
    BY <1>2, <1>3, <1>4, <1>5, AllStay

LEMMA Inductive == IInv /\ [Next]_vars => IInv'
  <1> SUFFICES ASSUME IInv, [Next]_vars
               PROVE  IInv'
    OBVIOUS
  <1>1. ASSUME NEW c \in Calls, Request(c) \/ Coroutine(c) \/ TimeOut(c) \/ Finish(c)
        PROVE  IInv'
    BY <1>1, RequestKeeps, AddReadyKeeps, LookAgainKeeps, RunCompletionKeeps, ResumeReadyKeeps,
       CheckKeeps, RegisterKeeps, RecheckKeeps, SendRequestKeeps, ResumeKeeps, TimeOutKeeps,
       FinishKeeps DEF Coroutine
  <1>2. CASE Comm
    BY <1>2, SendCancelsKeeps, FailAllKeeps, ReceiveTraitsKeeps, ReceiveResponseKeeps DEF Comm
  <1>3. CASE Transport
    BY <1>3, SendTraitsKeeps, ReceiveInBrowserKeeps, ConnectKeeps DEF Transport
  <1>4. CASE Close
    BY <1>4, CloseKeeps
  <1>5. CASE Update
    BY <1>5, UpdateKeeps
  <1>6. CASE Rerender
    BY <1>6, RerenderKeeps
  <1>7. CASE ViewFails
    BY <1>7, ViewFailsKeeps
  <1>8. CASE Leave
    BY <1>8, LeaveKeeps
  <1>9. ASSUME NEW errors \in {"none", "fatal"}, Report(errors)
        PROVE  IInv'
    BY <1>9, ReportKeeps
  <1>10. CASE UNCHANGED vars
    BY <1>10, StutterKeeps
  <1>11. QED
    BY <1>1, <1>2, <1>3, <1>4, <1>5, <1>6, <1>7, <1>8, <1>9, <1>10 DEF Next

LEMMA Invariant == Spec => []IInv
  BY InitInvariant, Inductive, PTL DEF Spec

\* The state of request's coroutines, of the comm and of the browser's mount keeps its
\* shape: what is queued is of the messages that requests.ts and _requests.py know.
THEOREM TypeCorrect == Spec => []TypeInv
  <1>1. IInv => TypeInv
    BY DEF IInv
  <1>2. QED
    BY <1>1, Invariant, PTL

\* A call that is over has left _pending and _ready, and the browser no longer works
\* for one that gave up, in a view that reported no failure (the finally of request,
\* _on_inspection, and receive of connectRequests).
THEOREM NothingLeft == Spec => []NothingIsLeftBehind
  <1>1. IInv => NothingIsLeftBehind
    <2>1. SUFFICES ASSUME IInv, NEW c \in Calls, Ended(c)
                   PROVE  /\ c \notin DOMAIN channel.pending \cup channel.ready
                          /\ At(c, "timed out") /\ toBrowser = <<>> /\ browser.reports = 0
                               => c \notin browser.pending
      BY DEF NothingIsLeftBehind
    <2>2. Tabled(c) /\ Asks(c) /\ (browser.reports = 0 => Kept(c)) /\ call[c].pc \in Over
      BY <2>1 DEF IInv, CallInv, Ended
    <2>3. c \notin DOMAIN channel.pending \cup channel.ready
      BY <2>2 DEF Tabled, Over
    <2>4. ASSUME toBrowser = <<>>, browser.reports = 0, c \in browser.pending
          PROVE  FALSE
      <3>1. Len(toBrowser) = 0
        BY <2>4
      <3>2. ~CloseComing /\ ~Cancelled(c)
        BY <3>1 DEF CloseComing, Cancelled
      <3>3. Past(call[c].generation)
        BY <2>2, <2>4, <3>2 DEF Kept, Gone, Done
      <3>4. call[c].generation = browser.generation
        BY <2>2, <2>4 DEF Asks
      <3>5. QED
        BY <3>3, <3>4 DEF Past
    <2>5. QED
      BY <2>3, <2>4
  <1>2. QED
    BY <1>1, Invariant, PTL

\* Once the traits of a live view are sent and received, _accepted_diagnostics are those
\* that its DiagnosticPublisher holds, whatever mounts, failures and renders came before.
THEOREM DiagnosticsReach == Spec => []DiagnosticsAgree
  <1>1. IInv => DiagnosticsAgree
    <2>1. SUFFICES ASSUME IInv, ~channel.closed, ~browser.unsent, toPython = <<>>,
                          browser.stage \in {"resolving", "live", "failed"}
                   PROVE  accepted.errors = diag.errors
      BY DEF DiagnosticsAgree
    <2>2. Len(toPython) = 0
      BY <2>1
    <2>3. Traits = {}
      BY <2>2 DEF Traits
    <2>4. QED
      BY <2>1, <2>3 DEF IInv, DiagInv
  <1>2. QED
    BY <1>1, Invariant, PTL

=============================================================================
