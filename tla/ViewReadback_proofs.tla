--------------------------- MODULE ViewReadback_proofs ---------------------------
(***************************************************************************)
(* Proofs about ViewReadback, whatever can fail and however often the view *)
(* is mounted, updated and asked.                                          *)
(***************************************************************************)
EXTENDS ViewReadback, TLAPS

Snapshot ==
  [revision : Nat, input : Int, settled : Int, pending : BOOLEAN, results : BOOLEAN, seq : Int]

Mount ==
  [id : Nat, stage : {"away", "none", "resolving", "live"}, session : BOOLEAN,
   input : Int, settled : Int, pending : BOOLEAN, results : BOOLEAN, offset : Int,
   generation : Nat, lastSequence : Nat]

Publisher ==
  [transport : Nat, input : Int, generation : Nat, scheduled : BOOLEAN,
   pending : Seq(Snapshot),
   readback : Snapshot, inspection : Nat, unsent : BOOLEAN]

Message == [call : Nat, readback : Snapshot, generation : Nat]

TypeInv ==
  /\ seq \in Nat /\ sessionSeq \in Nat
  /\ mount \in Mount
  /\ pub \in Publisher
  /\ request \in [call : Nat, stage : {"none", "coming", "reached"}, sequence : Nat,
                  generation : Nat]
  /\ wire \in Seq(Message)
  /\ accepted \in Snapshot
  /\ generation \in Nat
  /\ ready \in [call : Nat,
                stage : {"idle", "called", "sent", "answered", "returned", "failed"},
                sequence : Nat, generation : Nat, reply : Snapshot]

Messages(w) == {w[i] : i \in 1..Len(w)}

\* A reply without a snapshot: the request was rejected.
Refuses(m) == m.call # 0 /\ m.readback = Unseen

Replies(w) == {m \in Messages(w) : m.call # 0 /\ m.readback # Unseen}

\* The publisher numbers its transports, and what it has queued belongs to no
\* earlier revision than what the model holds.
Numbered(p) ==
  /\ p.readback.revision = p.transport
  /\ p.readback.input >= NoRevision /\ p.readback.input <= p.input
  /\ p.pending # <<>> => p.pending[1].input = p.input /\ p.input >= 0

\* The current mount publishes under the generation it was started with, and its
\* revisions begin above all that was queued before it.
MountInv ==
  /\ mount.stage \in {"resolving", "live"} =>
       mount.generation = pub.generation /\ mount.id >= 1 /\ mount.offset >= 0
  /\ mount.stage = "resolving" => pub.input <= mount.offset
  /\ mount.stage = "live" =>
       /\ mount.input >= 0 /\ pub.input <= mount.input + mount.offset
       /\ mount.lastSequence <= sessionSeq
  /\ pub.inspection # 0 => mount.stage = "live" /\ pub.inspection = mount.id

\* A snapshot with a higher transport revision is of no earlier input revision.
Precedes(x, y) ==
  /\ x.revision <= y.revision => x.input <= y.input
  /\ x.revision = y.revision => x = y

Snapshots == {Unseen, accepted, ready.reply, pub.readback} \cup {m.readback : m \in Messages(wire)}

SnapshotInv ==
  \A x \in Snapshots : x.revision <= pub.transport /\ \A y \in Snapshots : Precedes(x, y)

\* Snapshots are sent in the order of their revisions.
OrderInv ==
  /\ \A i, j \in 1..Len(wire) : i < j =>
       Refuses(wire[j]) \/ wire[i].readback.revision <= wire[j].readback.revision
  /\ \A m \in Messages(wire) : Refuses(m) \/ /\ accepted.revision <= m.readback.revision
                                             /\ ready.reply.revision <= m.readback.revision

\* Nothing that goes with the generation of a reply, and is as recent, knows fewer updates.
Answers(y, g) ==
  /\ g >= 1 /\ g <= mount.id
  /\ mount.stage = "resolving" => g < mount.id
  /\ g = pub.inspection => /\ y.seq <= mount.lastSequence /\ y.seq <= pub.readback.seq
                           /\ pub.pending # <<>> => y.seq <= pub.pending[1].seq
  /\ g = generation /\ y.revision <= accepted.revision => y.seq <= accepted.seq
  /\ \A m \in Messages(wire) : m.call = 0 /\ g = m.generation /\ y.revision <= m.readback.revision
                               => y.seq <= m.readback.seq

ReplyInv ==
  /\ \A m \in Replies(wire) : Answers(m.readback, m.generation)
  /\ ready.stage = "answered" => Answers(ready.reply, ready.generation)

\* What is under way for the current call answers with its updates.
CallInv ==
  /\ ready.stage # "idle" => ready.call >= 1
  /\ ready.stage \in {"sent", "answered"} => ready.generation = generation
  /\ ready.stage = "answered" => ready.reply.seq >= ready.sequence
  /\ request.stage # "none" =>
       /\ request.call >= 1 /\ request.call <= ready.call
       /\ request.call = ready.call => request.sequence >= ready.sequence
  /\ request.stage = "reached" =>
       /\ mount.stage = "live" /\ request.generation = mount.id
       /\ mount.lastSequence >= request.sequence
  /\ \A m \in Messages(wire) : m.call <= ready.call
  /\ \A m \in Replies(wire) : m.call = ready.call => m.readback.seq >= ready.sequence

IInv ==
  TypeInv /\ Numbered(pub) /\ MountInv /\ SnapshotInv /\ OrderInv /\ ReplyInv /\ CallInv
           /\ ReadyReflectsUpdates

-----------------------------------------------------------------------------
(* The wire *)

LEMMA AppendFacts ==
  ASSUME NEW w \in Seq(Message), NEW m \in Message
  PROVE  LET v == Append(w, m)
         IN  /\ v \in Seq(Message) /\ Len(v) = Len(w) + 1
             /\ v[Len(v)] = m /\ \A i \in 1..Len(w) : v[i] = w[i]
             /\ Messages(v) = Messages(w) \cup {m}
  <1> DEFINE v == Append(w, m)
  <1>1. /\ v \in Seq(Message) /\ Len(v) = Len(w) + 1 /\ Len(w) \in Nat
        /\ v[Len(v)] = m /\ \A i \in 1..Len(w) : v[i] = w[i]
    OBVIOUS
  <1> HIDE DEF v
  <1>2. 1..Len(v) = 1..Len(w) \cup {Len(v)}
    BY <1>1
  <1>3. Messages(v) = Messages(w) \cup {m}
    BY <1>1, <1>2 DEF Messages
  <1>4. QED
    BY <1>1, <1>3 DEF v

LEMMA TailFacts ==
  ASSUME NEW w \in Seq(Message), w # <<>>
  PROVE  LET v == Tail(w)
         IN  /\ v \in Seq(Message) /\ Len(w) = Len(v) + 1
             /\ \A i \in 1..Len(v) : v[i] = w[i + 1]
             /\ Head(w) = w[1] /\ Head(w) \in Message /\ Head(w) \in Messages(w)
             /\ Messages(v) \subseteq Messages(w)
  <1> DEFINE v == Tail(w)
  <1>1. /\ v \in Seq(Message) /\ Len(w) = Len(v) + 1 /\ Len(v) \in Nat
        /\ \A i \in 1..Len(v) : v[i] = w[i + 1]
        /\ Head(w) = w[1] /\ Head(w) \in Message
    OBVIOUS
  <1> HIDE DEF v
  <1>2. Messages(v) \subseteq Messages(w)
    BY <1>1 DEF Messages
  <1>3. Head(w) \in Messages(w)
    BY <1>1 DEF Messages
  <1>4. QED
    BY <1>1, <1>2, <1>3 DEF v

LEMMA MessagesTyped ==
  ASSUME NEW w \in Seq(Message)
  PROVE  Messages(w) \subseteq Message
  BY DEF Messages

-----------------------------------------------------------------------------
(* The publisher *)

LEMMA UnseenFacts ==
  /\ Unseen \in Snapshot
  /\ Unseen.revision = 0 /\ Unseen.input = NoRevision /\ Unseen.seq = NoRevision
  /\ NoRevision = -1
  BY DEF Unseen, Blank, NoRevision, Snapshot

\* What the publisher shows next, or shows already.
Newest(p) == IF p.pending # <<>> THEN p.pending[1] ELSE p.readback

\* The same state, but for the transport revision.
Alike(x, y) ==
  x.input = y.input /\ x.settled = y.settled /\ x.results = y.results /\ x.seq = y.seq

\* q is p with a snapshot queued, which belongs to no earlier revision.
Queues(p, q, snapshot) ==
  /\ q \in Publisher /\ Numbered(q)
  /\ q.readback = p.readback /\ q.transport = p.transport /\ q.inspection = p.inspection
  /\ q.pending # <<>> /\ q.pending[1] = snapshot /\ q.input = snapshot.input

LEMMA EnqueueFacts ==
  ASSUME NEW p \in Publisher, Numbered(p), NEW snapshot \in Snapshot,
         snapshot.input >= p.input, snapshot.input >= 0
  PROVE  LET q == Enqueue(p, snapshot)
         IN  Queues(p, q, snapshot) /\ q.generation = p.generation
  <1> DEFINE q == Enqueue(p, snapshot)
             queue == <<snapshot>>
  <1>1. q = [p EXCEPT !.input = snapshot.input, !.pending = queue, !.scheduled = TRUE]
    BY Zenon DEF Enqueue
  <1>2. queue \in Seq(Snapshot) /\ queue # <<>> /\ queue[1] = snapshot /\ snapshot.input \in Int
    BY DEF Snapshot
  <1> HIDE DEF q, queue
  <1>3. /\ q \in Publisher
        /\ q.readback = p.readback /\ q.transport = p.transport /\ q.inspection = p.inspection
        /\ q.generation = p.generation
        /\ q.pending = queue /\ q.input = snapshot.input
    BY <1>1, <1>2 DEF Publisher
  <1>4. p.input \in Int /\ p.readback.input \in Int
    BY DEF Publisher, Snapshot
  <1>5. Numbered(q)
    BY <1>2, <1>3, <1>4 DEF Numbered
  <1>6. QED
    BY <1>2, <1>3, <1>5 DEF Queues, q

\* start: whatever is shown until the next mount reports has a number of its own.
LEMMA StartedFacts ==
  ASSUME NEW p \in Publisher, Numbered(p)
  PROVE  LET q == Started(p)
         IN  /\ q \in Publisher /\ Numbered(q)
             /\ q.readback = p.readback /\ q.transport = p.transport /\ q.inspection = p.inspection
             /\ q.generation = p.generation + 1 /\ q.input <= Offset(p) /\ Offset(p) >= 0
  <1> DEFINE q == Started(p)
             previous == IF p.pending # <<>> THEN p.pending[1] ELSE p.readback
             counted == p.generation + 1
             empty == <<>>
             begun == [p EXCEPT !.pending = empty, !.generation = counted]
             offset == Offset(p)
             settled == IF previous.results THEN previous.settled ELSE offset
             shown == [Blank(offset, settled) EXCEPT !.pending = previous.results,
                                                     !.results = previous.results]
  <1>1. /\ p.input \in Int /\ offset \in Int /\ offset >= 0 /\ offset > p.input
        /\ counted \in Nat /\ empty \in Seq(Snapshot)
    BY UnseenFacts DEF Publisher, Offset, Numbered, Snapshot
  <1>2. previous \in Snapshot
    BY DEF Publisher
  <1>3. settled \in Int
    BY <1>1, <1>2 DEF Snapshot
  <1> HIDE DEF previous, counted, empty, offset, settled
  <1>4. shown \in Snapshot /\ shown.input = offset
    BY <1>1, <1>2, <1>3, UnseenFacts DEF Snapshot, Blank
  <1>5. /\ begun \in Publisher
        /\ begun.readback = p.readback /\ begun.transport = p.transport
        /\ begun.inspection = p.inspection /\ begun.input = p.input
        /\ begun.generation = counted /\ begun.pending = <<>>
    BY <1>1 DEF Publisher, empty
  <1>6. q = IF previous.input = NoRevision THEN begun ELSE Enqueue(begun, shown)
    BY Zenon DEF Started, previous, counted, empty, offset, settled
  <1> HIDE DEF shown, begun, q
  <1>7. Numbered(begun)
    BY <1>5 DEF Numbered
  <1>8. LET r == Enqueue(begun, shown)
        IN  Queues(begun, r, shown) /\ r.generation = begun.generation
    BY <1>1, <1>4, <1>5, <1>7, EnqueueFacts
  <1>9. CASE previous.input = NoRevision
    BY <1>1, <1>5, <1>6, <1>7, <1>9 DEF q, counted, offset
  <1>10. CASE previous.input # NoRevision
    BY <1>1, <1>4, <1>5, <1>6, <1>8, <1>10 DEF Queues, q, counted, offset
  <1>11. QED
    BY <1>9, <1>10

LEMMA FailedFacts ==
  ASSUME NEW p \in Publisher, Numbered(p)
  PROVE  LET q == Failed(p)
         IN  /\ q \in Publisher /\ Numbered(q)
             /\ q.readback = p.readback /\ q.transport = p.transport
  <1> DEFINE input == p.input + 1
             counted == p.generation + 1
             begun == [p EXCEPT !.generation = counted]
             shown == Blank(input, input)
  <1>1. input \in Int /\ input >= 0 /\ input > p.input /\ counted \in Nat
    BY UnseenFacts DEF Publisher, Numbered, Snapshot
  <1> HIDE DEF input, counted
  <1>2. shown \in Snapshot /\ shown.input = input
    BY <1>1, UnseenFacts DEF Snapshot, Blank
  <1>3. /\ begun \in Publisher /\ begun.readback = p.readback /\ begun.transport = p.transport
        /\ begun.input = p.input /\ begun.pending = p.pending
    BY <1>1 DEF Publisher
  <1>4. Failed(p) = Enqueue(begun, shown)
    BY Zenon DEF Failed, begun, shown, input, counted
  <1> HIDE DEF begun, shown
  <1>5. Numbered(begun)
    BY <1>3 DEF Numbered
  <1>6. p.input \in Int
    BY DEF Publisher
  <1>7. Queues(begun, Enqueue(begun, shown), shown)
    BY <1>1, <1>2, <1>3, <1>5, <1>6, EnqueueFacts
  <1>8. QED
    BY <1>3, <1>4, <1>7 DEF Queues

LEMMA AbortedFacts ==
  ASSUME NEW p \in Publisher, Numbered(p)
  PROVE  LET q == Aborted(p)
         IN  /\ q \in Publisher /\ Numbered(q) /\ q.inspection = 0
             /\ q.readback = p.readback /\ q.transport = p.transport
             /\ q.generation = p.generation /\ q.input = p.input /\ q.pending = p.pending
  <1> DEFINE q == [p EXCEPT !.inspection = 0, !.unsent = TRUE]
  <1>1. /\ q \in Publisher /\ q.inspection = 0
        /\ q.readback = p.readback /\ q.transport = p.transport
        /\ q.generation = p.generation /\ q.input = p.input /\ q.pending = p.pending
    BY DEF Publisher
  <1>2. Aborted(p) = IF p.inspection = 0 THEN p ELSE q
    BY Zenon DEF Aborted
  <1> HIDE DEF q
  <1>3. Numbered(q)
    BY <1>1 DEF Numbered
  <1>4. QED
    BY <1>1, <1>2, <1>3

\* The live mount's callback queues what the mount has now.
LEMMA PublishFacts ==
  ASSUME NEW p \in Publisher, Numbered(p), NEW m \in Mount,
         m.generation = p.generation, m.input >= 0, m.offset >= 0,
         p.input <= m.input + m.offset
  PROVE  LET q == Publish(p, m)
         IN  /\ Queues(p, q, Captured(m)) /\ q.generation = p.generation
             /\ Captured(m) \in Snapshot
             /\ Captured(m).input = m.input + m.offset /\ Captured(m).seq = m.lastSequence
  <1>1. Captured(m) \in Snapshot
    BY UnseenFacts DEF Mount, Snapshot, Captured
  <1>2. Captured(m).input = m.input + m.offset /\ Captured(m).seq = m.lastSequence
    BY DEF Captured
  <1>3. m.input + m.offset >= 0 /\ m.input # NoRevision
    BY UnseenFacts DEF Mount
  <1>4. Publish(p, m) = Enqueue(p, Captured(m))
    BY <1>3 DEF Publish
  <1>5. QED
    BY <1>1, <1>2, <1>3, <1>4, EnqueueFacts

\* What is queued is saved, as the next transport revision, unless the model holds
\* it already.
LEMMA FlushedFacts ==
  ASSUME NEW p \in Publisher, Numbered(p)
  PROVE  LET q == Flushed(p)
         IN  /\ q \in Publisher /\ Numbered(q) /\ q.pending = <<>>
             /\ q.generation = p.generation /\ q.inspection = p.inspection /\ q.input = p.input
             /\ \/ q.readback = p.readback /\ q.transport = p.transport
                \/ q.transport = p.transport + 1 /\ q.readback.input = p.input
             /\ p.pending # <<>> => q.readback.seq = p.pending[1].seq
             /\ p.pending = <<>> => q.readback = p.readback
             /\ Alike(q.readback, Newest(p))
  <1> DEFINE snapshot == p.pending[1]
             empty == <<>>
             u == [p EXCEPT !.pending = empty]
             next == p.transport + 1
             readback == [snapshot EXCEPT !.revision = next]
             v == [u EXCEPT !.input = snapshot.input, !.transport = next,
                            !.readback = readback, !.unsent = TRUE]
  <1>1. CASE p.pending = <<>>
    BY <1>1 DEF Flushed, Newest, Alike
  <1>2. CASE p.pending # <<>>
    <2>1. /\ snapshot \in Snapshot /\ snapshot.input = p.input /\ p.input >= 0
          /\ empty \in Seq(Snapshot) /\ next \in Nat
          /\ p.readback \in Snapshot /\ p.readback.input <= p.input
          /\ p.readback.revision = p.transport
          /\ p.input \in Int
      BY <1>2 DEF Publisher, Numbered
    <2> HIDE DEF snapshot, empty, next
    <2>2. /\ readback \in Snapshot /\ readback.revision = next
          /\ readback.input = snapshot.input /\ readback.seq = snapshot.seq
          /\ Alike(readback, snapshot)
      BY <2>1 DEF Snapshot, Alike
    <2> HIDE DEF readback
    <2>3. /\ u \in Publisher /\ u.pending = empty /\ u.readback = p.readback
          /\ u.transport = p.transport /\ u.generation = p.generation
          /\ u.inspection = p.inspection /\ u.input = p.input
      BY <2>1 DEF Publisher
    <2> HIDE DEF u
    <2>4. /\ v \in Publisher /\ v.pending = empty /\ v.readback = readback
          /\ v.transport = next /\ v.generation = p.generation
          /\ v.inspection = p.inspection /\ v.input = snapshot.input
      BY <2>1, <2>2, <2>3 DEF Publisher
    <2> HIDE DEF v
    <2>5. Flushed(p) = IF [p.readback EXCEPT !.revision = 0] = snapshot THEN u ELSE v
      <3>1. Flushed(p) = Saved(u, snapshot)
        BY <1>2 DEF Flushed, u, snapshot, empty
      <3>2. Saved(u, snapshot) = IF [u.readback EXCEPT !.revision = 0] = snapshot THEN u
                                 ELSE [u EXCEPT !.input = snapshot.input,
                                                !.transport = u.transport + 1,
                                                !.readback = [snapshot EXCEPT !.revision = u.transport + 1],
                                                !.unsent = TRUE]
        BY <2>3 DEF Saved, Publisher
      <3>3. QED
        BY <2>3, <3>1, <3>2 DEF v, readback, next
    <2>6. CASE [p.readback EXCEPT !.revision = 0] = snapshot
      <3>1. p.readback.seq = snapshot.seq /\ Alike(p.readback, snapshot)
        BY <2>1, <2>6 DEF Snapshot, Alike
      <3>2. Numbered(u)
        BY <2>3 DEF Numbered, empty
      <3>3. QED
        BY <1>2, <2>3, <2>5, <2>6, <3>1, <3>2 DEF snapshot, empty, Newest
    <2>7. CASE [p.readback EXCEPT !.revision = 0] # snapshot
      <3>1. Numbered(v)
        BY <2>1, <2>2, <2>4, UnseenFacts DEF Numbered, empty
      <3>2. QED
        BY <1>2, <2>1, <2>2, <2>4, <2>5, <2>7, <3>1 DEF snapshot, empty, next, Newest
    <2>8. QED
      BY <2>6, <2>7
  <1>3. QED
    BY <1>1, <1>2

-----------------------------------------------------------------------------
(* Steps of the browser that send nothing and leave the model's readback *)

LEMMA BrowserStep ==
  ASSUME IInv, TypeInv', Numbered(pub'), MountInv',
         pub'.readback = pub.readback, pub'.transport = pub.transport,
         UNCHANGED <<wire, accepted, generation, ready>>,
         mount'.id >= mount.id,
         mount'.stage = "resolving" => mount'.id > mount.id \/ mount.stage = "resolving",
         pub'.inspection # 0 =>
           \/ mount.stage = "resolving" /\ mount'.id = mount.id
           \/ /\ pub'.inspection = pub.inspection
              /\ mount'.lastSequence >= mount.lastSequence
              /\ pub'.pending = pub.pending \/ pub'.pending[1].seq = mount'.lastSequence,
         \/ request' = NoRequest
         \/ /\ request' = request
            /\ request.stage = "reached" =>
                 /\ mount'.stage = "live" /\ mount'.id = mount.id
                 /\ mount'.lastSequence >= mount.lastSequence
  PROVE  IInv'
  <1>1. SnapshotInv' /\ OrderInv' /\ ReadyReflectsUpdates'
    BY DEF IInv, SnapshotInv, Snapshots, Messages, OrderInv, ReadyReflectsUpdates
  <1>2. /\ mount.id \in Nat /\ mount'.id \in Nat /\ mount.lastSequence \in Nat
        /\ mount'.lastSequence \in Nat /\ mount \in Mount
    BY DEF IInv, TypeInv, Mount
  <1>3. ASSUME NEW y \in Snapshot, NEW g \in Nat, Answers(y, g)
        PROVE  Answers(y, g)'
    <2>1. y.seq \in Int
      BY <1>3 DEF Snapshot
    <2>2. /\ g >= 1 /\ g <= mount'.id
          /\ mount'.stage = "resolving" => g < mount'.id
      BY <1>2, <1>3 DEF Answers
    <2>3. ASSUME g = pub'.inspection
          PROVE  /\ y.seq <= mount'.lastSequence /\ y.seq <= pub'.readback.seq
                 /\ pub'.pending # <<>> => y.seq <= pub'.pending[1].seq
      <3>1. CASE mount.stage = "resolving" /\ mount'.id = mount.id
        <4>1. pub'.inspection = mount'.id
          BY <1>3, <2>2, <2>3 DEF MountInv
        <4>2. g < mount.id
          BY <1>3, <3>1 DEF Answers
        <4>3. QED
          BY <1>2, <2>3, <3>1, <4>1, <4>2
      <3>2. CASE /\ pub'.inspection = pub.inspection
                 /\ mount'.lastSequence >= mount.lastSequence
                 /\ pub'.pending = pub.pending \/ pub'.pending[1].seq = mount'.lastSequence
        BY <1>2, <1>3, <2>1, <2>3, <3>2 DEF Answers
      <3>3. QED
        BY <2>2, <2>3, <3>1, <3>2
    <2>4. /\ g = generation' /\ y.revision <= accepted'.revision => y.seq <= accepted'.seq
          /\ \A m \in Messages(wire') :
               m.call = 0 /\ g = m.generation /\ y.revision <= m.readback.revision
                 => y.seq <= m.readback.seq
      BY <1>3 DEF Answers
    <2>5. QED
      BY <2>2, <2>3, <2>4 DEF Answers
  <1>4. ReplyInv'
    <2>1. \A m \in Replies(wire) : m.readback \in Snapshot /\ m.generation \in Nat
      BY MessagesTyped DEF IInv, TypeInv, Replies, Message
    <2>2. ready.reply \in Snapshot /\ ready.generation \in Nat
      BY DEF IInv, TypeInv
    <2>3. \A m \in Replies(wire) : Answers(m.readback, m.generation)
      BY DEF IInv, ReplyInv
    <2>4. ready.stage = "answered" => Answers(ready.reply, ready.generation)
      BY DEF IInv, ReplyInv
    <2>5. ASSUME NEW m \in Replies(wire)
          PROVE  Answers(m.readback, m.generation)'
      <3> DEFINE y == m.readback
                 g == m.generation
      <3>1. y \in Snapshot /\ g \in Nat /\ Answers(y, g)
        BY <2>1, <2>3
      <3> HIDE DEF y, g
      <3>2. Answers(y, g)'
        BY <1>3, <3>1
      <3>3. QED
        BY <3>2 DEF y, g
    <2>6. ready.stage = "answered" => Answers(ready.reply, ready.generation)'
      BY <1>3, <2>2, <2>4
    <2>7. QED
      BY <2>5, <2>6 DEF ReplyInv, Replies, Messages
  <1>5. CallInv'
    <2>1. /\ request'.stage # "none" =>
               /\ request'.call >= 1 /\ request'.call <= ready.call
               /\ request'.call = ready.call => request'.sequence >= ready.sequence
          /\ request'.stage = "reached" =>
               /\ mount'.stage = "live" /\ request'.generation = mount'.id
               /\ mount'.lastSequence >= request'.sequence
      <3>1. CASE request' = NoRequest
        BY <3>1 DEF NoRequest
      <3>2. CASE /\ request' = request
                 /\ request.stage = "reached" =>
                      /\ mount'.stage = "live" /\ mount'.id = mount.id
                      /\ mount'.lastSequence >= mount.lastSequence
        <4>1. request.sequence \in Nat
          BY DEF IInv, TypeInv
        <4>2. QED
          BY <1>2, <3>2, <4>1 DEF IInv, CallInv
      <3>3. QED
        BY <3>1, <3>2
    <2>2. QED
      BY <2>1 DEF IInv, CallInv, Messages, Replies
  <1>6. QED
    BY <1>1, <1>4, <1>5 DEF IInv

LEMMA MountsPreserves ==
  ASSUME IInv, NEW p, Mounts(p), p \in Publisher, Numbered(p),
         p.readback = pub.readback, p.transport = pub.transport
  PROVE  IInv'
  <1> DEFINE q == Aborted(p)
  <1>1. /\ q \in Publisher /\ Numbered(q) /\ q.inspection = 0
        /\ q.readback = pub.readback /\ q.transport = pub.transport
        /\ q.input = p.input
    BY AbortedFacts
  <1>2. Offset(q) = Offset(p)
    BY <1>1 DEF Offset
  <1>3. pub' = Started(q)
    BY DEF Mounts
  <1> HIDE DEF q
  <1>4. /\ pub' \in Publisher /\ Numbered(pub') /\ pub'.inspection = 0
        /\ pub'.readback = pub.readback /\ pub'.transport = pub.transport
        /\ pub'.input <= Offset(p) /\ Offset(p) >= 0
    BY <1>1, <1>2, <1>3, StartedFacts
  <1>5. /\ mount' = Unmounted(mount.id + 1, "resolving", Offset(p), pub'.generation)
        /\ request' = NoRequest
        /\ UNCHANGED <<sessionSeq, wire, seq, accepted, generation, ready>>
    BY DEF Mounts, Python
  <1>6. /\ mount'.id = mount.id + 1 /\ mount'.stage = "resolving"
        /\ mount'.offset = Offset(p) /\ mount'.generation = pub'.generation
    BY <1>5 DEF Unmounted
  <1>7. mount.id \in Nat /\ Offset(p) \in Int /\ pub'.generation \in Nat
    <2>1. mount.id \in Nat
      BY DEF IInv, TypeInv, Mount
    <2>2. p.input \in Int /\ pub'.generation \in Nat
      BY <1>4 DEF Publisher
    <2>3. QED
      BY <2>1, <2>2 DEF Offset
  <1>8. mount' \in Mount
    BY <1>5, <1>7, UnseenFacts DEF Unmounted, Mount
  <1>9. TypeInv'
    BY <1>4, <1>5, <1>8 DEF IInv, TypeInv, NoRequest
  <1>10. MountInv'
    BY <1>4, <1>6, <1>7 DEF MountInv
  <1>11. QED
    BY <1>4, <1>5, <1>6, <1>7, <1>9, <1>10, BrowserStep

LEMMA DisplayPreserves ==
  ASSUME IInv, Display
  PROVE  IInv'
  <1> DEFINE empty == <<>>
             p == [pub EXCEPT !.input = pub.readback.input, !.generation = 0, !.pending = empty]
  <1>1. pub \in Publisher /\ pub.readback.input \in Int /\ empty \in Seq(Snapshot)
    BY DEF IInv, TypeInv, Publisher, Snapshot
  <1>2. Mounts(p)
    BY DEF Display
  <1> HIDE DEF empty
  <1>3. /\ p \in Publisher /\ p.readback = pub.readback /\ p.transport = pub.transport
        /\ p.input = pub.readback.input /\ p.pending = empty
    BY <1>1 DEF Publisher
  <1> HIDE DEF p
  <1>4. Numbered(p)
    BY <1>1, <1>3 DEF IInv, Numbered, empty
  <1>5. QED
    BY <1>2, <1>3, <1>4, MountsPreserves

LEMMA RerenderPreserves ==
  ASSUME IInv, Rerender
  PROVE  IInv'
  BY MountsPreserves DEF IInv, TypeInv, Rerender

\* The view shows nothing any more.
LEMMA UnmountPreserves ==
  ASSUME IInv, NEW stage \in {"away", "none"},
         mount' = Unmounted(mount.id, stage, 0, 0), request' = NoRequest,
         pub' \in Publisher, Numbered(pub'), pub'.inspection = 0,
         pub'.readback = pub.readback, pub'.transport = pub.transport,
         sessionSeq' \in Nat, UNCHANGED <<wire, Python>>
  PROVE  IInv'
  <1>1. mount.id \in Nat
    BY DEF IInv, TypeInv, Mount
  <1>2. mount'.id = mount.id /\ mount'.stage = stage
    BY DEF Unmounted
  <1>3. mount' \in Mount
    BY <1>1, UnseenFacts DEF Unmounted, Mount
  <1>4. TypeInv'
    BY <1>3 DEF IInv, TypeInv, NoRequest, Python
  <1>5. MountInv'
    BY <1>2 DEF MountInv
  <1>6. QED
    BY <1>1, <1>2, <1>4, <1>5, BrowserStep DEF Python

LEMMA LeavePreserves ==
  ASSUME IInv, Leave
  PROVE  IInv'
  <1> DEFINE empty == <<>>
             counted == pub.generation + 1
             p == [pub EXCEPT !.generation = counted, !.pending = empty, !.scheduled = FALSE]
  <1>1. pub \in Publisher /\ counted \in Nat /\ empty \in Seq(Snapshot) /\ sessionSeq \in Nat
    BY DEF IInv, TypeInv, Publisher
  <1>2. /\ mount' = Unmounted(mount.id, "away", 0, 0) /\ request' = NoRequest
        /\ pub' = Aborted(p) /\ UNCHANGED <<sessionSeq, wire, Python>>
    BY DEF Leave
  <1> HIDE DEF empty, counted
  <1>3. /\ p \in Publisher /\ p.readback = pub.readback /\ p.transport = pub.transport
        /\ p.input = pub.input /\ p.pending = empty
    BY <1>1 DEF Publisher
  <1> HIDE DEF p
  <1>4. Numbered(p)
    BY <1>1, <1>3 DEF IInv, Numbered, empty
  <1>5. /\ pub' \in Publisher /\ Numbered(pub') /\ pub'.inspection = 0
        /\ pub'.readback = pub.readback /\ pub'.transport = pub.transport
    BY <1>2, <1>3, <1>4, AbortedFacts
  <1>6. QED
    BY <1>1, <1>2, <1>5, UnmountPreserves

LEMMA ViewFailsPreserves ==
  ASSUME IInv, ViewFails, sessionSeq' \in Nat, UNCHANGED <<wire, Python>>
  PROVE  IInv'
  <1> DEFINE p == Failed(pub)
  <1>1. pub \in Publisher /\ Numbered(pub)
    BY DEF IInv, TypeInv
  <1>2. /\ p \in Publisher /\ Numbered(p)
        /\ p.readback = pub.readback /\ p.transport = pub.transport
    BY <1>1, FailedFacts
  <1>3. /\ mount' = Unmounted(mount.id, "none", 0, 0) /\ request' = NoRequest
        /\ pub' = Aborted(p)
    BY DEF ViewFails
  <1> HIDE DEF p
  <1>4. /\ pub' \in Publisher /\ Numbered(pub') /\ pub'.inspection = 0
        /\ pub'.readback = pub.readback /\ pub'.transport = pub.transport
    BY <1>2, <1>3, AbortedFacts
  <1>5. QED
    BY <1>3, <1>4, UnmountPreserves

\* The live mount goes on, in the same or a later revision, and reports or not.
LEMMA LivePreserves ==
  ASSUME IInv, mount.stage = "live", mount' \in Mount,
         mount'.id = mount.id, mount'.stage = "live", mount'.offset = mount.offset,
         mount'.generation = mount.generation, mount'.input >= mount.input,
         mount'.lastSequence >= mount.lastSequence, mount'.lastSequence <= sessionSeq',
         pub' = pub \/ pub' = Publish(pub, mount'),
         request' = request, sessionSeq' \in Nat, UNCHANGED <<wire, Python>>
  PROVE  IInv'
  <1>1. /\ pub \in Publisher /\ Numbered(pub) /\ mount \in Mount
        /\ mount.generation = pub.generation /\ mount.id >= 1 /\ mount.offset >= 0
        /\ mount.input >= 0 /\ pub.input <= mount.input + mount.offset
    BY DEF IInv, TypeInv, MountInv
  <1>2. /\ mount'.input \in Int /\ mount.input \in Int /\ mount.offset \in Int /\ pub.input \in Int
        /\ mount.id \in Nat
    BY <1>1 DEF Mount, Publisher
  <1>3. mount'.input >= 0 /\ pub.input <= mount'.input + mount'.offset
    BY <1>1, <1>2
  <1>4. CASE pub' = pub
    <2>1. TypeInv'
      BY <1>4 DEF IInv, TypeInv, Python
    <2>2. MountInv'
      BY <1>1, <1>3, <1>4 DEF IInv, MountInv
    <2>3. Numbered(pub')
      BY <1>1, <1>4
    <2>4. QED
      BY <1>2, <1>4, <2>1, <2>2, <2>3, BrowserStep DEF Python
  <1>5. CASE pub' = Publish(pub, mount')
    <2>1. /\ Queues(pub, pub', Captured(mount')) /\ pub'.generation = pub.generation
          /\ Captured(mount').input = mount'.input + mount'.offset
          /\ Captured(mount').seq = mount'.lastSequence
      BY <1>1, <1>3, <1>5, PublishFacts
    <2>2. TypeInv'
      BY <2>1 DEF IInv, TypeInv, Python, Queues
    <2>3. MountInv'
      BY <1>1, <1>2, <1>3, <2>1 DEF IInv, MountInv, Queues
    <2>4. pub'.inspection = pub.inspection /\ pub'.pending[1].seq = mount'.lastSequence
      BY <2>1 DEF Queues
    <2>5. QED
      BY <1>2, <2>1, <2>2, <2>3, <2>4, BrowserStep DEF Python, Queues
  <1>6. QED
    BY <1>4, <1>5

LEMMA MountedPreserves ==
  ASSUME IInv, NEW outcome \in {"rendered", "failed"}, Mounted(outcome)
  PROVE  IInv'
  <1> DEFINE rendered == outcome = "rendered"
             settled == IF rendered THEN NoRevision ELSE 0
             q == Publish(pub, mount')
  <1>1. /\ pub \in Publisher /\ Numbered(pub) /\ mount \in Mount /\ sessionSeq \in Nat
        /\ mount.stage = "resolving" /\ mount.generation = pub.generation
        /\ mount.id >= 1 /\ mount.offset >= 0 /\ pub.input <= mount.offset
    BY DEF IInv, TypeInv, MountInv, Mounted
  <1>2. rendered \in BOOLEAN /\ settled \in Int
    BY UnseenFacts
  <1>3. /\ mount' = [mount EXCEPT !.stage = "live", !.session = rendered,
                                  !.lastSequence = sessionSeq, !.input = 0,
                                  !.settled = settled, !.pending = rendered, !.results = rendered]
        /\ pub' = [q EXCEPT !.inspection = mount'.id, !.unsent = TRUE]
        /\ UNCHANGED <<sessionSeq, request, wire, Python>>
    BY DEF Mounted
  <1> HIDE DEF rendered, settled, q
  <1>4. /\ mount' \in Mount /\ mount'.id = mount.id /\ mount'.stage = "live"
        /\ mount'.input = 0 /\ mount'.offset = mount.offset
        /\ mount'.generation = mount.generation /\ mount'.lastSequence = sessionSeq
    <2>1. mount \in Mount /\ sessionSeq \in Nat /\ 0 \in Int
      BY <1>1
    <2>2. mount' = [mount EXCEPT !.stage = "live", !.session = rendered,
                                 !.lastSequence = sessionSeq, !.input = 0,
                                 !.settled = settled, !.pending = rendered, !.results = rendered]
      BY <1>3
    <2>3. QED
      BY <1>2, <2>1, <2>2 DEF Mount
  <1>5. /\ mount.offset \in Int /\ mount.id \in Nat
    BY <1>1 DEF Mount
  <1>6. /\ Queues(pub, q, Captured(mount')) /\ q.generation = pub.generation
        /\ Captured(mount').input = mount'.input + mount'.offset
    BY <1>1, <1>4, <1>5, PublishFacts DEF q
  <1>7. /\ pub' \in Publisher /\ pub'.inspection = mount'.id
        /\ pub'.readback = pub.readback /\ pub'.transport = pub.transport
        /\ pub'.generation = pub.generation /\ pub'.input = mount'.input + mount'.offset
        /\ pub'.pending = q.pending
    BY <1>3, <1>4, <1>5, <1>6 DEF Queues, Publisher
  <1>8. Numbered(pub')
    BY <1>6, <1>7 DEF Queues, Numbered
  <1>9. TypeInv'
    BY <1>3, <1>4, <1>7 DEF IInv, TypeInv, Python
  <1>10. MountInv'
    BY <1>1, <1>3, <1>4, <1>5, <1>7 DEF MountInv
  <1>11. request.stage # "reached"
    BY <1>1 DEF IInv, CallInv
  <1>12. QED
    BY <1>1, <1>3, <1>4, <1>5, <1>7, <1>8, <1>9, <1>10, <1>11, BrowserStep DEF Python

LEMMA OpensFacts ==
  ASSUME NEW m \in Mount, NEW n \in Opens(m)
  PROVE  /\ n \in Mount /\ n.id = m.id /\ n.stage = m.stage /\ n.offset = m.offset
         /\ n.generation = m.generation /\ n.input = m.input + 1
         /\ n.lastSequence = m.lastSequence
  <1>1. PICK pending \in BOOLEAN : n = Opened(m, pending)
    BY DEF Opens
  <1> DEFINE input == m.input + 1
             settled == IF pending THEN m.settled ELSE input
  <1>2. n = [m EXCEPT !.input = input, !.pending = pending, !.results = TRUE,
                      !.settled = settled]
    BY <1>1 DEF Opened
  <1>3. input \in Int /\ settled \in Int
    BY DEF Mount
  <1> HIDE DEF input, settled
  <1>4. /\ n \in Mount /\ n.id = m.id /\ n.stage = m.stage /\ n.offset = m.offset
        /\ n.generation = m.generation /\ n.input = input
        /\ n.lastSequence = m.lastSequence
    BY <1>2, <1>3 DEF Mount
  <1>5. QED
    BY <1>4 DEF input

LEMMA LiveTyped ==
  ASSUME IInv, mount.stage = "live"
  PROVE  /\ mount \in Mount /\ mount.input \in Int /\ mount.input >= 0
         /\ mount.lastSequence \in Nat /\ sessionSeq \in Nat /\ mount.lastSequence <= sessionSeq
  BY DEF IInv, TypeInv, MountInv, Mount

LEMMA MountOpensPreserves ==
  ASSUME IInv, MountOpens
  PROVE  IInv'
  <1>1. /\ mount.stage = "live" /\ mount' \in Opens(mount) /\ pub' = Publish(pub, mount')
        /\ UNCHANGED <<sessionSeq, request, wire, Python>>
    BY DEF MountOpens, Evaluating
  <1>2. /\ mount' \in Mount /\ mount'.id = mount.id /\ mount'.stage = mount.stage
        /\ mount'.offset = mount.offset /\ mount'.generation = mount.generation
        /\ mount'.input = mount.input + 1 /\ mount'.lastSequence = mount.lastSequence
    BY <1>1, LiveTyped, OpensFacts
  <1>3. QED
    BY <1>1, <1>2, LiveTyped, LivePreserves

LEMMA MountFinishesPreserves ==
  ASSUME IInv, MountFinishes
  PROVE  IInv'
  <1>1. /\ mount.stage = "live" /\ mount' = [mount EXCEPT !.pending = FALSE] /\ pub' = pub
        /\ UNCHANGED <<sessionSeq, request, wire, Python>>
    BY DEF MountFinishes, Evaluating
  <1>2. /\ mount' \in Mount /\ mount'.id = mount.id /\ mount'.stage = mount.stage
        /\ mount'.offset = mount.offset /\ mount'.generation = mount.generation
        /\ mount'.input = mount.input /\ mount'.lastSequence = mount.lastSequence
    BY <1>1, LiveTyped DEF Mount
  <1>3. QED
    BY <1>1, <1>2, LiveTyped, LivePreserves

LEMMA MountSettlesPreserves ==
  ASSUME IInv, MountSettles
  PROVE  IInv'
  <1>1. /\ mount.stage = "live" /\ mount' = [mount EXCEPT !.settled = mount.input]
        /\ pub' = Publish(pub, mount') /\ UNCHANGED <<sessionSeq, request, wire, Python>>
    BY DEF MountSettles, Evaluating
  <1>2. /\ mount' \in Mount /\ mount'.id = mount.id /\ mount'.stage = mount.stage
        /\ mount'.offset = mount.offset /\ mount'.generation = mount.generation
        /\ mount'.input = mount.input /\ mount'.lastSequence = mount.lastSequence
    BY <1>1, LiveTyped DEF Mount
  <1>3. QED
    BY <1>1, <1>2, LiveTyped, LivePreserves

LEMMA MountFailsPreserves ==
  ASSUME IInv, MountFails
  PROVE  IInv'
  <1> DEFINE revision == IF mount.pending THEN mount.input ELSE mount.input + 1
  <1>1. /\ mount.stage = "live"
        /\ mount' = [mount EXCEPT !.input = revision, !.settled = revision,
                                  !.pending = FALSE, !.results = FALSE]
        /\ pub' = Publish(pub, mount') /\ UNCHANGED <<sessionSeq, request, wire, Python>>
    BY DEF MountFails, Evaluating
  <1>2. revision \in Int /\ revision >= mount.input
    BY <1>1, LiveTyped
  <1> HIDE DEF revision
  <1>3. /\ mount' \in Mount /\ mount'.id = mount.id /\ mount'.stage = mount.stage
        /\ mount'.offset = mount.offset /\ mount'.generation = mount.generation
        /\ mount'.input = revision /\ mount'.lastSequence = mount.lastSequence
    BY <1>1, <1>2, LiveTyped DEF Mount
  <1>4. QED
    BY <1>1, <1>2, <1>3, LiveTyped, LivePreserves

LEMMA ApplyUpdatePreserves ==
  ASSUME IInv, ApplyUpdate
  PROVE  IInv'
  <1> DEFINE next == sessionSeq + 1
             m == [mount EXCEPT !.lastSequence = next]
  <1>1. sessionSeq \in Nat /\ next \in Nat /\ next >= sessionSeq
    BY DEF IInv, TypeInv
  <1>2. sessionSeq' = next /\ UNCHANGED <<wire, Python>>
    BY DEF ApplyUpdate
  <1>3. CASE mount.stage # "live"
    <2>1. UNCHANGED <<mount, pub, request>>
      BY <1>3 DEF ApplyUpdate
    <2>2. TypeInv' /\ Numbered(pub')
      BY <1>1, <1>2, <2>1 DEF IInv, TypeInv, Python
    <2>3. MountInv'
      BY <1>3, <2>1 DEF IInv, MountInv
    <2>4. mount.id \in Nat /\ mount.lastSequence \in Nat
      BY DEF IInv, TypeInv, Mount
    <2>5. request.stage # "reached"
      BY <1>3 DEF IInv, CallInv
    <2>6. QED
      BY <1>2, <2>1, <2>2, <2>3, <2>4, <2>5, BrowserStep DEF Python
  <1>4. CASE mount.stage = "live" /\ ~mount.session
    BY <1>1, <1>2, <1>4, ViewFailsPreserves DEF ApplyUpdate
  <1>5. CASE mount.stage = "live" /\ mount.session
    <2>1. mount' \in Opens(m) /\ pub' = Publish(pub, mount') /\ request' = request
      BY <1>5 DEF ApplyUpdate
    <2> HIDE DEF next
    <2>2. /\ m \in Mount /\ m.id = mount.id /\ m.stage = mount.stage
          /\ m.offset = mount.offset /\ m.generation = mount.generation
          /\ m.input = mount.input /\ m.lastSequence = next
      BY <1>1, <1>5, LiveTyped DEF Mount
    <2> HIDE DEF m
    <2>3. /\ mount' \in Mount /\ mount'.id = mount.id /\ mount'.stage = mount.stage
          /\ mount'.offset = mount.offset /\ mount'.generation = mount.generation
          /\ mount'.input = mount.input + 1 /\ mount'.lastSequence = next
      BY <2>1, <2>2, OpensFacts
    <2>4. mount'.input >= mount.input /\ mount'.lastSequence >= mount.lastSequence
      BY <1>1, <1>5, <2>3, LiveTyped
    <2>5. QED
      BY <1>1, <1>2, <1>5, <2>1, <2>3, <2>4, LivePreserves
  <1>6. QED
    BY <1>3, <1>4, <1>5

-----------------------------------------------------------------------------
(* Steps that publish, send and receive *)

LEMMA SnapshotsTyped ==
  ASSUME IInv
  PROVE  /\ Snapshots \subseteq Snapshot
         /\ accepted \in Snapshots /\ ready.reply \in Snapshots /\ pub.readback \in Snapshots
         /\ \A m \in Messages(wire) : m \in Message /\ m.readback \in Snapshots
  <1>1. /\ accepted \in Snapshot /\ ready.reply \in Snapshot /\ pub.readback \in Snapshot
        /\ wire \in Seq(Message)
    BY DEF IInv, TypeInv, Publisher
  <1>2. \A m \in Messages(wire) : m \in Message /\ m.readback \in Snapshot
    BY <1>1, MessagesTyped DEF Message
  <1>3. QED
    BY <1>1, <1>2, UnseenFacts DEF Snapshots

\* What the model holds after a flush is the latest of all snapshots.
LEMMA FlushOrders ==
  ASSUME IInv, NEW p \in Publisher, Numbered(p),
         p.readback = pub.readback, p.transport = pub.transport, p.input >= pub.input
  PROVE  LET q == Flushed(p)
             all == Snapshots \cup {q.readback}
         IN  /\ q.readback \in Snapshot /\ q.readback.revision = q.transport
             /\ \A x \in all : x.revision <= q.transport /\ \A y \in all : Precedes(x, y)
  <1> DEFINE q == Flushed(p)
             all == Snapshots \cup {q.readback}
  <1>1. /\ q \in Publisher /\ Numbered(q)
        /\ \/ q.readback = pub.readback /\ q.transport = pub.transport
           \/ q.transport = pub.transport + 1 /\ q.readback.input = p.input
    BY FlushedFacts
  <1> HIDE DEF q
  <1>2. q.readback \in Snapshot /\ q.transport \in Nat /\ q.readback.revision = q.transport
    BY <1>1 DEF Publisher, Numbered
  <1>3. /\ pub.readback \in Snapshots /\ pub.readback.revision = pub.transport
        /\ pub.readback.input <= pub.input
        /\ pub.transport \in Nat /\ pub.input \in Int /\ p.input \in Int
    BY SnapshotsTyped DEF IInv, TypeInv, Numbered, Publisher
  <1>4. \A x \in Snapshots : /\ x.revision \in Nat /\ x.input \in Int
                             /\ x.revision <= pub.transport
                             /\ \A y \in Snapshots : Precedes(x, y)
    BY SnapshotsTyped DEF IInv, SnapshotInv, Snapshot
  <1>5. CASE q.readback = pub.readback /\ q.transport = pub.transport
    BY <1>2, <1>3, <1>4, <1>5 DEF q
  <1>6. CASE q.transport = pub.transport + 1 /\ q.readback.input = p.input
    <2>1. \A x \in Snapshots : x.revision < q.readback.revision /\ x.input <= q.readback.input
      <3>1. TAKE x \in Snapshots
      <3>2. x.input <= pub.readback.input /\ pub.readback.input \in Int
        BY <1>3, <1>4 DEF Precedes
      <3>3. QED
        BY <1>2, <1>3, <1>4, <1>6, <3>2
    <2>2. \A x \in all : x.revision <= q.transport
      BY <1>2, <1>3, <1>4, <1>6
    <2>3. ASSUME NEW x \in all, NEW y \in all
          PROVE  Precedes(x, y)
      <3>1. CASE x \in Snapshots /\ y \in Snapshots
        BY <1>4, <3>1
      <3>2. CASE x \in Snapshots /\ y = q.readback
        BY <1>2, <1>4, <2>1, <3>2 DEF Precedes
      <3>3. CASE x = q.readback /\ y \in Snapshots
        BY <1>2, <1>4, <2>1, <3>3 DEF Precedes
      <3>4. CASE x = q.readback /\ y = q.readback
        BY <1>2, <3>4 DEF Precedes, Snapshot
      <3>5. QED
        BY <3>1, <3>2, <3>3, <3>4
    <2>4. QED
      BY <1>2, <2>2, <2>3 DEF q
  <1>7. QED
    BY <1>1, <1>5, <1>6

LEMMA MicrotaskPreserves ==
  ASSUME IInv, Microtask
  PROVE  IInv'
  <1> DEFINE q == Flushed(pub)
             all == Snapshots \cup {q.readback}
  <1>1. /\ pub \in Publisher /\ Numbered(pub) /\ pub.input \in Int
        /\ pub' = [q EXCEPT !.scheduled = FALSE]
        /\ UNCHANGED <<sessionSeq, mount, request, wire, Python>>
    BY DEF IInv, TypeInv, Microtask, Publisher
  <1>2. /\ q \in Publisher /\ Numbered(q) /\ q.pending = <<>>
        /\ q.generation = pub.generation /\ q.inspection = pub.inspection /\ q.input = pub.input
        /\ pub.pending # <<>> => q.readback.seq = pub.pending[1].seq
        /\ pub.pending = <<>> => q.readback = pub.readback
    BY <1>1, FlushedFacts
  <1>3. \A x \in all : x.revision <= q.transport /\ \A y \in all : Precedes(x, y)
    BY <1>1, FlushOrders
  <1> HIDE DEF q
  <1>4. /\ pub' \in Publisher /\ pub'.pending = <<>> /\ pub'.generation = pub.generation
        /\ pub'.inspection = pub.inspection /\ pub'.input = pub.input
        /\ pub'.readback = q.readback /\ pub'.transport = q.transport
    BY <1>1, <1>2 DEF Publisher
  <1>5. Numbered(pub')
    BY <1>2, <1>4 DEF Numbered
  <1>6. TypeInv'
    BY <1>1, <1>4 DEF IInv, TypeInv, Python
  <1>7. MountInv' /\ OrderInv' /\ CallInv' /\ ReadyReflectsUpdates'
    BY <1>1, <1>4 DEF IInv, MountInv, OrderInv, CallInv, ReadyReflectsUpdates, Python, Messages,
                      Replies, Refuses
  <1>8. SnapshotInv'
    <2>1. Snapshots' \subseteq all
      BY <1>1, <1>4 DEF Snapshots, Python, Messages
    <2>2. QED
      BY <1>3, <1>4, <2>1 DEF SnapshotInv, Precedes
  <1>9. ReplyInv'
    <2>1. ASSUME NEW y, NEW g, Answers(y, g)
          PROVE  Answers(y, g)'
      BY <1>1, <1>2, <1>4, <2>1 DEF Answers, Python, Messages
    <2>2. QED
      BY <1>1, <2>1 DEF IInv, ReplyInv, Python, Replies, Messages, Refuses
  <1>10. QED
    BY <1>5, <1>6, <1>7, <1>8, <1>9 DEF IInv

LEMMA SendPreserves ==
  ASSUME IInv, Send
  PROVE  IInv'
  <1> DEFINE new == [call |-> 0, readback |-> pub.readback, generation |-> pub.inspection]
  <1>1. /\ pub \in Publisher /\ Numbered(pub) /\ wire \in Seq(Message)
        /\ wire' = Append(wire, new) /\ pub' = [pub EXCEPT !.unsent = FALSE]
        /\ UNCHANGED <<sessionSeq, mount, request, Python>>
    BY DEF IInv, TypeInv, Send
  <1>2. /\ new \in Message /\ new.call = 0 /\ new.readback = pub.readback
        /\ new.generation = pub.inspection
    BY <1>1 DEF Message, Publisher
  <1> HIDE DEF new
  <1>3. /\ wire' \in Seq(Message) /\ Len(wire') = Len(wire) + 1 /\ Len(wire) \in Nat
        /\ wire'[Len(wire')] = new /\ \A i \in 1..Len(wire) : wire'[i] = wire[i]
        /\ Messages(wire') = Messages(wire) \cup {new}
    BY <1>1, <1>2, AppendFacts
  <1>4. /\ pub' \in Publisher /\ pub'.pending = pub.pending /\ pub'.generation = pub.generation
        /\ pub'.inspection = pub.inspection /\ pub'.input = pub.input
        /\ pub'.readback = pub.readback /\ pub'.transport = pub.transport
    BY <1>1 DEF Publisher
  <1>5. Numbered(pub')
    BY <1>1, <1>4 DEF Numbered
  <1>6. TypeInv'
    BY <1>1, <1>3, <1>4 DEF IInv, TypeInv, Python
  <1>7. MountInv' /\ ReadyReflectsUpdates'
    BY <1>1, <1>4 DEF IInv, MountInv, ReadyReflectsUpdates, Python
  <1>8. Replies(wire') = Replies(wire) /\ ready.call \in Nat
    BY <1>2, <1>3 DEF Replies, IInv, TypeInv
  <1>9. CallInv'
    BY <1>1, <1>2, <1>3, <1>8 DEF IInv, CallInv, Python
  <1>10. SnapshotInv'
    <2>1. Snapshots' \subseteq Snapshots
      BY <1>1, <1>2, <1>3, <1>4 DEF Snapshots, Python
    <2>2. QED
      BY <1>4, <2>1 DEF IInv, SnapshotInv, Precedes
  <1>11. OrderInv'
    <2>1. \A x \in Snapshots : x.revision <= pub.readback.revision
      BY <1>1 DEF IInv, SnapshotInv, Numbered
    <2>2. \A i \in 1..Len(wire) : wire[i] \in Messages(wire)
      BY DEF Messages
    <2>3. ASSUME NEW i \in 1..Len(wire'), NEW j \in 1..Len(wire'), i < j
          PROVE  Refuses(wire'[j]) \/ wire'[i].readback.revision <= wire'[j].readback.revision
      <3>1. i \in 1..Len(wire)
        BY <1>3, <2>3
      <3>2. CASE j = Len(wire')
        BY <1>2, <1>3, <2>1, <2>2, <3>1, <3>2, SnapshotsTyped
      <3>3. CASE j \in 1..Len(wire)
        BY <1>3, <2>3, <3>1, <3>3 DEF IInv, OrderInv
      <3>4. QED
        BY <1>3, <3>2, <3>3
    <2>4. ASSUME NEW m \in Messages(wire')
          PROVE  Refuses(m) \/ /\ accepted.revision <= m.readback.revision
                               /\ ready.reply.revision <= m.readback.revision
      BY <1>2, <1>3, <2>1, SnapshotsTyped DEF IInv, OrderInv
    <2>5. QED
      BY <1>1, <2>3, <2>4 DEF OrderInv, Python, Refuses
  <1>12. ReplyInv'
    <2>1. ASSUME NEW y, NEW g, Answers(y, g)
          PROVE  Answers(y, g)'
      BY <1>1, <1>2, <1>3, <1>4, <2>1 DEF Answers, Python
    <2>2. QED
      BY <1>1, <1>8, <2>1 DEF IInv, ReplyInv, Python
  <1>13. QED
    BY <1>5, <1>6, <1>7, <1>9, <1>10, <1>11, <1>12 DEF IInv

\* What is left on the wire after the message m.
Received(m) ==
  /\ m \in Messages(wire) /\ m \in Message /\ m.readback \in Snapshots
  /\ wire' \in Seq(Message) /\ Messages(wire') \subseteq Messages(wire)
  /\ \A i, j \in 1..Len(wire') : i < j =>
       Refuses(wire'[j]) \/ wire'[i].readback.revision <= wire'[j].readback.revision
  /\ \A n \in Messages(wire') : Refuses(n) \/ m.readback.revision <= n.readback.revision

LEMMA ReceivedFacts ==
  ASSUME IInv, wire # <<>>, wire' = Tail(wire)
  PROVE  Received(Head(wire))
  <1>1. wire \in Seq(Message)
    BY DEF IInv, TypeInv
  <1>2. /\ wire' \in Seq(Message) /\ Len(wire) = Len(wire') + 1 /\ Len(wire') \in Nat
        /\ \A i \in 1..Len(wire') : wire'[i] = wire[i + 1]
        /\ Head(wire) = wire[1] /\ Head(wire) \in Message /\ Head(wire) \in Messages(wire)
        /\ Messages(wire') \subseteq Messages(wire)
    BY <1>1, TailFacts
  <1>3. ASSUME NEW i \in 1..Len(wire'), NEW j \in 1..Len(wire'), i < j
        PROVE  Refuses(wire'[j]) \/ wire'[i].readback.revision <= wire'[j].readback.revision
    <2>1. i + 1 \in 1..Len(wire) /\ j + 1 \in 1..Len(wire) /\ i + 1 < j + 1
      BY <1>2, <1>3
    <2>2. QED
      BY <1>2, <2>1 DEF IInv, OrderInv
  <1>4. ASSUME NEW n \in Messages(wire')
        PROVE  Refuses(n) \/ wire[1].readback.revision <= n.readback.revision
    <2>1. PICK i \in 1..Len(wire') : n = wire'[i]
      BY DEF Messages
    <2>2. 1 \in 1..Len(wire) /\ i + 1 \in 1..Len(wire) /\ 1 < i + 1
      BY <1>2
    <2>3. QED
      BY <1>2, <2>1, <2>2 DEF IInv, OrderInv
  <1>5. QED
    BY <1>2, <1>3, <1>4, SnapshotsTyped DEF Received

\* Steps that leave the browser's mount and publisher alone.
LEMMA PythonStep ==
  ASSUME IInv, UNCHANGED <<sessionSeq, mount, pub>>, Snapshots' \subseteq Snapshots
  PROVE  Numbered(pub') /\ MountInv' /\ SnapshotInv'
  BY DEF IInv, Numbered, MountInv, SnapshotInv, Precedes

\* A call that stays as it was or fails leaves what is under way for it in order.
LEMMA CallStep ==
  ASSUME IInv, Messages(wire') \subseteq Messages(wire),
         \/ ready' = Over(ready) /\ ready.stage # "idle"
         \/ /\ ready' = ready
            /\ ready.stage \in {"sent", "answered"} => ready.generation = generation',
         request' \in {request, NoRequest}, mount' = mount
  PROVE  CallInv'
  <1>1. /\ ready'.call = ready.call /\ ready'.stage \in {ready.stage, "failed"}
        /\ ready'.sequence \in {ready.sequence, 0}
        /\ ready'.stage # "failed" => ready' = ready
        /\ ready'.stage = "failed" => ready.stage # "idle"
        /\ ready'.stage \in {"sent", "answered"} => ready'.generation = generation'
    BY DEF Over, IInv, CallInv
  <1>2. /\ ready.sequence \in Nat /\ request.sequence \in Nat
        /\ \A m \in Replies(wire) : m.readback.seq \in Int
    BY MessagesTyped DEF IInv, TypeInv, Replies, Message, Snapshot
  <1>3. Replies(wire') \subseteq Replies(wire)
    BY DEF Replies
  <1>4. /\ ready'.stage # "idle" => ready'.call >= 1
        /\ ready'.stage = "answered" => ready'.reply.seq >= ready'.sequence
    BY <1>1 DEF IInv, CallInv
  <1>5. request'.stage # "none" =>
          /\ request'.call >= 1 /\ request'.call <= ready'.call
          /\ request'.call = ready'.call => request'.sequence >= ready'.sequence
    BY <1>1, <1>2 DEF IInv, CallInv, NoRequest
  <1>6. request'.stage = "reached" =>
          /\ mount'.stage = "live" /\ request'.generation = mount'.id
          /\ mount'.lastSequence >= request'.sequence
    <2>1. CASE request' = request
      BY <2>1 DEF IInv, CallInv
    <2>2. CASE request' = NoRequest
      BY <2>2 DEF NoRequest
    <2>3. QED
      BY <2>1, <2>2
  <1>7. /\ \A m \in Messages(wire') : m.call <= ready'.call
        /\ \A m \in Replies(wire') : m.call = ready'.call => m.readback.seq >= ready'.sequence
    BY <1>1, <1>2, <1>3 DEF IInv, CallInv
  <1>8. QED
    BY <1>1, <1>4, <1>5, <1>6, <1>7 DEF CallInv

LEMMA TraitPreserves ==
  ASSUME IInv, NEW m, Received(m), m.call = 0,
         accepted' = Accepting(m.readback), generation' = m.generation,
         ready' = Changed(ready, m.generation), UNCHANGED <<seq, sessionSeq, mount, pub, request>>
  PROVE  IInv'
  <1>1. /\ accepted \in Snapshots /\ ready.reply \in Snapshots
        /\ accepted \in Snapshot /\ ready.reply \in Snapshot /\ m.readback \in Snapshot
        /\ \A n \in Messages(wire) : n.readback \in Snapshots /\ n.readback \in Snapshot
                                     /\ n.readback.revision \in Nat
    BY SnapshotsTyped DEF Received, Snapshot
  <1>2. accepted.revision \in Nat /\ m.readback.revision \in Nat
    BY <1>1 DEF Snapshot
  <1>3. accepted' = m.readback /\ accepted.revision <= m.readback.revision
    <2>1. accepted.revision <= m.readback.revision
      BY DEF IInv, OrderInv, Received, Refuses
    <2>2. CASE m.readback.revision <= accepted.revision
      <3>1. m.readback.revision = accepted.revision
        BY <1>2, <2>1, <2>2
      <3>2. m.readback = accepted
        BY <1>1, <3>1 DEF IInv, SnapshotInv, Precedes, Received
      <3>3. QED
        BY <2>1, <2>2, <3>2 DEF Accepting
    <2>3. CASE ~(m.readback.revision <= accepted.revision)
      BY <2>1, <2>3 DEF Accepting
    <2>4. QED
      BY <2>2, <2>3
  <1>4. \/ ready' = ready /\ (ready.stage \in {"sent", "answered"} => ready.generation = m.generation)
        \/ ready' = Over(ready)
    BY DEF Changed
  <1>5. /\ ready'.call = ready.call /\ ready'.stage \in {ready.stage, "failed"}
        /\ ready'.reply \in {ready.reply, Unseen}
        /\ ready'.stage # "failed" => ready' = ready
        /\ ready'.stage \in {"sent", "answered"} => ready'.generation = m.generation
        /\ ready'.stage = "failed" => ready.stage = "failed" \/ ready.stage \in {"sent", "answered"}
    BY <1>4 DEF Over, Changed
  <1>6. TypeInv'
    <2>1. ready' \in [call : Nat,
                stage : {"idle", "called", "sent", "answered", "returned", "failed"},
                sequence : Nat, generation : Nat, reply : Snapshot]
      BY <1>4, UnseenFacts DEF IInv, TypeInv, Over
    <2>2. m.generation \in Nat
      BY DEF Received, Message
    <2>3. QED
      BY <1>1, <1>3, <2>1, <2>2 DEF IInv, TypeInv, Received
  <1>7. Snapshots' \subseteq Snapshots
    BY <1>3, <1>5 DEF Snapshots, Received
  <1>8. Numbered(pub') /\ MountInv' /\ SnapshotInv'
    BY <1>7, PythonStep
  <1>9. \A n \in Messages(wire') : n \in Messages(wire) /\ n.readback.revision \in Nat
    BY <1>1 DEF Received
  <1>10. OrderInv'
    <2>1. ASSUME NEW n \in Messages(wire')
          PROVE  Refuses(n) \/ /\ accepted'.revision <= n.readback.revision
                               /\ ready'.reply.revision <= n.readback.revision
      BY <1>3, <1>5, <1>9, UnseenFacts DEF IInv, OrderInv, Received
    <2>2. QED
      BY <2>1 DEF OrderInv, Received, Refuses
  <1>11. ReplyInv'
    <2>1. ASSUME NEW y, NEW g, Answers(y, g)
          PROVE  Answers(y, g)'
      BY <1>3, <1>9, <2>1 DEF Answers, Received
    <2>2. Replies(wire') \subseteq Replies(wire)
      BY <1>9 DEF Replies
    <2>3. QED
      BY <1>5, <2>1, <2>2 DEF IInv, ReplyInv, Replies
  <1>12. CallInv'
    <2>1. CASE ready' = ready
      BY <1>5, <1>9, <2>1, CallStep
    <2>2. CASE ready' # ready
      BY <1>4, <1>9, <2>2, CallStep DEF Changed
    <2>3. QED
      BY <2>1, <2>2
  <1>13. ReadyReflectsUpdates'
    BY <1>5 DEF IInv, ReadyReflectsUpdates
  <1>14. QED
    BY <1>6, <1>8, <1>10, <1>11, <1>12, <1>13 DEF IInv

LEMMA AnswerPreserves ==
  ASSUME IInv, NEW m, Received(m), m.call # 0,
         \/ ready' = ready
         \/ /\ ready.stage = "sent" /\ ready.call = m.call /\ m.generation = generation
            /\ ready' = Answered(m.readback),
         UNCHANGED <<seq, sessionSeq, mount, pub, request, accepted, generation>>
  PROVE  IInv'
  <1>1. /\ ready.reply \in Snapshots /\ ready.reply \in Snapshot /\ m.readback \in Snapshot
        /\ \A n \in Messages(wire) : n.readback.revision \in Nat
    BY SnapshotsTyped DEF Received, Snapshot
  <1>2. \A n \in Messages(wire') : n \in Messages(wire) /\ n.readback.revision \in Nat
    BY <1>1 DEF Received
  <1>3. Replies(wire') \subseteq Replies(wire)
    BY <1>2 DEF Replies
  <1> DEFINE answer == [ready EXCEPT !.stage = "answered", !.reply = m.readback]
             answers == /\ ready.stage = "sent" /\ ready.call = m.call
                        /\ m.generation = generation /\ m.readback # Unseen
                        /\ ready' = answer
  <1>4. \/ ready' = ready
        \/ ready' = Over(ready) /\ ready.stage = "sent"
        \/ answers
    <2>1. Answered(m.readback) = IF m.readback = Unseen THEN Over(ready) ELSE answer
      BY Zenon DEF Answered
    <2>2. QED
      BY <2>1
  <1>5. /\ answer.call = ready.call /\ answer.stage = "answered"
        /\ answer.reply = m.readback /\ answer.sequence = ready.sequence
        /\ answer.generation = ready.generation
        /\ answer \in [call : Nat,
                stage : {"idle", "called", "sent", "answered", "returned", "failed"},
                sequence : Nat, generation : Nat, reply : Snapshot]
    BY <1>1 DEF IInv, TypeInv
  <1>6. answers => m \in Replies(wire) /\ ready.generation = generation
    BY DEF Replies, Received, IInv, CallInv
  <1> HIDE DEF answer
  <1>7. TypeInv'
    <2>1. ready' \in [call : Nat,
                stage : {"idle", "called", "sent", "answered", "returned", "failed"},
                sequence : Nat, generation : Nat, reply : Snapshot]
      BY <1>4, <1>5, UnseenFacts DEF IInv, TypeInv, Over
    <2>2. QED
      BY <2>1 DEF IInv, TypeInv, Received
  <1>8. ready'.reply \in {ready.reply, Unseen, m.readback}
    BY <1>4, <1>5 DEF Over
  <1>9. Snapshots' \subseteq Snapshots
    BY <1>8 DEF Snapshots, Received
  <1>10. Numbered(pub') /\ MountInv' /\ SnapshotInv'
    BY <1>9, PythonStep
  <1>11. OrderInv'
    <2>1. ASSUME NEW n \in Messages(wire')
          PROVE  Refuses(n) \/ /\ accepted'.revision <= n.readback.revision
                               /\ ready'.reply.revision <= n.readback.revision
      BY <1>2, <1>8, UnseenFacts DEF IInv, OrderInv, Received
    <2>2. QED
      BY <2>1 DEF OrderInv, Received, Refuses
  <1>12. ReplyInv'
    <2>1. ASSUME NEW y, NEW g, Answers(y, g)
          PROVE  Answers(y, g)'
      BY <1>2, <2>1 DEF Answers
    <2>2. CASE answers
      <3>1. ready'.reply = m.readback /\ ready'.generation = m.generation
        BY <1>5, <1>6, <2>2
      <3>2. QED
        BY <1>3, <1>6, <2>1, <2>2, <3>1 DEF IInv, ReplyInv
    <2>3. CASE ready' = ready
      BY <1>3, <2>1, <2>3 DEF IInv, ReplyInv
    <2>4. CASE ready' = Over(ready)
      BY <1>3, <2>1, <2>4 DEF IInv, ReplyInv, Over
    <2>5. QED
      BY <1>4, <2>2, <2>3, <2>4
  <1>13. CallInv'
    <2>1. CASE answers
      BY <1>2, <1>3, <1>5, <1>6, <2>1 DEF IInv, CallInv
    <2>2. CASE ~answers
      BY <1>2, <1>4, <2>2, CallStep DEF IInv, CallInv
    <2>3. QED
      BY <2>1, <2>2
  <1>14. ReadyReflectsUpdates'
    BY <1>4, <1>5 DEF IInv, ReadyReflectsUpdates, Over
  <1>15. QED
    BY <1>7, <1>10, <1>11, <1>12, <1>13, <1>14 DEF IInv

LEMMA ReceivePreserves ==
  ASSUME IInv, Receive
  PROVE  IInv'
  <1> DEFINE m == Head(wire)
  <1>1. Received(m)
    BY ReceivedFacts DEF Receive
  <1>2. UNCHANGED <<seq, sessionSeq, mount, pub, request>>
    BY DEF Receive
  <1>3. CASE m.call = 0
    <2>1. /\ accepted' = Accepting(m.readback) /\ generation' = m.generation
          /\ ready' = Changed(ready, m.generation)
      BY <1>3 DEF Receive
    <2>2. QED
      BY <1>1, <1>2, <1>3, <2>1, TraitPreserves
  <1>4. CASE m.call # 0
    <2>1. /\ \/ ready' = ready
             \/ /\ ready.stage = "sent" /\ ready.call = m.call /\ m.generation = generation
                /\ ready' = Answered(m.readback)
          /\ UNCHANGED <<accepted, generation>>
      BY <1>4 DEF Receive
    <2>2. QED
      BY <1>1, <1>2, <1>4, <2>1, AnswerPreserves
  <1>5. QED
    BY <1>3, <1>4

-----------------------------------------------------------------------------
(* ready() *)

LEMMA ReadyCallPreserves ==
  ASSUME IInv, ReadyCall
  PROVE  IInv'
  <1> DEFINE call == ready.call + 1
  <1>1. /\ ready' = [call |-> call, stage |-> "called", sequence |-> seq,
                     generation |-> 0, reply |-> Unseen]
        /\ UNCHANGED <<seq, sessionSeq, mount, pub, request, wire, accepted, generation>>
    BY DEF ReadyCall
  <1>2. /\ ready.call \in Nat /\ request.call \in Nat /\ call \in Nat /\ seq \in Nat
        /\ call > ready.call /\ call >= 1
    BY DEF IInv, TypeInv
  <1> HIDE DEF call
  <1>3. /\ ready'.call = call /\ ready'.stage = "called" /\ ready'.reply = Unseen
        /\ ready' \in [call : Nat,
                stage : {"idle", "called", "sent", "answered", "returned", "failed"},
                sequence : Nat, generation : Nat, reply : Snapshot]
    BY <1>1, <1>2, UnseenFacts
  <1>4. TypeInv'
    BY <1>1, <1>3 DEF IInv, TypeInv
  <1>5. Messages(wire') = Messages(wire) /\ Replies(wire') = Replies(wire)
    BY <1>1
  <1>6. Snapshots' \subseteq Snapshots
    BY <1>1, <1>3, <1>5 DEF Snapshots
  <1>7. Numbered(pub') /\ MountInv' /\ SnapshotInv'
    BY <1>1, <1>6, PythonStep
  <1>8. OrderInv'
    <2>1. \A m \in Messages(wire) : m.readback.revision \in Nat
      BY SnapshotsTyped DEF Snapshot
    <2>2. QED
      BY <1>1, <1>3, <2>1, UnseenFacts DEF IInv, OrderInv, Refuses, Messages
  <1>9. ReplyInv' /\ ReadyReflectsUpdates'
    BY <1>1, <1>3, <1>5 DEF IInv, ReplyInv, Answers, ReadyReflectsUpdates
  <1>10. CallInv'
    <2>1. \A m \in Messages(wire) : m.call <= call /\ m.call # call
      <3>1. \A m \in Messages(wire) : m.call \in Nat /\ m.call <= ready.call
        BY MessagesTyped DEF IInv, CallInv, TypeInv, Message
      <3>2. QED
        BY <1>2, <3>1
    <2>2. request.stage # "none" => /\ request.call >= 1 /\ request.call <= call
                                    /\ request.call # call
      BY <1>2 DEF IInv, CallInv
    <2>3. \A m \in Replies(wire) : m \in Messages(wire)
      BY DEF Replies
    <2>4. request.stage = "reached" =>
            /\ mount.stage = "live" /\ request.generation = mount.id
            /\ mount.lastSequence >= request.sequence
      BY DEF IInv, CallInv
    <2>5. QED
      BY <1>1, <1>2, <1>3, <1>5, <2>1, <2>2, <2>3, <2>4 DEF CallInv
  <1>11. QED
    BY <1>4, <1>7, <1>8, <1>9, <1>10 DEF IInv

LEMMA ReadySendPreserves ==
  ASSUME IInv, ReadySend
  PROVE  IInv'
  <1> DEFINE asked == [call |-> ready.call, stage |-> "coming", sequence |-> ready.sequence,
                       generation |-> generation]
  <1>1. /\ ready.stage = "called"
        /\ ready' = [ready EXCEPT !.stage = "sent", !.generation = generation]
        /\ request' = asked
        /\ UNCHANGED <<seq, sessionSeq, mount, pub, wire, accepted, generation>>
    BY DEF ReadySend
  <1>2. /\ ready'.call = ready.call /\ ready'.stage = "sent" /\ ready'.reply = ready.reply
        /\ ready'.sequence = ready.sequence /\ ready'.generation = generation
        /\ ready' \in [call : Nat,
                stage : {"idle", "called", "sent", "answered", "returned", "failed"},
                sequence : Nat, generation : Nat, reply : Snapshot]
        /\ request' \in [call : Nat, stage : {"none", "coming", "reached"}, sequence : Nat,
                  generation : Nat]
    BY <1>1 DEF IInv, TypeInv
  <1>3. TypeInv'
    BY <1>1, <1>2 DEF IInv, TypeInv
  <1>4. Messages(wire') = Messages(wire) /\ Replies(wire') = Replies(wire)
    BY <1>1
  <1>5. Numbered(pub') /\ MountInv' /\ SnapshotInv'
    BY <1>1, <1>2, <1>4, PythonStep DEF Snapshots
  <1>6. OrderInv'
    BY <1>1, <1>2 DEF IInv, OrderInv, Refuses, Messages
  <1>7. ReplyInv' /\ ReadyReflectsUpdates'
    BY <1>1, <1>2, <1>4 DEF IInv, ReplyInv, Answers, ReadyReflectsUpdates
  <1>8. CallInv'
    <2>1. /\ request'.call = ready.call /\ request'.stage = "coming"
          /\ request'.sequence = ready.sequence /\ ready.call \in Nat /\ ready.sequence \in Nat
          /\ ready.call >= 1
      BY <1>1 DEF IInv, TypeInv, CallInv
    <2>2. QED
      BY <1>1, <1>2, <1>4, <2>1 DEF IInv, CallInv
  <1>9. QED
    BY <1>3, <1>5, <1>6, <1>7, <1>8 DEF IInv

LEMMA ReadyReachedPreserves ==
  ASSUME IInv, ReadyReached
  PROVE  IInv'
  <1>1. /\ request.stage = "coming" /\ mount.stage = "live" /\ request.generation = mount.id
        /\ mount.lastSequence >= request.sequence
        /\ request' = [request EXCEPT !.stage = "reached"]
        /\ UNCHANGED <<seq, sessionSeq, mount, pub, wire, accepted, generation, ready>>
    BY DEF ReadyReached, Waited, Python
  <1>2. /\ request'.call = request.call /\ request'.stage = "reached"
        /\ request'.sequence = request.sequence /\ request'.generation = request.generation
        /\ request' \in [call : Nat, stage : {"none", "coming", "reached"}, sequence : Nat,
                  generation : Nat]
    BY <1>1 DEF IInv, TypeInv
  <1>3. TypeInv'
    BY <1>1, <1>2 DEF IInv, TypeInv
  <1>4. Messages(wire') = Messages(wire) /\ Replies(wire') = Replies(wire)
    BY <1>1
  <1>5. Numbered(pub') /\ MountInv' /\ SnapshotInv'
    BY <1>1, <1>4, PythonStep DEF Snapshots
  <1>6. OrderInv'
    BY <1>1 DEF IInv, OrderInv, Refuses, Messages
  <1>7. ReplyInv' /\ ReadyReflectsUpdates'
    BY <1>1, <1>4 DEF IInv, ReplyInv, Answers, ReadyReflectsUpdates
  <1>8. CallInv'
    BY <1>1, <1>2, <1>4 DEF IInv, CallInv
  <1>9. QED
    BY <1>3, <1>5, <1>6, <1>7, <1>8 DEF IInv

LEMMA ReadyTimeoutPreserves ==
  ASSUME IInv, ReadyTimeout
  PROVE  IInv'
  <1>1. /\ ready.stage # "idle" /\ ready' = Over(ready) /\ request' \in {request, NoRequest}
        /\ UNCHANGED <<seq, sessionSeq, mount, pub, wire, accepted, generation>>
    BY DEF ReadyTimeout
  <1>2. /\ ready'.stage = "failed" /\ ready'.reply = Unseen
        /\ ready' \in [call : Nat,
                stage : {"idle", "called", "sent", "answered", "returned", "failed"},
                sequence : Nat, generation : Nat, reply : Snapshot]
    BY <1>1, UnseenFacts DEF Over, IInv, TypeInv
  <1>3. TypeInv'
    BY <1>1, <1>2 DEF IInv, TypeInv, NoRequest
  <1>4. Messages(wire') = Messages(wire) /\ Replies(wire') = Replies(wire)
    BY <1>1
  <1>5. Snapshots' \subseteq Snapshots
    BY <1>1, <1>2, <1>4 DEF Snapshots
  <1>6. Numbered(pub') /\ MountInv' /\ SnapshotInv'
    BY <1>1, <1>5, PythonStep
  <1>7. OrderInv'
    <2>1. \A m \in Messages(wire) : m.readback.revision \in Nat
      BY SnapshotsTyped DEF Snapshot
    <2>2. \A m \in Messages(wire') : Refuses(m) \/ ready'.reply.revision <= m.readback.revision
      BY <1>2, <1>4, <2>1, UnseenFacts
    <2>3. QED
      BY <1>1, <1>4, <2>2 DEF IInv, OrderInv, Refuses
  <1>8. ReplyInv' /\ ReadyReflectsUpdates'
    BY <1>1, <1>2, <1>4 DEF IInv, ReplyInv, Answers, ReadyReflectsUpdates
  <1>9. CallInv'
    BY <1>1, <1>4, CallStep
  <1>10. QED
    BY <1>3, <1>6, <1>7, <1>8, <1>9 DEF IInv

\* checkpoint: the answer is what the mount has now, or a refusal.
LEMMA ReplyPreserves ==
  ASSUME IInv, mount.stage = "live", request.stage # "none",
         request.generation = mount.id,
         NEW answer \in {Unseen, Flushed(Publish(pub, mount)).readback}, Reply(answer),
         request.stage = "reached" \/ answer = Unseen
  PROVE  IInv'
  <1> DEFINE p == Publish(pub, mount)
             q == Flushed(p)
             all == Snapshots \cup {q.readback}
             new == [call |-> request.call, readback |-> answer,
                     generation |-> request.generation]
  <1>1. /\ pub \in Publisher /\ Numbered(pub) /\ mount \in Mount /\ wire \in Seq(Message)
        /\ mount.generation = pub.generation /\ mount.id >= 1 /\ mount.offset >= 0
        /\ mount.input >= 0 /\ pub.input <= mount.input + mount.offset
        /\ mount.input \in Int /\ mount.offset \in Int /\ pub.input \in Int
        /\ mount.lastSequence \in Nat /\ mount.id \in Nat
    BY DEF IInv, TypeInv, MountInv, Mount, Publisher
  <1>2. /\ Queues(pub, p, Captured(mount)) /\ p.generation = pub.generation
        /\ Captured(mount).input = mount.input + mount.offset
        /\ Captured(mount).seq = mount.lastSequence
    BY <1>1, PublishFacts
  <1>3. /\ p \in Publisher /\ Numbered(p) /\ p.readback = pub.readback
        /\ p.transport = pub.transport /\ p.inspection = pub.inspection
        /\ p.pending # <<>> /\ p.pending[1].seq = mount.lastSequence
        /\ p.input = mount.input + mount.offset /\ p.input >= pub.input
    BY <1>1, <1>2 DEF Queues
  <1>4. /\ pub' = q /\ wire' = Append(wire, new) /\ request' = NoRequest
        /\ UNCHANGED <<sessionSeq, mount, Python>>
    BY DEF Reply
  <1> HIDE DEF p
  <1>5. /\ q \in Publisher /\ Numbered(q) /\ q.pending = <<>>
        /\ q.generation = pub.generation /\ q.inspection = pub.inspection
        /\ q.input = mount.input + mount.offset
        /\ q.readback.seq = mount.lastSequence
    BY <1>2, <1>3, FlushedFacts
  <1>6. /\ q.readback \in Snapshot /\ q.readback.revision = q.transport
        /\ \A x \in all : x.revision <= q.transport /\ \A y \in all : Precedes(x, y)
    BY <1>3, FlushOrders
  <1>7. answer \in {Unseen, q.readback}
    BY DEF p
  <1> HIDE DEF q
  <1>8. /\ new \in Message /\ new.call = request.call /\ new.readback = answer
        /\ new.generation = mount.id /\ new.call >= 1 /\ new.call \in Nat
        /\ request.sequence \in Nat /\ new.call <= ready.call
        /\ ready.call \in Nat /\ ready.sequence \in Nat
    BY <1>6, <1>7, UnseenFacts DEF IInv, TypeInv, CallInv, Message
  <1> HIDE DEF new
  <1>9. /\ wire' \in Seq(Message) /\ Len(wire') = Len(wire) + 1 /\ Len(wire) \in Nat
        /\ wire'[Len(wire')] = new /\ \A i \in 1..Len(wire) : wire'[i] = wire[i]
        /\ Messages(wire') = Messages(wire) \cup {new}
    BY <1>1, <1>4, <1>8, AppendFacts
  <1>10. TypeInv'
    BY <1>4, <1>5, <1>9 DEF IInv, TypeInv, Python, NoRequest
  <1>11. Numbered(pub') /\ MountInv' /\ ReadyReflectsUpdates'
    BY <1>1, <1>4, <1>5 DEF IInv, MountInv, ReadyReflectsUpdates, Python
  <1>12. SnapshotInv'
    <2>1. Snapshots' \subseteq all
      BY <1>4, <1>7, <1>8, <1>9 DEF Snapshots, Python
    <2>2. QED
      BY <1>4, <1>6, <2>1 DEF SnapshotInv, Precedes
  <1>13. Refuses(new) \/ new.readback = q.readback
    BY <1>7, <1>8 DEF Refuses
  <1>14. OrderInv'
    <2>1. \A i \in 1..Len(wire) : wire[i] \in Messages(wire)
      BY DEF Messages
    <2>2. ASSUME NEW i \in 1..Len(wire'), NEW j \in 1..Len(wire'), i < j
          PROVE  Refuses(wire'[j]) \/ wire'[i].readback.revision <= wire'[j].readback.revision
      <3>1. i \in 1..Len(wire)
        BY <1>9, <2>2
      <3>2. CASE j = Len(wire')
        <4>1. wire'[i].readback \in all /\ wire'[j] = new
          BY <1>9, <2>1, <3>1, <3>2, SnapshotsTyped
        <4>2. QED
          BY <1>6, <1>13, <4>1
      <3>3. CASE j \in 1..Len(wire)
        BY <1>9, <2>2, <3>1, <3>3 DEF IInv, OrderInv
      <3>4. QED
        BY <1>9, <3>2, <3>3
    <2>3. ASSUME NEW m \in Messages(wire')
          PROVE  Refuses(m) \/ /\ accepted.revision <= m.readback.revision
                               /\ ready.reply.revision <= m.readback.revision
      <3>1. CASE m = new
        BY <1>6, <1>13, <3>1, SnapshotsTyped
      <3>2. CASE m \in Messages(wire)
        BY <3>2 DEF IInv, OrderInv
      <3>3. QED
        BY <1>9, <3>1, <3>2
    <2>4. QED
      BY <1>4, <2>2, <2>3 DEF OrderInv, Python, Refuses
  <1>15. Replies(wire') \subseteq Replies(wire) \cup {new}
    BY <1>9 DEF Replies
  <1>16. ReplyInv'
    <2>1. ASSUME NEW y, NEW g, Answers(y, g)
          PROVE  Answers(y, g)'
      BY <1>1, <1>4, <1>5, <1>8, <1>9, <2>1 DEF Answers, Python
    <2>2. ASSUME new \in Replies(wire')
          PROVE  Answers(pub.readback, mount.id)'
      <3>1. accepted \in Snapshots /\ \A m \in Messages(wire) : m.readback \in Snapshots
        BY SnapshotsTyped
      <3>2. \A x \in Snapshots : q.readback.revision <= x.revision => x = q.readback
        <4>1. TAKE x \in Snapshots
        <4>2. x \in Snapshot /\ x.revision <= q.transport /\ Precedes(x, q.readback)
          BY <1>6, SnapshotsTyped
        <4>3. x.revision \in Nat /\ q.transport \in Nat
          BY <1>5, <4>2 DEF Snapshot, Publisher
        <4>4. QED
          BY <1>6, <4>2, <4>3 DEF Precedes
      <3>3. q.readback.seq \in Int /\ q.readback.seq <= q.readback.seq
        BY <1>6 DEF Snapshot
      <3>4. QED
        BY <1>1, <1>4, <1>5, <1>8, <1>9, <3>1, <3>2, <3>3 DEF Answers, Python
    <2>3. new \in Replies(wire') => new.readback = pub'.readback /\ new.generation = mount'.id
      BY <1>4, <1>8, <1>13 DEF Replies, Refuses
    <2>4. \A m \in Replies(wire) : Answers(m.readback, m.generation)'
      BY <2>1 DEF IInv, ReplyInv
    <2>5. (ready.stage = "answered" => Answers(ready.reply, ready.generation))'
      BY <1>4, <2>1 DEF IInv, ReplyInv, Python
    <2>6. QED
      BY <1>15, <2>2, <2>3, <2>4, <2>5 DEF ReplyInv
  <1>17. CallInv'
    <2>1. ASSUME new \in Replies(wire'), new.call = ready.call
          PROVE  new.readback.seq >= ready.sequence
      <3>1. new.readback = q.readback /\ request.stage = "reached"
        BY <1>8, <1>13, <2>1 DEF Replies, Refuses
      <3>2. /\ mount.lastSequence >= request.sequence
            /\ request.sequence >= ready.sequence
        BY <1>8, <2>1, <3>1 DEF IInv, CallInv
      <3>3. QED
        BY <1>1, <1>5, <1>8, <3>1, <3>2
    <2>2. \A m \in Messages(wire') : m.call <= ready.call
      BY <1>8, <1>9 DEF IInv, CallInv
    <2>3. \A m \in Replies(wire') : m.call = ready.call => m.readback.seq >= ready.sequence
      BY <1>15, <2>1 DEF IInv, CallInv
    <2>4. request'.stage = "none"
      BY <1>4 DEF NoRequest
    <2>5. QED
      BY <1>4, <2>2, <2>3, <2>4 DEF IInv, CallInv, Python
  <1>18. QED
    BY <1>10, <1>11, <1>12, <1>14, <1>16, <1>17 DEF IInv

LEMMA ReadyReplyPreserves ==
  ASSUME IInv, ReadyReply
  PROVE  IInv'
  BY ReplyPreserves DEF ReadyReply, IInv, CallInv

LEMMA ReadyRejectedPreserves ==
  ASSUME IInv, ReadyRejected
  PROVE  IInv'
  BY ReplyPreserves DEF ReadyRejected, Waited

\* Accepting the acknowledged snapshot loses nothing that a message has announced.
LEMMA ReadyReturnPreserves ==
  ASSUME IInv, ReadyReturn
  PROVE  IInv'
  <1> DEFINE returned == [ready EXCEPT !.stage = "returned", !.reply = accepted']
             returns == /\ ~accepted'.pending /\ accepted'.settled = accepted'.input
                        /\ ready' = returned
  <1>1. /\ ready.stage = "answered" /\ accepted' = Accepting(ready.reply)
        /\ returns \/ ready' = Over(ready)
        /\ UNCHANGED <<seq, sessionSeq, mount, pub, request, wire, generation>>
    BY DEF ReadyReturn
  <1>2. /\ accepted \in Snapshot /\ ready.reply \in Snapshot
        /\ accepted \in Snapshots /\ ready.reply \in Snapshots
        /\ \A m \in Messages(wire) : m.readback \in Snapshots /\ m.readback \in Snapshot
    BY SnapshotsTyped
  <1>3. Answers(ready.reply, ready.generation) /\ ready.generation = generation
        /\ ready.reply.seq >= ready.sequence /\ ready.sequence \in Nat
    BY <1>1 DEF IInv, ReplyInv, CallInv, TypeInv
  <1>4. /\ accepted' \in {accepted, ready.reply} /\ accepted.revision <= accepted'.revision
        /\ ready.reply.revision <= accepted'.revision
        /\ accepted'.seq >= ready.sequence
    BY <1>1, <1>2, <1>3 DEF Accepting, Snapshot, Answers
  <1>5. /\ returned.call = ready.call /\ returned.stage = "returned"
        /\ returned.reply = accepted' /\ returned.sequence = ready.sequence
        /\ returned \in [call : Nat,
                stage : {"idle", "called", "sent", "answered", "returned", "failed"},
                sequence : Nat, generation : Nat, reply : Snapshot]
    BY <1>2, <1>4 DEF IInv, TypeInv
  <1> HIDE DEF returned
  <1>6. TypeInv'
    <2>1. ready' \in [call : Nat,
                stage : {"idle", "called", "sent", "answered", "returned", "failed"},
                sequence : Nat, generation : Nat, reply : Snapshot]
      BY <1>1, <1>5, UnseenFacts DEF Over, IInv, TypeInv
    <2>2. QED
      BY <1>1, <1>2, <1>4, <2>1 DEF IInv, TypeInv
  <1>7. /\ ready'.reply \in {accepted', Unseen} /\ ready'.call = ready.call
        /\ ready'.stage \in {"returned", "failed"}
        /\ ready'.sequence \in {ready.sequence, 0}
        /\ ready'.stage = "returned" => returns
    BY <1>1, <1>5 DEF Over
  <1>8. Messages(wire') = Messages(wire) /\ Replies(wire') = Replies(wire)
    BY <1>1
  <1>9. Snapshots' \subseteq Snapshots
    BY <1>1, <1>2, <1>4, <1>7, <1>8 DEF Snapshots
  <1>10. Numbered(pub') /\ MountInv' /\ SnapshotInv'
    BY <1>1, <1>9, PythonStep
  <1>11. \A m \in Messages(wire) : Refuses(m) \/ accepted'.revision <= m.readback.revision
    BY <1>4 DEF IInv, OrderInv
  <1>12. OrderInv'
    <2>1. \A m \in Messages(wire) : m.readback.revision \in Nat
      BY <1>2 DEF Snapshot
    <2>2. \A m \in Messages(wire') : Refuses(m) \/ ready'.reply.revision <= m.readback.revision
      BY <1>7, <1>8, <1>11, <2>1, UnseenFacts
    <2>3. QED
      BY <1>1, <1>8, <1>11, <2>2 DEF IInv, OrderInv, Refuses
  <1>13. ReplyInv'
    <2>1. ASSUME NEW m \in Replies(wire), m.generation = generation,
                 m.readback.revision <= accepted'.revision
          PROVE  m.readback.seq <= accepted'.seq
      <3>1. m.readback \in Snapshots /\ m.readback \in Snapshot
            /\ accepted'.revision <= m.readback.revision
        BY <1>2, <1>11 DEF Replies, Refuses
      <3>2. accepted' \in Snapshots /\ accepted' \in Snapshot
        BY <1>2, <1>4
      <3>3. m.readback = accepted'
        <4>1. m.readback.revision = accepted'.revision
          BY <2>1, <3>1, <3>2 DEF Snapshot
        <4>2. QED
          BY <3>1, <3>2, <4>1 DEF IInv, SnapshotInv, Precedes
      <3>4. QED
        BY <3>2, <3>3 DEF Snapshot
    <2>2. ASSUME NEW m \in Replies(wire)
          PROVE  Answers(m.readback, m.generation)'
      <3>1. Answers(m.readback, m.generation)
        BY DEF IInv, ReplyInv
      <3>2. QED
        BY <1>1, <1>8, <2>1, <3>1 DEF Answers
    <2>3. QED
      BY <1>7, <1>8, <2>2 DEF ReplyInv
  <1>14. CallInv'
    <2>1. /\ \A m \in Replies(wire) : m.readback.seq \in Int
          /\ request.sequence \in Nat
      BY <1>2 DEF Replies, Snapshot, IInv, TypeInv
    <2>2. request.stage # "none" =>
            /\ request.call >= 1 /\ request.call <= ready.call
            /\ request.call = ready.call => request.sequence >= ready'.sequence
      BY <1>3, <1>7, <2>1 DEF IInv, CallInv
    <2>3. \A m \in Replies(wire) : m.call = ready.call => m.readback.seq >= ready'.sequence
      BY <1>3, <1>7, <2>1 DEF IInv, CallInv
    <2>4. request.stage = "reached" =>
            /\ mount.stage = "live" /\ request.generation = mount.id
            /\ mount.lastSequence >= request.sequence
      BY DEF IInv, CallInv
    <2>5. ready.call >= 1 /\ \A m \in Messages(wire) : m.call <= ready.call
      BY <1>1 DEF IInv, CallInv
    <2>6. QED
      BY <1>1, <1>7, <1>8, <2>2, <2>3, <2>4, <2>5 DEF CallInv
  <1>15. ReadyReflectsUpdates'
    BY <1>4, <1>5, <1>7 DEF ReadyReflectsUpdates
  <1>16. QED
    BY <1>6, <1>10, <1>12, <1>13, <1>14, <1>15 DEF IInv

-----------------------------------------------------------------------------
(* Every step, and what follows *)

LEMMA InitHolds == Init => IInv
  <1> SUFFICES ASSUME Init
               PROVE  IInv
    OBVIOUS
  <1> DEFINE empty == <<>>
  <1>1. empty \in Seq(Snapshot) /\ empty \in Seq(Message) /\ empty = <<>>
    OBVIOUS
  <1>2. wire = empty /\ Len(wire) = 0 /\ Messages(wire) = {}
    BY DEF Init, Messages
  <1>3. /\ pub = [transport |-> 0, input |-> NoRevision, generation |-> 0, scheduled |-> FALSE,
                  pending |-> empty, readback |-> Unseen, inspection |-> 0, unsent |-> FALSE]
        /\ mount = Unmounted(0, "away", 0, 0)
        /\ ready = [call |-> 0, stage |-> "idle", sequence |-> 0, generation |-> 0,
                    reply |-> Unseen]
        /\ request = NoRequest /\ accepted = Unseen
        /\ seq = 0 /\ sessionSeq = 0 /\ generation = 0
    BY DEF Init
  <1> HIDE DEF empty
  <1>4. pub \in Publisher
    BY <1>1, <1>3, UnseenFacts DEF Publisher
  <1>5. TypeInv
    BY <1>1, <1>2, <1>3, <1>4, UnseenFacts DEF TypeInv, Mount, Unmounted, NoRequest
  <1>6. Numbered(pub) /\ MountInv /\ ReadyReflectsUpdates
    BY <1>1, <1>3, UnseenFacts DEF Numbered, MountInv, Unmounted, ReadyReflectsUpdates
  <1>7. SnapshotInv
    <2>1. Snapshots = {Unseen}
      BY <1>2, <1>3 DEF Snapshots
    <2>2. QED
      BY <1>3, <2>1, UnseenFacts DEF SnapshotInv, Precedes
  <1>8. OrderInv /\ ReplyInv /\ CallInv
    BY <1>2, <1>3 DEF OrderInv, ReplyInv, CallInv, Replies, NoRequest
  <1>9. QED
    BY <1>5, <1>6, <1>7, <1>8 DEF IInv

LEMMA UpdatePreserves ==
  ASSUME IInv, Update
  PROVE  IInv'
  <1>1. seq' = seq + 1
        /\ UNCHANGED <<sessionSeq, mount, pub, request, wire, accepted, generation, ready>>
    BY DEF Update
  <1>2. TypeInv'
    BY <1>1 DEF IInv, TypeInv
  <1>3. Messages(wire') = Messages(wire) /\ Replies(wire') = Replies(wire)
    BY <1>1
  <1>4. SnapshotInv' /\ OrderInv'
    BY <1>1 DEF IInv, SnapshotInv, Snapshots, OrderInv
  <1>5. QED
    BY <1>1, <1>2, <1>3, <1>4 DEF IInv, Numbered, MountInv, ReplyInv, Answers, CallInv,
                                  ReadyReflectsUpdates

LEMMA Inductive == IInv /\ [Next]_vars => IInv'
  <1> SUFFICES ASSUME IInv, [Next]_vars
               PROVE  IInv'
    OBVIOUS
  <1>1. CASE Display \/ Rerender \/ Leave
    BY <1>1, DisplayPreserves, RerenderPreserves, LeavePreserves
  <1>2. CASE ResolveFails \/ ViewError
    <2>1. ViewFails /\ sessionSeq' = sessionSeq /\ UNCHANGED <<wire, Python>>
      BY <1>2 DEF ResolveFails, ViewError
    <2>2. sessionSeq \in Nat
      BY DEF IInv, TypeInv
    <2>3. QED
      BY <2>1, <2>2, ViewFailsPreserves
  <1>3. ASSUME NEW outcome \in {"rendered", "failed"}, Mounted(outcome)
        PROVE  IInv'
    BY <1>3, MountedPreserves
  <1>4. CASE MountOpens \/ MountFinishes \/ MountSettles \/ MountFails
    BY <1>4, MountOpensPreserves, MountFinishesPreserves, MountSettlesPreserves,
       MountFailsPreserves
  <1>5. CASE Update \/ ApplyUpdate
    BY <1>5, UpdatePreserves, ApplyUpdatePreserves
  <1>6. CASE Microtask \/ Send \/ Receive
    BY <1>6, MicrotaskPreserves, SendPreserves, ReceivePreserves
  <1>7. CASE ReadyCall \/ ReadySend \/ ReadyReached
    BY <1>7, ReadyCallPreserves, ReadySendPreserves, ReadyReachedPreserves
  <1>8. CASE ReadyReply \/ ReadyRejected \/ ReadyReturn \/ ReadyTimeout
    BY <1>8, ReadyReplyPreserves, ReadyRejectedPreserves, ReadyReturnPreserves,
       ReadyTimeoutPreserves
  <1>9. CASE UNCHANGED vars
    <2>1. UNCHANGED <<seq, sessionSeq, mount, pub, request, wire, accepted, generation, ready>>
      BY <1>9 DEF vars
    <2>2. SnapshotInv' /\ OrderInv'
      BY <2>1 DEF IInv, SnapshotInv, Snapshots, OrderInv
    <2>3. QED
      BY <2>1, <2>2 DEF IInv, TypeInv, Numbered, MountInv, ReplyInv, Answers, CallInv,
                        Messages, Replies, ReadyReflectsUpdates
  <1>10. QED
    BY <1>1, <1>2, <1>3, <1>4, <1>5, <1>6, <1>7, <1>8, <1>9 DEF Next

\* Browser, transport and Python keep their types, whatever fails and however
\* displays, mounts, messages and calls fall (view.ts, readback.ts, _view.py).
THEOREM TypeCorrect == Spec => []TypeInv
  <1>1. IInv => TypeInv
    BY DEF IInv
  <1>2. QED
    BY <1>1, InitHolds, Inductive, PTL DEF Spec

\* The state that ready() returns knows every update sent before the call, for any
\* number of mounts, updates, calls and messages in flight: an older reply, a
\* trait that overtakes it or a mount that takes over cannot weaken it
\* (view.ts "ready", _view.py "ready" and "_on_inspection").
THEOREM ReadyReflects == Spec => []ReadyReflectsUpdates
  <1>1. IInv => ReadyReflectsUpdates
    BY DEF IInv
  <1>2. QED
    BY <1>1, InitHolds, Inductive, PTL DEF Spec

\* What Python accepts next is the same snapshot or a later one.
LEMMA AcceptsLater ==
  ASSUME IInv, [Next]_vars
  PROVE  accepted' = accepted \/ /\ accepted' \in Snapshots
                                 /\ accepted.revision <= accepted'.revision
  <1>1. /\ accepted \in Snapshot /\ ready.reply \in Snapshot
        /\ accepted \in Snapshots /\ ready.reply \in Snapshots
        /\ \A m \in Messages(wire) : m.readback \in Snapshots /\ m.readback \in Snapshot
    BY SnapshotsTyped
  <1>2. ASSUME NEW x \in Snapshots, accepted' = Accepting(x)
        PROVE  accepted' = accepted \/ /\ accepted' \in Snapshots
                                       /\ accepted.revision <= accepted'.revision
    <2>1. x \in Snapshot
      BY SnapshotsTyped
    <2>2. x.revision \in Nat /\ accepted.revision \in Nat
      BY <1>1, <2>1 DEF Snapshot
    <2>3. QED
      BY <1>2, <2>2 DEF Accepting
  <1>3. CASE Receive
    <2>1. Received(Head(wire))
      BY <1>3, ReceivedFacts DEF Receive
    <2>2. accepted' = accepted \/ accepted' = Accepting(Head(wire).readback)
      BY <1>3 DEF Receive
    <2>3. QED
      BY <1>2, <2>1, <2>2 DEF Received
  <1>4. CASE ReadyReturn
    BY <1>1, <1>2, <1>4 DEF ReadyReturn
  <1>5. CASE Display \/ Rerender
    BY <1>5 DEF Display, Rerender, Mounts, Python
  <1>6. CASE Leave \/ ResolveFails \/ ViewError
    BY <1>6 DEF Leave, ResolveFails, ViewError, Python
  <1>7. ASSUME NEW outcome \in {"rendered", "failed"}, Mounted(outcome)
        PROVE  accepted' = accepted
    BY <1>7 DEF Mounted, Python
  <1>8. CASE MountOpens \/ MountFinishes \/ MountSettles \/ MountFails
    BY <1>8 DEF MountOpens, MountFinishes, MountSettles, MountFails, Evaluating, Python
  <1>9. CASE Update \/ ApplyUpdate
    BY <1>9 DEF Update, ApplyUpdate, Python
  <1>10. CASE Microtask \/ Send
    BY <1>10 DEF Microtask, Send, Python
  <1>11. CASE ReadyCall \/ ReadySend \/ ReadyReached \/ ReadyTimeout
    BY <1>11 DEF ReadyCall, ReadySend, ReadyReached, ReadyTimeout, Python
  <1>12. CASE ReadyReply \/ ReadyRejected
    BY <1>12 DEF ReadyReply, ReadyRejected, Reply, Python
  <1>13. CASE UNCHANGED vars
    BY <1>13 DEF vars
  <1>14. QED
    BY <1>3, <1>4, <1>5, <1>6, <1>7, <1>8, <1>9, <1>10, <1>11, <1>12, <1>13 DEF Next

\* NotebookView.state never goes back to an earlier revision, across any number of
\* mounts, displays and late replies (readback.ts "offset", _validate_readback).
THEOREM InputsRise == Spec => InputNeverFalls
  <1>1. IInv /\ [Next]_vars => [accepted'.input >= accepted.input]_vars
    <2> SUFFICES ASSUME IInv, [Next]_vars
                 PROVE  accepted'.input >= accepted.input
      OBVIOUS
    <2>1. accepted \in Snapshots /\ accepted \in Snapshot
      BY SnapshotsTyped
    <2>2. CASE accepted' = accepted
      BY <2>1, <2>2 DEF Snapshot
    <2>3. CASE accepted' \in Snapshots /\ accepted.revision <= accepted'.revision
      <3>1. accepted' \in Snapshot
        BY <2>3, SnapshotsTyped
      <3>2. accepted.input <= accepted'.input
        BY <2>1, <2>3 DEF IInv, SnapshotInv, Precedes
      <3>3. accepted.input \in Int /\ accepted'.input \in Int
        BY <2>1, <3>1 DEF Snapshot
      <3>4. QED
        BY <3>2, <3>3
    <2>4. QED
      BY <2>2, <2>3, AcceptsLater
  <1>2. QED
    BY <1>1, InitHolds, Inductive, PTL DEF Spec, InputNeverFalls

-----------------------------------------------------------------------------
(* When nothing fails, what was shown settled is not reopened *)

\* y does not reopen the revision that x shows settled.
Keeps(x, y) == /\ x.input # NoRevision /\ x.input = y.input /\ x.settled = x.input
               => y.settled = y.input

Shown(x) == x.settled <= x.input /\ (x.input # NoRevision => x.results)

SnapshotsFinal ==
  \A x \in Snapshots : Shown(x) /\ \A y \in Snapshots : x.revision <= y.revision => Keeps(x, y)

\* A placeholder is never settled, whatever its number: the mount it stands in for
\* opens its first revision under it.
MountFinal ==
  /\ Shown(Newest(pub)) /\ Keeps(pub.readback, Newest(pub))
  /\ mount.stage = "resolving" /\ Newest(pub).input = mount.offset
       => Newest(pub).settled # mount.offset
  /\ mount.stage = "live" =>
       /\ mount.session /\ mount.results /\ mount.settled <= mount.input
       /\ /\ Newest(pub).input = mount.input + mount.offset
          /\ Newest(pub).settled = Newest(pub).input
          => mount.settled = mount.input

FinalInv == SnapshotsFinal /\ MountFinal

LEMMA SnapshotsGrow ==
  ASSUME IInv, [Next]_vars
  PROVE  Snapshots' \subseteq Snapshots \cup {pub'.readback}
  <1> DEFINE all == Snapshots \cup {pub'.readback}
  <1>1. SUFFICES /\ accepted' \in all /\ ready'.reply \in all
                 /\ \A m \in Messages(wire') : m.readback \in all
    BY DEF Snapshots
  <1>2. /\ accepted \in all /\ ready.reply \in all /\ Unseen \in all
        /\ \A m \in Messages(wire) : m.readback \in all
    BY DEF Snapshots
  <1>3. accepted' \in all
    BY <1>2, AcceptsLater
  <1>4. CASE Receive
    <2>1. Received(Head(wire))
      BY <1>4, ReceivedFacts DEF Receive
    <2>2. ready'.reply \in {ready.reply, Unseen, Head(wire).readback}
      <3> DEFINE answer == [ready EXCEPT !.stage = "answered", !.reply = Head(wire).readback]
      <3>1. answer.reply = Head(wire).readback
        BY DEF IInv, TypeInv
      <3>2. Answered(Head(wire).readback)
              = IF Head(wire).readback = Unseen THEN Over(ready) ELSE answer
        BY Zenon DEF Answered
      <3> HIDE DEF answer
      <3>3. ready' \in {ready, Over(ready), answer}
        BY <1>4, <3>2 DEF Receive, Changed
      <3>4. QED
        BY <3>1, <3>3 DEF Over
    <2>3. QED
      BY <1>2, <1>3, <2>1, <2>2 DEF Received
  <1>5. CASE Send
    <2>1. /\ wire' = Append(wire, [call |-> 0, readback |-> pub.readback,
                                   generation |-> pub.inspection])
          /\ ready' = ready /\ wire \in Seq(Message)
          /\ [call |-> 0, readback |-> pub.readback, generation |-> pub.inspection] \in Message
      BY <1>5 DEF Send, Python, IInv, TypeInv, Message, Publisher
    <2>2. \A m \in Messages(wire') : m \in Messages(wire) \/ m.readback = pub.readback
      BY <2>1, AppendFacts
    <2>3. pub.readback \in all
      BY DEF Snapshots
    <2>4. QED
      BY <1>2, <1>3, <2>1, <2>2, <2>3
  <1>6. CASE ReadyReply \/ ReadyRejected
    <2>1. PICK answer \in {Unseen, pub'.readback} : Reply(answer)
      <3>1. CASE ReadyReply
        BY <3>1 DEF ReadyReply, Reply
      <3>2. CASE ReadyRejected
        BY <3>2 DEF ReadyRejected
      <3>3. QED
        BY <1>6, <3>1, <3>2
    <2> DEFINE new == [call |-> request.call, readback |-> answer,
                       generation |-> request.generation]
    <2>2. wire' = Append(wire, new) /\ ready' = ready /\ wire \in Seq(Message)
      BY <2>1 DEF Reply, Python, IInv, TypeInv
    <2>3. new \in Message
      <3>1. pub'.readback \in Snapshot
        BY <1>6, Inductive DEF IInv, TypeInv, Publisher, Next
      <3>2. QED
        BY <2>1, <3>1, UnseenFacts DEF IInv, TypeInv, Message
    <2>4. new.readback = answer
      OBVIOUS
    <2> HIDE DEF new
    <2>5. \A m \in Messages(wire') : m \in Messages(wire) \/ m = new
      BY <2>2, <2>3, AppendFacts
    <2>6. QED
      BY <1>2, <1>3, <2>2, <2>4, <2>5
  <1>7. ASSUME wire' = wire, ready'.reply \in all
        PROVE  /\ accepted' \in all /\ ready'.reply \in all
               /\ \A m \in Messages(wire') : m.readback \in all
    BY <1>2, <1>3, <1>7
  <1>8. CASE Display \/ Rerender \/ Leave \/ ResolveFails \/ ViewError
    BY <1>2, <1>7, <1>8 DEF Display, Rerender, Mounts, Leave, ResolveFails, ViewError, Python
  <1>9. CASE (\E outcome \in {"rendered", "failed"} : Mounted(outcome)) \/ MountOpens
             \/ MountFinishes \/ MountSettles \/ MountFails
    BY <1>2, <1>7, <1>9 DEF Mounted, MountOpens, MountFinishes, MountSettles, MountFails,
                            Evaluating, Python
  <1>10. CASE Update \/ ApplyUpdate \/ Microtask
    BY <1>2, <1>7, <1>10 DEF Update, ApplyUpdate, Microtask, Python
  <1>11. CASE ReadyCall \/ ReadyTimeout \/ ReadyReached
    BY <1>2, <1>7, <1>11 DEF ReadyCall, ReadyTimeout, ReadyReached, Over, Python
  <1>12. CASE ReadySend
    <2>1. ready'.reply = ready.reply /\ wire' = wire
      BY <1>12 DEF ReadySend, IInv, TypeInv
    <2>2. QED
      BY <1>2, <1>7, <2>1
  <1>13. CASE ReadyReturn
    <2> DEFINE returned == [ready EXCEPT !.stage = "returned", !.reply = accepted']
    <2>1. ready' \in {Over(ready), returned} /\ wire' = wire
      BY <1>13 DEF ReadyReturn
    <2>2. returned.reply = accepted'
      BY DEF IInv, TypeInv
    <2> HIDE DEF returned
    <2>3. ready'.reply \in {Unseen, accepted'}
      BY <2>1, <2>2 DEF Over
    <2>4. QED
      BY <1>2, <1>3, <1>7, <2>1, <2>3
  <1>14. CASE UNCHANGED vars
    BY <1>2, <1>7, <1>14 DEF vars
  <1>15. QED
    BY <1>4, <1>5, <1>6, <1>8, <1>9, <1>10, <1>11, <1>12, <1>13, <1>14 DEF Next

LEMMA SnapshotsStay ==
  ASSUME IInv, IInv', SnapshotsFinal, Snapshots' \subseteq Snapshots \cup {pub'.readback},
         \/ pub'.readback = pub.readback
         \/ /\ Shown(pub'.readback) /\ Keeps(pub.readback, pub'.readback)
            /\ pub'.readback.input >= pub.readback.input
  PROVE  SnapshotsFinal'
  <1>1. /\ pub.readback \in Snapshots /\ pub'.readback \in Snapshot
        /\ pub.readback.revision = pub.transport
        /\ pub'.readback.revision = pub'.transport
    BY SnapshotsTyped DEF IInv, TypeInv, Publisher, Numbered
  <1>2. CASE pub'.readback = pub.readback
    BY <1>1, <1>2 DEF SnapshotsFinal, Keeps, Shown
  <1>3. CASE /\ Shown(pub'.readback) /\ Keeps(pub.readback, pub'.readback)
             /\ pub'.readback.input >= pub.readback.input
    <2>1. \A x \in Snapshots' : Shown(x)
      BY <1>3 DEF SnapshotsFinal, Shown
    <2>2. ASSUME NEW x \in Snapshots, x \in Snapshots'
          PROVE  Keeps(x, pub'.readback)
      <3>1. /\ x \in Snapshot /\ pub.readback \in Snapshot
            /\ x.input <= pub.readback.input /\ Keeps(x, pub.readback)
        BY <1>1, SnapshotsTyped DEF IInv, SnapshotInv, Precedes, SnapshotsFinal
      <3>2. x.input \in Int /\ pub.readback.input \in Int /\ pub'.readback.input \in Int
        BY <1>1, <3>1 DEF Snapshot
      <3>3. QED
        BY <1>3, <3>1, <3>2 DEF Keeps
    <2>3. ASSUME NEW y \in Snapshots', pub'.readback.revision <= y.revision
          PROVE  y = pub'.readback
      <3>1. pub'.readback \in Snapshots'
        BY DEF Snapshots
      <3>2. /\ y.revision <= pub'.transport
            /\ y.revision = pub'.readback.revision => y = pub'.readback
        BY <3>1 DEF IInv, SnapshotInv, Precedes
      <3>3. y \in Snapshot
        BY <1>1, SnapshotsTyped
      <3>4. y.revision = pub'.readback.revision
        BY <1>1, <2>3, <3>2, <3>3 DEF Snapshot
      <3>5. QED
        BY <3>2, <3>4
    <2>4. ASSUME NEW x \in Snapshots', NEW y \in Snapshots', x.revision <= y.revision
          PROVE  Keeps(x, y)
      <3>1. CASE x \in Snapshots /\ y \in Snapshots
        BY <2>4, <3>1 DEF SnapshotsFinal
      <3>2. CASE x \in Snapshots /\ y = pub'.readback
        BY <2>2, <3>2
      <3>3. CASE x = pub'.readback
        BY <2>3, <2>4, <3>3 DEF Keeps
      <3>4. QED
        BY <3>1, <3>2, <3>3
    <2>5. QED
      BY <2>1, <2>4 DEF SnapshotsFinal, Keeps, Shown
  <1>4. QED
    BY <1>2, <1>3

\* What a flush saves keeps what was saved before it.
LEMMA FlushFinal ==
  ASSUME IInv, NEW p \in Publisher, Numbered(p), p.readback = pub.readback,
         Shown(Newest(p)), Keeps(pub.readback, Newest(p))
  PROVE  LET q == Flushed(p)
         IN  /\ Shown(q.readback) /\ Keeps(pub.readback, q.readback)
             /\ q.readback.input >= pub.readback.input
             /\ Alike(q.readback, Newest(p)) /\ Newest(q) = q.readback
  <1>1. LET q == Flushed(p)
        IN  Alike(q.readback, Newest(p)) /\ Newest(q) = q.readback
    BY FlushedFacts DEF Newest
  <1>2. Newest(p).input >= pub.readback.input
    <2>1. p.input \in Int /\ pub.readback.input \in Int
      BY DEF Publisher, Snapshot
    <2>2. QED
      BY <2>1 DEF Newest, Numbered
  <1>3. QED
    BY <1>1, <1>2 DEF Alike, Shown, Keeps

LEMMA MicrotaskKeeps ==
  ASSUME IInv, FinalInv, Microtask
  PROVE  /\ MountFinal'
         /\ Shown(pub'.readback) /\ Keeps(pub.readback, pub'.readback)
         /\ pub'.readback.input >= pub.readback.input
  <1> DEFINE q == Flushed(pub)
  <1>1. pub \in Publisher /\ Numbered(pub) /\ pub' = [q EXCEPT !.scheduled = FALSE]
        /\ mount' = mount
    BY DEF IInv, TypeInv, Microtask
  <1>2. /\ Shown(q.readback) /\ Keeps(pub.readback, q.readback)
        /\ q.readback.input >= pub.readback.input
        /\ Alike(q.readback, Newest(pub)) /\ q \in Publisher /\ q.pending = <<>>
    BY <1>1, FlushFinal, FlushedFacts DEF FinalInv, MountFinal
  <1> HIDE DEF q
  <1>3. pub'.readback = q.readback /\ pub'.pending = <<>>
    BY <1>1, <1>2 DEF Publisher
  <1>4. Newest(pub') = pub'.readback
    BY <1>3 DEF Newest
  <1>5. MountFinal'
    BY <1>1, <1>2, <1>3, <1>4 DEF FinalInv, MountFinal, Alike, Shown, Keeps
  <1>6. QED
    BY <1>2, <1>3, <1>5

\* What a live mount captures.
LEMMA CapturedFinal ==
  ASSUME NEW m \in Mount, m.input >= 0, m.offset >= 0, m.results, m.settled <= m.input
  PROVE  /\ Shown(Captured(m)) /\ Captured(m).input = m.input + m.offset
         /\ Captured(m).settled = Captured(m).input => m.settled = m.input
  <1>1. m.input \in Int /\ m.offset \in Int /\ m.settled \in Int
    BY DEF Mount
  <1>2. /\ Captured(m).input = m.input + m.offset /\ Captured(m).results = m.results
        /\ Captured(m).settled = IF m.settled = NoRevision THEN NoRevision
                                 ELSE m.settled + m.offset
    BY DEF Captured
  <1>3. QED
    BY <1>1, <1>2, UnseenFacts DEF Shown

\* Reporting the live mount, which has not reopened what it settled.
LEMMA LiveFinal ==
  ASSUME IInv, FinalInv, mount.stage = "live", NEW m \in Mount, m.session, m.results,
         m.offset = mount.offset, m.generation = mount.generation,
         m.input >= mount.input, m.settled <= m.input,
         m.input = mount.input /\ mount.settled = mount.input => m.settled = m.input
  PROVE  LET p == Publish(pub, m)
         IN  /\ p \in Publisher /\ Numbered(p) /\ p.readback = pub.readback
             /\ Newest(p) = Captured(m) /\ Captured(m).input = m.input + m.offset
             /\ Shown(Captured(m)) /\ Keeps(pub.readback, Captured(m))
             /\ Captured(m).settled = Captured(m).input => m.settled = m.input
  <1> DEFINE p == Publish(pub, m)
  <1>1. /\ pub \in Publisher /\ Numbered(pub) /\ mount \in Mount
        /\ mount.generation = pub.generation /\ mount.offset >= 0
        /\ mount.input >= 0 /\ pub.input <= mount.input + mount.offset
    BY DEF IInv, TypeInv, MountInv
  <1>2. /\ m.input \in Int /\ mount.input \in Int /\ mount.offset \in Int
        /\ pub.input \in Int /\ pub.readback.input \in Int
    BY <1>1 DEF Mount, Publisher, Snapshot
  <1>3. m.input >= 0 /\ pub.input <= m.input + m.offset
    BY <1>1, <1>2
  <1>4. Queues(pub, p, Captured(m))
    BY <1>1, <1>3, PublishFacts
  <1>5. /\ Shown(Captured(m)) /\ Captured(m).input = m.input + m.offset
        /\ Captured(m).settled = Captured(m).input => m.settled = m.input
    BY <1>1, <1>3, CapturedFinal
  <1>6. ASSUME pub.readback.input # NoRevision, pub.readback.input = Captured(m).input,
               pub.readback.settled = pub.readback.input
        PROVE  Captured(m).settled = Captured(m).input
    <2>1. pub.readback.input <= pub.input
      BY <1>1 DEF Numbered
    <2>2. /\ pub.readback.input = mount.input + mount.offset /\ m.input = mount.input
          /\ pub.input = pub.readback.input
      <3>1. pub.readback.input = m.input + mount.offset
        BY <1>5, <1>6
      <3>2. pub.input <= mount.input + mount.offset
        BY <1>1
      <3>3. QED
        BY <1>2, <2>1, <3>1, <3>2
    <2>3. Newest(pub).input = pub.readback.input
      BY <1>1, <2>2 DEF Newest, Numbered
    <2>4. Newest(pub).settled = Newest(pub).input
      BY <1>6, <2>3 DEF FinalInv, MountFinal, Keeps
    <2>5. mount.settled = mount.input
      BY <2>2, <2>3, <2>4 DEF FinalInv, MountFinal
    <2>6. m.settled = m.input
      BY <2>2, <2>5
    <2>7. /\ m.settled # NoRevision
          /\ Captured(m).settled = IF m.settled = NoRevision THEN NoRevision
                                   ELSE m.settled + m.offset
      BY <1>2, <1>3, <2>6, UnseenFacts DEF Captured
    <2>8. QED
      BY <1>5, <2>6, <2>7
  <1>7. Newest(p) = Captured(m)
    BY <1>4 DEF Queues, Newest
  <1>8. QED
    BY <1>4, <1>5, <1>6, <1>7 DEF Queues, Keeps

\* Before the next mount reports, nothing is shown settled under its numbers.
LEMMA StartedFinal ==
  ASSUME NEW p \in Publisher, Numbered(p), Shown(Newest(p))
  PROVE  LET q == Started(p)
         IN  \/ Newest(q) = p.readback /\ p.readback.input = NoRevision
             \/ /\ Newest(q).input = Offset(p) /\ Newest(q).settled < Offset(p)
                /\ Newest(q).results
  <1> DEFINE q == Started(p)
             previous == Newest(p)
             counted == p.generation + 1
             empty == <<>>
             begun == [p EXCEPT !.pending = empty, !.generation = counted]
             offset == Offset(p)
             settled == IF previous.results THEN previous.settled ELSE offset
             shown == [Blank(offset, settled) EXCEPT !.pending = previous.results,
                                                     !.results = previous.results]
  <1>1. /\ p.input \in Int /\ p.readback \in Snapshot /\ offset = p.input + 1
        /\ previous \in Snapshot /\ counted \in Nat /\ empty \in Seq(Snapshot)
        /\ previous.input <= p.input
        /\ previous.input = NoRevision => previous = p.readback
    BY UnseenFacts DEF Publisher, Newest, Numbered, Offset
  <1>2. previous.input \in Int /\ previous.settled \in Int
    BY <1>1 DEF Snapshot
  <1>3. q = IF previous.input = NoRevision THEN begun ELSE Enqueue(begun, shown)
    BY Zenon DEF Started, Newest
  <1> HIDE DEF previous, counted, empty, offset, q
  <1>4. begun.pending = <<>> /\ begun.readback = p.readback
    BY <1>1 DEF Publisher, empty
  <1>5. CASE previous.input = NoRevision
    BY <1>1, <1>3, <1>4, <1>5 DEF Newest, q
  <1>6. CASE previous.input # NoRevision
    <2>1. previous.results /\ previous.settled <= previous.input
      BY <1>6 DEF Shown, previous
    <2>2. /\ shown.input = offset /\ shown.settled = previous.settled
          /\ shown.results = previous.results
      BY <2>1 DEF Blank
    <2> HIDE DEF shown, begun
    <2>3. Newest(Enqueue(begun, shown)) = shown
      <3> DEFINE queue == <<shown>>
      <3>1. Enqueue(begun, shown) = [begun EXCEPT !.input = shown.input, !.pending = queue,
                                                  !.scheduled = TRUE]
        BY Zenon DEF Enqueue
      <3>2. queue # <<>> /\ queue[1] = shown
        OBVIOUS
      <3> HIDE DEF queue
      <3>3. begun \in Publisher
        BY <1>1 DEF begun, Publisher
      <3>4. Enqueue(begun, shown).pending = queue
        BY <3>1, <3>3 DEF Publisher
      <3>5. QED
        BY <3>2, <3>4 DEF Newest
    <2>4. previous.settled < offset
      BY <1>1, <1>2, <2>1
    <2>5. Newest(q) = shown
      BY <1>3, <1>6, <2>3
    <2>6. QED
      BY <2>1, <2>2, <2>4, <2>5 DEF q, offset
  <1>7. QED
    BY <1>5, <1>6

LEMMA MountsFinal ==
  ASSUME IInv, FinalInv, NEW p, Mounts(p), p \in Publisher, Numbered(p),
         p.readback = pub.readback, Shown(Newest(p))
  PROVE  MountFinal' /\ pub'.readback = pub.readback
  <1> DEFINE q == Aborted(p)
  <1>1. /\ q \in Publisher /\ Numbered(q) /\ q.readback = pub.readback
        /\ q.input = p.input /\ q.pending = p.pending
    BY AbortedFacts
  <1>2. /\ pub' = Started(q)
        /\ mount' = Unmounted(mount.id + 1, "resolving", Offset(p), pub'.generation)
    BY DEF Mounts
  <1> HIDE DEF q
  <1>3. Newest(q) = Newest(p) /\ Offset(q) = Offset(p)
    BY <1>1 DEF Newest, Offset
  <1>4. /\ pub'.readback = pub.readback /\ Offset(p) >= 0
        /\ \/ Newest(pub') = pub.readback /\ pub.readback.input = NoRevision
           \/ /\ Newest(pub').input = Offset(p) /\ Newest(pub').settled < Offset(p)
              /\ Newest(pub').results /\ Newest(pub') \in Snapshot
    <2>1. /\ pub' \in Publisher /\ pub'.readback = pub.readback /\ Offset(p) >= 0
      BY <1>1, <1>2, <1>3, StartedFacts
    <2>2. Newest(pub') \in Snapshot
      BY <2>1 DEF Newest, Publisher
    <2>3. \/ Newest(pub') = q.readback /\ q.readback.input = NoRevision
          \/ /\ Newest(pub').input = Offset(q) /\ Newest(pub').settled < Offset(q)
             /\ Newest(pub').results
      BY <1>1, <1>2, <1>3, StartedFinal
    <2>4. QED
      BY <1>1, <1>3, <2>1, <2>2, <2>3
  <1>5. /\ mount'.stage = "resolving" /\ mount'.offset = Offset(p)
        /\ p.input \in Int /\ Offset(p) = p.input + 1
        /\ p.readback.input <= p.input /\ p.readback.input \in Int
    BY <1>2 DEF Unmounted, Offset, Publisher, Numbered, Snapshot
  <1>6. CASE Newest(pub') = pub.readback /\ pub.readback.input = NoRevision
    <2>1. Shown(pub.readback)
      BY SnapshotsTyped DEF FinalInv, SnapshotsFinal
    <2>2. Offset(p) # NoRevision
      BY <1>4, <1>5, UnseenFacts
    <2>3. QED
      BY <1>4, <1>5, <1>6, <2>1, <2>2 DEF MountFinal, Keeps, Shown
  <1>7. CASE /\ Newest(pub').input = Offset(p) /\ Newest(pub').settled < Offset(p)
             /\ Newest(pub').results /\ Newest(pub') \in Snapshot
    <2>1. Newest(pub').settled \in Int
      BY <1>7 DEF Snapshot
    <2>2. pub.readback.input # Offset(p)
      BY <1>5
    <2>3. QED
      BY <1>4, <1>5, <1>7, <2>1, <2>2 DEF MountFinal, Keeps, Shown
  <1>8. QED
    BY <1>4, <1>6, <1>7

LEMMA DisplayKeeps ==
  ASSUME IInv, FinalInv, Display \/ Rerender \/ Leave
  PROVE  MountFinal' /\ pub'.readback = pub.readback
  <1> DEFINE empty == <<>>
  <1>1. /\ pub \in Publisher /\ Numbered(pub) /\ pub.readback.input \in Int
        /\ empty \in Seq(Snapshot) /\ Shown(pub.readback)
    BY SnapshotsTyped DEF IInv, TypeInv, Publisher, Snapshot, FinalInv, SnapshotsFinal
  <1>2. CASE Display
    <2> DEFINE p == [pub EXCEPT !.input = pub.readback.input, !.generation = 0,
                                !.pending = empty]
    <2>1. Mounts(p)
      BY <1>2 DEF Display
    <2> HIDE DEF empty
    <2>2. /\ p \in Publisher /\ p.readback = pub.readback /\ p.transport = pub.transport
          /\ p.input = pub.readback.input /\ p.pending = empty
      BY <1>1 DEF Publisher
    <2> HIDE DEF p
    <2>3. Numbered(p) /\ Newest(p) = pub.readback
      BY <1>1, <2>2 DEF Numbered, Newest, empty
    <2>4. QED
      BY <1>1, <2>1, <2>2, <2>3, MountsFinal
  <1>3. CASE Rerender
    BY <1>1, <1>3, MountsFinal DEF Rerender, FinalInv, MountFinal
  <1>4. CASE Leave
    <2> DEFINE counted == pub.generation + 1
               p == [pub EXCEPT !.generation = counted, !.pending = empty, !.scheduled = FALSE]
    <2>1. mount' = Unmounted(mount.id, "away", 0, 0) /\ pub' = Aborted(p)
      BY <1>4 DEF Leave
    <2>2. counted \in Nat
      BY <1>1 DEF Publisher
    <2> HIDE DEF empty, counted
    <2>3. /\ p \in Publisher /\ p.readback = pub.readback /\ p.transport = pub.transport
          /\ p.input = pub.input /\ p.pending = empty
      BY <1>1, <2>2 DEF Publisher
    <2> HIDE DEF p
    <2>4. Numbered(p)
      BY <1>1, <2>3 DEF Numbered, empty
    <2>5. pub'.readback = pub.readback /\ pub'.pending = empty
      BY <2>1, <2>3, <2>4, AbortedFacts
    <2>6. Newest(pub') = pub.readback
      BY <2>5 DEF Newest, empty
    <2>7. mount'.stage = "away"
      BY <2>1 DEF Unmounted
    <2>8. QED
      BY <1>1, <2>5, <2>6, <2>7 DEF MountFinal, Keeps
  <1>5. QED
    BY <1>2, <1>3, <1>4

LEMMA MountedKeeps ==
  ASSUME IInv, FinalInv, Failures = {}, NEW outcome \in {"rendered", "failed"},
         Mounted(outcome)
  PROVE  MountFinal' /\ pub'.readback = pub.readback
  <1> DEFINE q == Publish(pub, mount')
  <1>1. /\ pub \in Publisher /\ Numbered(pub) /\ mount \in Mount /\ sessionSeq \in Nat
        /\ mount.stage = "resolving" /\ mount.generation = pub.generation
        /\ mount.id >= 1 /\ mount.offset >= 0 /\ pub.input <= mount.offset
    BY DEF IInv, TypeInv, MountInv, Mounted
  <1>2. outcome = "rendered"
    BY DEF Mounted
  <1>3. mount' = [mount EXCEPT !.stage = "live", !.session = TRUE, !.lastSequence = sessionSeq,
                               !.input = 0, !.settled = NoRevision, !.pending = TRUE,
                               !.results = TRUE]
    BY <1>2 DEF Mounted
  <1>4. pub' = [q EXCEPT !.inspection = mount'.id, !.unsent = TRUE]
    BY DEF Mounted
  <1> HIDE DEF q
  <1>5. /\ mount' \in Mount /\ mount'.id = mount.id /\ mount'.stage = "live" /\ mount'.session
        /\ mount'.input = 0 /\ mount'.offset = mount.offset /\ mount'.settled = NoRevision
        /\ mount'.generation = mount.generation /\ mount'.results
    <2>1. mount \in Mount /\ sessionSeq \in Nat /\ 0 \in Int /\ NoRevision \in Int
      BY <1>1, UnseenFacts
    <2>2. QED
      BY <1>3, <2>1 DEF Mount
  <1>6. mount.offset \in Int /\ mount.id \in Nat /\ pub.input \in Int /\ pub.readback.input \in Int
    BY <1>1 DEF Mount, Publisher, Snapshot
  <1>7. Queues(pub, q, Captured(mount'))
    BY <1>1, <1>5, <1>6, PublishFacts DEF q
  <1>8. pub'.readback = pub.readback /\ pub'.pending = q.pending
    BY <1>4, <1>7 DEF Queues, Publisher
  <1>9. Newest(pub') = Captured(mount')
    BY <1>7, <1>8 DEF Queues, Newest
  <1>10. /\ Shown(Captured(mount')) /\ Captured(mount').input = mount.offset
         /\ Captured(mount').settled # mount.offset
    <2>1. Shown(Captured(mount'))
      BY <1>1, <1>5, <1>6, CapturedFinal, UnseenFacts
    <2>2. QED
      BY <1>1, <1>5, <1>6, <2>1, UnseenFacts DEF Captured
  <1>11. Keeps(pub.readback, Captured(mount'))
    <2>1. ASSUME pub.readback.input # NoRevision, pub.readback.input = mount.offset,
                 pub.readback.settled = pub.readback.input
          PROVE  FALSE
      <3>1. pub.readback.input <= pub.input
        BY <1>1 DEF Numbered
      <3>2. pub.input = pub.readback.input
        BY <1>1, <1>6, <2>1, <3>1
      <3>3. Newest(pub).input = pub.readback.input
        BY <1>1, <3>2 DEF Newest, Numbered
      <3>4. Newest(pub).settled = Newest(pub).input
        BY <2>1, <3>3 DEF FinalInv, MountFinal, Keeps
      <3>5. QED
        BY <1>1, <2>1, <3>3, <3>4 DEF FinalInv, MountFinal
    <2>2. QED
      BY <1>10, <2>1 DEF Keeps
  <1>12. mount'.settled <= mount'.input
    BY <1>5, UnseenFacts
  <1>13. MountFinal'
    BY <1>5, <1>6, <1>8, <1>9, <1>10, <1>11, <1>12 DEF MountFinal
  <1>14. QED
    BY <1>8, <1>13

\* The live mount reports.
LEMMA ReportKeeps ==
  ASSUME IInv, FinalInv, mount.stage = "live", mount' \in Mount, mount'.stage = "live",
         mount'.session, mount'.results, mount'.offset = mount.offset,
         mount'.generation = mount.generation, mount'.input >= mount.input,
         mount'.settled <= mount'.input,
         mount'.input = mount.input /\ mount.settled = mount.input
           => mount'.settled = mount'.input,
         pub' = Publish(pub, mount')
  PROVE  MountFinal' /\ pub'.readback = pub.readback
  BY LiveFinal DEF MountFinal

LEMMA OpensFinal ==
  ASSUME NEW m \in Mount, m.settled <= m.input, NEW n \in Opens(m)
  PROVE  n.results /\ n.settled <= n.input /\ n.session = m.session
  <1>1. PICK pending \in BOOLEAN : n = Opened(m, pending)
    BY DEF Opens
  <1> DEFINE input == m.input + 1
             settled == IF pending THEN m.settled ELSE input
  <1>2. n = [m EXCEPT !.input = input, !.pending = pending, !.results = TRUE,
                      !.settled = settled]
    BY <1>1 DEF Opened
  <1>3. input \in Int /\ settled \in Int /\ settled <= input
    BY DEF Mount
  <1> HIDE DEF input, settled
  <1>4. QED
    BY <1>2, <1>3 DEF Mount

LEMMA LiveStepKeeps ==
  ASSUME IInv, FinalInv, MountOpens \/ MountFinishes \/ MountSettles
  PROVE  MountFinal' /\ pub'.readback = pub.readback
  <1>1. /\ mount.stage = "live" /\ mount.session /\ mount.results
        /\ mount.settled <= mount.input /\ mount \in Mount /\ mount.input \in Int
    BY LiveTyped DEF MountOpens, MountFinishes, MountSettles, Evaluating, FinalInv, MountFinal
  <1>2. CASE MountOpens
    <2>1. mount' \in Opens(mount) /\ pub' = Publish(pub, mount')
      BY <1>2 DEF MountOpens
    <2>2. /\ mount' \in Mount /\ mount'.stage = mount.stage /\ mount'.offset = mount.offset
          /\ mount'.generation = mount.generation /\ mount'.input = mount.input + 1
          /\ mount'.results /\ mount'.settled <= mount'.input /\ mount'.session
      BY <1>1, <2>1, OpensFacts, OpensFinal
    <2>3. QED
      BY <1>1, <2>1, <2>2, ReportKeeps
  <1>3. CASE MountFinishes
    <2>1. mount' = [mount EXCEPT !.pending = FALSE] /\ pub' = pub
      BY <1>3 DEF MountFinishes
    <2>2. /\ mount'.stage = mount.stage /\ mount'.offset = mount.offset
          /\ mount'.input = mount.input /\ mount'.settled = mount.settled
          /\ mount'.session = mount.session /\ mount'.results = mount.results
      BY <1>1, <2>1 DEF Mount
    <2>3. QED
      BY <1>1, <2>1, <2>2 DEF FinalInv, MountFinal
  <1>4. CASE MountSettles
    <2>1. mount' = [mount EXCEPT !.settled = mount.input] /\ pub' = Publish(pub, mount')
      BY <1>4 DEF MountSettles
    <2>2. /\ mount' \in Mount /\ mount'.stage = mount.stage /\ mount'.offset = mount.offset
          /\ mount'.generation = mount.generation /\ mount'.input = mount.input
          /\ mount'.settled = mount.input
          /\ mount'.session = mount.session /\ mount'.results = mount.results
      BY <1>1, <2>1 DEF Mount
    <2>3. QED
      BY <1>1, <2>1, <2>2, ReportKeeps
  <1>5. QED
    BY <1>2, <1>3, <1>4

LEMMA ApplyUpdateKeeps ==
  ASSUME IInv, FinalInv, ApplyUpdate
  PROVE  MountFinal' /\ pub'.readback = pub.readback
  <1> DEFINE next == sessionSeq + 1
             m == [mount EXCEPT !.lastSequence = next]
  <1>1. CASE mount.stage # "live"
    BY <1>1 DEF ApplyUpdate, FinalInv, MountFinal
  <1>2. CASE mount.stage = "live"
    <2>1. /\ mount.session /\ mount.results /\ mount.settled <= mount.input
          /\ mount \in Mount /\ mount.input \in Int /\ next \in Nat
      BY <1>2, LiveTyped DEF FinalInv, MountFinal
    <2>2. mount' \in Opens(m) /\ pub' = Publish(pub, mount')
      BY <1>2, <2>1 DEF ApplyUpdate
    <2> HIDE DEF next
    <2>3. /\ m \in Mount /\ m.stage = mount.stage /\ m.offset = mount.offset
          /\ m.generation = mount.generation /\ m.input = mount.input
          /\ m.settled = mount.settled /\ m.session = mount.session
      BY <2>1 DEF Mount
    <2> HIDE DEF m
    <2>4. /\ mount' \in Mount /\ mount'.stage = mount.stage /\ mount'.offset = mount.offset
          /\ mount'.generation = mount.generation /\ mount'.input = mount.input + 1
          /\ mount'.results /\ mount'.settled <= mount'.input /\ mount'.session
      BY <2>1, <2>2, <2>3, OpensFacts, OpensFinal
    <2>5. QED
      BY <1>2, <2>1, <2>2, <2>4, ReportKeeps
  <1>3. QED
    BY <1>1, <1>2

LEMMA AnswerKeeps ==
  ASSUME IInv, FinalInv, ReadyReply \/ ReadyRejected
  PROVE  /\ MountFinal'
         /\ Shown(pub'.readback) /\ Keeps(pub.readback, pub'.readback)
         /\ pub'.readback.input >= pub.readback.input
  <1> DEFINE p == Publish(pub, mount)
  <1>1. mount.stage = "live" /\ pub' = Flushed(p) /\ mount' = mount
    BY DEF ReadyReply, ReadyRejected, Waited, Reply, IInv, CallInv
  <1>2. /\ mount.session /\ mount.results /\ mount.settled <= mount.input
        /\ mount \in Mount /\ mount.input \in Int
    BY <1>1, LiveTyped DEF FinalInv, MountFinal
  <1>3. /\ p \in Publisher /\ Numbered(p) /\ p.readback = pub.readback
        /\ Newest(p) = Captured(mount) /\ Captured(mount).input = mount.input + mount.offset
        /\ Shown(Captured(mount)) /\ Keeps(pub.readback, Captured(mount))
        /\ Captured(mount).settled = Captured(mount).input => mount.settled = mount.input
    BY <1>1, <1>2, LiveFinal
  <1> HIDE DEF p
  <1>4. /\ Shown(pub'.readback) /\ Keeps(pub.readback, pub'.readback)
        /\ pub'.readback.input >= pub.readback.input
        /\ Alike(pub'.readback, Captured(mount)) /\ Newest(pub') = pub'.readback
    BY <1>1, <1>3, FlushFinal
  <1>5. MountFinal'
    BY <1>1, <1>2, <1>3, <1>4 DEF MountFinal, Alike, Keeps
  <1>6. QED
    BY <1>4, <1>5

LEMMA FinalInductive ==
  ASSUME Failures = {}
  PROVE  IInv /\ FinalInv /\ IInv' /\ [Next]_vars => FinalInv'
  <1> SUFFICES ASSUME IInv, FinalInv, IInv', [Next]_vars
               PROVE  FinalInv'
    OBVIOUS
  <1>1. SUFFICES /\ MountFinal'
                 /\ \/ pub'.readback = pub.readback
                    \/ /\ Shown(pub'.readback) /\ Keeps(pub.readback, pub'.readback)
                       /\ pub'.readback.input >= pub.readback.input
    BY SnapshotsGrow, SnapshotsStay DEF FinalInv
  <1>2. CASE Display \/ Rerender \/ Leave
    BY <1>2, DisplayKeeps
  <1>3. ASSUME NEW outcome \in {"rendered", "failed"}, Mounted(outcome)
        PROVE  MountFinal' /\ pub'.readback = pub.readback
    BY <1>3, MountedKeeps
  <1>4. CASE MountOpens \/ MountFinishes \/ MountSettles
    BY <1>4, LiveStepKeeps
  <1>5. CASE ApplyUpdate
    BY <1>5, ApplyUpdateKeeps
  <1>6. CASE Microtask
    BY <1>6, MicrotaskKeeps
  <1>7. CASE ReadyReply \/ ReadyRejected
    BY <1>7, AnswerKeeps
  <1>8. CASE ResolveFails \/ ViewError \/ MountFails
    BY <1>8 DEF ResolveFails, ViewError, MountFails
  <1>9. ASSUME mount' = mount, pub'.pending = pub.pending, pub'.readback = pub.readback
        PROVE  MountFinal'
    BY <1>9 DEF FinalInv, MountFinal, Newest
  <1>10. CASE Send
    <2>1. pub' = [pub EXCEPT !.unsent = FALSE] /\ mount' = mount
      BY <1>10 DEF Send
    <2>2. pub'.pending = pub.pending /\ pub'.readback = pub.readback
      BY <2>1 DEF IInv, TypeInv, Publisher
    <2>3. QED
      BY <1>9, <2>1, <2>2
  <1>11. CASE Update \/ Receive \/ ReadyCall \/ ReadySend \/ ReadyReached \/ ReadyReturn
              \/ ReadyTimeout \/ UNCHANGED vars
    <2>1. mount' = mount /\ pub' = pub
      BY <1>11 DEF Update, Receive, ReadyCall, ReadySend, ReadyReached, ReadyReturn,
                   ReadyTimeout, vars
    <2>2. QED
      BY <1>9, <2>1
  <1>12. QED
    BY <1>2, <1>3, <1>4, <1>5, <1>6, <1>7, <1>8, <1>10, <1>11 DEF Next

LEMMA FinalInit == Init => FinalInv
  <1> SUFFICES ASSUME Init
               PROVE  FinalInv
    OBVIOUS
  <1>1. /\ Snapshots = {Unseen} /\ mount.stage = "away" /\ Newest(pub) = Unseen
        /\ pub.readback = Unseen
    BY DEF Init, Snapshots, Messages, Unmounted, Newest
  <1>2. Shown(Unseen) /\ Keeps(Unseen, Unseen)
    BY UnseenFacts DEF Shown, Keeps, Unseen, Blank
  <1>3. QED
    BY <1>1, <1>2 DEF FinalInv, SnapshotsFinal, MountFinal

\* While nothing fails, a revision that Python saw settled is not shown unsettled
\* again: the placeholder of a remount is numbered as the next mount's first revision
\* but never settled, and whatever is delivered late is older.  (The hypothesis is
\* needed: after a failure the placeholder is settled, and the next mount reopens it.)
THEOREM SettledFinal ==
  ASSUME Failures = {}
  PROVE  Spec => SettledIsFinal
  <1>1. IInv /\ FinalInv /\ [Next]_vars =>
          [/\ accepted.input # NoRevision /\ accepted.settled = accepted.input
           /\ accepted'.input = accepted.input
           => accepted'.settled = accepted.settled]_vars
    <2> SUFFICES ASSUME IInv, FinalInv, [Next]_vars, accepted.input # NoRevision,
                        accepted.settled = accepted.input, accepted'.input = accepted.input
                 PROVE  accepted'.settled = accepted.settled
      OBVIOUS
    <2>1. CASE accepted' = accepted
      BY <2>1
    <2>2. CASE accepted' \in Snapshots /\ accepted.revision <= accepted'.revision
      BY <2>2, SnapshotsTyped DEF FinalInv, SnapshotsFinal, Keeps
    <2>3. QED
      BY <2>1, <2>2, AcceptsLater
  <1>2. IInv /\ FinalInv /\ [Next]_vars => (IInv /\ FinalInv)'
    BY Inductive, FinalInductive
  <1>3. QED
    BY <1>1, <1>2, InitHolds, FinalInit, PTL DEF Spec, SettledIsFinal

=============================================================================
