--------------------------- MODULE CellRuntime_proofs ---------------------------
(***************************************************************************)
(* What the operators of CellRuntime do, for every notebook and selection: *)
(* the lemmas that the proofs about NotebookMount and HeadlessEvaluation   *)
(* share.                                                                  *)
(***************************************************************************)
EXTENDS CellRuntime, EvaluationOps_proofs

-----------------------------------------------------------------------------
(* The operators of CellRuntime *)

CellStates ==
  [Cells -> [expected : SUBSET Channels,
             statuses : [Channels -> {"absent", "pending"} \cup Terminal],
             errors : SUBSET Channels]]

Machines == [es : State, cs : CellStates]

Drawn == {"display", "variable"}

\* The evaluation state of a mount that shows the selected cells.
Fit(s) == s \in State /\ ~s.closed /\ s.selected = Selected /\ Coherent(s) /\ Certain(s)

\* A cell state in which the last event of the channel was this one.
Noted(k, ch, status, errors) ==
  [k EXCEPT !.statuses = [@ EXCEPT ![ch] = status], !.errors = errors]

LEMMA NotedTyped ==
  ASSUME NEW states \in CellStates, NEW c \in Cells, NEW ch \in Channels,
         NEW status \in {"pending"} \cup Terminal, NEW errors \in SUBSET Channels
  PROVE  LET k == Noted(states[c], ch, status, errors)
         IN  /\ [states EXCEPT ![c] = k] \in CellStates
             /\ k.expected = states[c].expected /\ k.errors = errors
             /\ k.statuses[ch] = status
             /\ \A h \in Channels \ {ch} : k.statuses[h] = states[c].statuses[h]
  BY DEF CellStates, Noted, Terminal

\* The later of two events of a channel is what is known of it.
LEMMA NotedTwice ==
  ASSUME NEW states \in CellStates, NEW c \in Cells, NEW ch, NEW a, NEW b, NEW e, NEW f
  PROVE  Noted(Noted(states[c], ch, a, e), ch, b, f) = Noted(states[c], ch, b, f)
  <1> DEFINE k == states[c]
  <1>1. k.statuses \in [Channels -> {"absent", "pending"} \cup Terminal]
    BY DEF CellStates
  <1>2. [[k.statuses EXCEPT ![ch] = a] EXCEPT ![ch] = b] = [k.statuses EXCEPT ![ch] = b]
    BY <1>1
  <1>3. k \in [expected : SUBSET Channels, errors : SUBSET Channels,
               statuses : [Channels -> {"absent", "pending"} \cup Terminal]]
    BY DEF CellStates
  <1> HIDE DEF k
  <1>4. Noted(k, ch, a, e).statuses = [k.statuses EXCEPT ![ch] = a]
    BY <1>3 DEF Noted
  <1>5. QED
    BY <1>2, <1>3, <1>4 DEF Noted, k

\* j is k after an event of the channel.
IsNoted(k, j, ch, status, errors) ==
  /\ j.expected = k.expected /\ j.errors = errors /\ j.statuses[ch] = status
  /\ \A h \in Channels \ {ch} : j.statuses[h] = k.statuses[h]

LEMMA NotedFields ==
  ASSUME NEW states \in CellStates, NEW c \in Cells, NEW ch \in Channels,
         NEW status, NEW errors
  PROVE  IsNoted(states[c], Noted(states[c], ch, status, errors), ch, status, errors)
  BY DEF CellStates, Noted, IsNoted

\* What start(channel) does: the cell waits again, and loses its result.
Announced(m, c, ch, n) ==
  /\ n \in Machines /\ Fit(n.es) /\ n.es.attempt = m.es.attempt
  /\ n.cs = [m.cs EXCEPT ![c] = Noted(m.cs[c], ch, "pending", m.cs[c].errors \ {ch})]
  /\ c \in n.es.pending /\ n.es.results[c].status \notin Terminal
  /\ m.es.pending \subseteq n.es.pending
  /\ KeepsResults(m.es, n.es)
  /\ Counts(m.es, n.es, m.es.pending \cup {c})

LEMMA AnnounceFacts ==
  ASSUME NEW m \in Machines, Fit(m.es), NEW c \in Selected, NEW ch \in Channels
  PROVE  Announced(m, c, ch, Announce(m, c, ch))
  <1> DEFINE s == m.es
             g == s.channelGenerations[c][ch] + 1
             t == BeginCell(s, s.attempt, c, ch, g)
             n == Announce(m, c, ch)
             states == [m.cs EXCEPT ![c] = Noted(m.cs[c], ch, "pending", m.cs[c].errors \ {ch})]
  <1>1. s \in State /\ m.cs \in CellStates /\ c \in Cells
    BY NotebookAssumption DEF Machines
  <1>2. g \in Nat /\ s.channelGenerations[c][ch] \in Nat
    BY <1>1 DEF State
  <1>3. Begins(s, s.attempt, c, ch, g)
    BY <1>2 DEF Begins, IsCurrent, Fit
  <1>4. Announce(m, c, ch) = [es |-> t, cs |-> states]
    <2>1. [m.cs EXCEPT ![c].statuses[ch] = "pending", ![c].errors = @ \ {ch}] = states
      BY <1>1 DEF Noted, CellStates
    <2>2. Announce(m, c, ch) =
            [es |-> t,
             cs |-> [m.cs EXCEPT ![c].statuses[ch] = "pending", ![c].errors = @ \ {ch}]]
      BY <1>3 DEF Announce
    <2>3. QED
      BY <2>1, <2>2
  <1> HIDE DEF g
  <1>5. Continues(s, t)
    BY <1>1, <1>2, <1>3, BeginCellFacts DEF Fit, Coherent, Recorded, NoTerminalResult,
       NoResult, Terminal
  <1>6. /\ Coherent(t) /\ Certain(t) /\ t.selected = s.selected
        /\ c \in t.pending /\ s.pending \subseteq t.pending
    BY <1>1, <1>2, <1>3, BeginCellCoherent DEF Fit
  <1>c. Counts(s, t, s.pending \cup {c})
    BY <1>1, <1>2, <1>3, BeginCellCounts DEF Fit
  <1> HIDE DEF t
  <1>7. states \in CellStates
    <2>1. m.cs[c].errors \ {ch} \in SUBSET Channels
      BY <1>1 DEF CellStates
    <2>2. QED
      BY <1>1, <2>1, NotedTyped
  <1> HIDE DEF states
  <1>8. Fit(t) /\ t.attempt = s.attempt
    BY <1>5, <1>6 DEF Continues, Fit
  <1>9. t.results[c].status \notin Terminal
    BY <1>1, <1>6 DEF Coherent, Terminal
  <1>10. KeepsResults(s, t)
    BY <1>5 DEF Continues
  <1>11. n \in Machines
    BY <1>4, <1>7, <1>8 DEF Machines, Fit
  <1>12. n.es = t /\ n.cs = states
    BY <1>4
  <1> HIDE DEF n
  <1>13. QED
    BY <1>6, <1>8, <1>9, <1>10, <1>11, <1>12, <1>c DEF n, states, Announced

\* Nothing that the cell waits for is pending.
NoneAwaited(k) == \A h \in k.expected : k.statuses[h] # "pending"

Failed(ch, outcome) == IF outcome = "error" THEN {ch} ELSE {}

\* What an outcome does: the cell is judged by all that is known, if nothing it
\* waits for is pending.
Judged(m, c, ch, outcome, n) ==
  /\ n \in Machines /\ Fit(n.es) /\ n.es.attempt = m.es.attempt
  /\ n.cs = [m.cs EXCEPT ![c] = Noted(m.cs[c], ch, outcome,
                                      (m.cs[c].errors \ {ch}) \cup Failed(ch, outcome))]
  /\ \A d \in Cells \ {c} :
       n.es.results[d].status \in Terminal => n.es.results[d] = m.es.results[d]
  /\ n.es.results[c].status \in Terminal =>
       (n.es.results[c].status = "error" <=> n.cs[c].errors # {})
  /\ m.es.pending \ {c} \subseteq n.es.pending
  /\ ~NoneAwaited(n.cs[c]) => c \in n.es.pending
  /\ Counts(m.es, n.es, IF NoneAwaited(n.cs[c]) THEN m.es.pending \ {c} ELSE m.es.pending \cup {c})

LEMMA DeliverFacts ==
  ASSUME NEW m \in Machines, Fit(m.es), NEW c \in Selected, NEW ch \in Channels,
         NEW outcome \in Terminal
  PROVE  Judged(m, c, ch, outcome, Deliver(m, c, ch, outcome))
  <1> DEFINE begun == Announce(m, c, ch)
             errors == (m.cs[c].errors \ {ch}) \cup Failed(ch, outcome)
             states == [m.cs EXCEPT ![c] = Noted(m.cs[c], ch, outcome, errors)]
             noted == [es |-> begun.es, cs |-> states]
             token == LastToken(begun, c, ch)
             status == IF errors = {} THEN "success" ELSE "error"
             t == SettleCell(begun.es, token, status)
             n == Deliver(m, c, ch, outcome)
  <1>1. c \in Cells /\ m.cs \in CellStates
    BY NotebookAssumption DEF Machines
  <1>a. Announced(m, c, ch, begun)
    BY AnnounceFacts
  <1> HIDE DEF begun
  <1>2. /\ begun \in Machines /\ Fit(begun.es) /\ begun.es.attempt = m.es.attempt
        /\ begun.cs = [m.cs EXCEPT ![c] = Noted(m.cs[c], ch, "pending", m.cs[c].errors \ {ch})]
        /\ c \in begun.es.pending /\ begun.es.results[c].status \notin Terminal
        /\ m.es.pending \subseteq begun.es.pending
        /\ KeepsResults(m.es, begun.es)
        /\ Counts(m.es, begun.es, m.es.pending \cup {c})
    BY <1>a DEF Announced
  <1>3. errors \in SUBSET Channels /\ m.cs[c].errors \in SUBSET Channels
    BY <1>1 DEF CellStates, Failed
  <1> HIDE DEF errors
  <1>4. /\ states \in CellStates
        /\ states[c].expected = m.cs[c].expected /\ states[c].errors = errors
    <2>1. states[c] = Noted(m.cs[c], ch, outcome, errors)
      BY <1>1 DEF CellStates
    <2>2. states[c].expected = m.cs[c].expected /\ states[c].errors = errors
      BY <1>1, <2>1 DEF CellStates, Noted
    <2>3. states \in CellStates
      BY <1>1, <1>3, NotedTyped
    <2>4. QED
      BY <2>2, <2>3
  <1>5. [begun.cs EXCEPT ![c].statuses[ch] = outcome, ![c].errors = @ \cup Failed(ch, outcome)]
          = states
    <2>1. begun.cs \in CellStates
      BY <1>2 DEF Machines
    <2>2. begun.cs[c] = Noted(m.cs[c], ch, "pending", m.cs[c].errors \ {ch})
      BY <1>1, <1>2 DEF CellStates
    <2>3. begun.cs[c].errors \cup Failed(ch, outcome) = errors
      BY <1>1, <2>2 DEF CellStates, Noted, errors
    <2>4. [begun.cs EXCEPT ![c].statuses[ch] = outcome, ![c].errors = @ \cup Failed(ch, outcome)]
            = [begun.cs EXCEPT ![c] = Noted(begun.cs[c], ch, outcome, errors)]
      BY <1>1, <2>1, <2>3 DEF CellStates, Noted
    <2>5. Noted(begun.cs[c], ch, outcome, errors) = Noted(m.cs[c], ch, outcome, errors)
      BY <1>1, <2>2, NotedTwice
    <2>6. QED
      <3> DEFINE A == Noted(m.cs[c], ch, "pending", m.cs[c].errors \ {ch})
                 B == Noted(m.cs[c], ch, outcome, errors)
      <3>1. begun.cs = [m.cs EXCEPT ![c] = A]
        BY <1>2
      <3>2. DOMAIN m.cs = Cells
        BY <1>1 DEF CellStates
      <3>3. [begun.cs EXCEPT ![c].statuses[ch] = outcome, ![c].errors = @ \cup Failed(ch, outcome)]
              = [begun.cs EXCEPT ![c] = B]
        BY <2>4, <2>5
      <3>4. states = [m.cs EXCEPT ![c] = B]
        OBVIOUS
      <3> HIDE DEF A, B, states
      <3>5. [begun.cs EXCEPT ![c] = B] = [m.cs EXCEPT ![c] = B]
        BY <1>1, <3>1, <3>2
      <3>6. QED
        BY <3>3, <3>4, <3>5
  <1>6. n = IF ~NoneAwaited(states[c]) THEN noted ELSE [es |-> t, cs |-> states]
    <2> DEFINE settled == SettleIfReady(noted, c, token)
    <2>1. n = settled
      BY <1>5 DEF Deliver, begun, Failed
    <2>2. settled = IF ~NoneAwaited(states[c]) THEN noted ELSE [noted EXCEPT !.es = t]
      <3> HIDE DEF token, states
      <3>1. noted.cs = states /\ noted.es = begun.es
        OBVIOUS
      <3> HIDE DEF noted
      <3>2. settled = IF \E h \in states[c].expected : states[c].statuses[h] = "pending" THEN noted
                      ELSE [noted EXCEPT !.es = SettleCell(begun.es, token,
                                IF states[c].errors = {} THEN "success" ELSE "error")]
        BY <3>1, Zenon DEF SettleIfReady
      <3>3. QED
        BY <1>4, <3>2 DEF NoneAwaited
    <2>3. [noted EXCEPT !.es = t] = [es |-> t, cs |-> states]
      BY DEF noted
    <2>4. QED
      BY <2>1, <2>2, <2>3
  <1> HIDE DEF n
  <1>7. /\ token \in Token /\ token.index = c
    <2>1. /\ begun.es.attempt \in Nat /\ begun.es.inputRevision \in Int
          /\ begun.es.channelGenerations[c][ch] \in Nat
      BY <1>1, <1>2 DEF Machines, State
    <2>2. begun.es.inputRevision >= 0
      BY <1>1, <1>2, <2>1 DEF Fit, Coherent, Recorded, NoResult, NoRevision
    <2>3. QED
      BY <1>1, <2>1, <2>2 DEF LastToken, TokenOf, Token
  <1>b. Regular(begun.es) => IsCurrentToken(begun.es, token)
    <2>1. begun.es.attempt = token.attempt /\ begun.es.inputRevision = token.revision
          /\ token.index = c /\ token.channel = ch
          /\ token.generation = begun.es.channelGenerations[c][ch]
      BY DEF LastToken, TokenOf
    <2>2. ~begun.es.closed /\ begun.es.minimumTokenRevisions[c] \in Int
          /\ begun.es.inputRevision \in Int
      BY <1>1, <1>2 DEF Fit, State
    <2> HIDE DEF token
    <2>3. QED
      BY <1>1, <1>2, <2>1, <2>2 DEF IsCurrentToken, IsCurrent, Regular
  <1>8. status \in Terminal /\ (status = "error" <=> errors # {})
    BY DEF Terminal
  <1> HIDE DEF token, states, errors, status
  <1>c. Counts(m.es, t, m.es.pending \ {c})
    <2> SUFFICES ASSUME Regular(m.es)
                 PROVE  Regular(t) /\ t.pending = m.es.pending \ {c}
      BY DEF Counts
    <2>1. Regular(begun.es) /\ begun.es.pending = m.es.pending \cup {c}
      BY <1>2 DEF Counts
    <2>2. IsCurrentToken(begun.es, token)
      BY <1>b, <2>1
    <2>3. Counts(begun.es, t, begun.es.pending \ {c})
      BY <1>2, <1>7, <1>8, <2>2, SettleCellCounts DEF Fit
    <2>4. QED
      BY <2>1, <2>3 DEF Counts
  <1>9. /\ t \in State /\ Fit(t) /\ t.attempt = m.es.attempt
        /\ \A d \in Cells \ {c} : t.results[d] = begun.es.results[d]
        /\ t.results[c].status \in Terminal => t.results[c].status = status
        /\ begun.es.pending \ {c} \subseteq t.pending
    <2>1. CASE t = begun.es
      BY <1>2, <2>1 DEF Fit
    <2>2. CASE t # begun.es
      <3>1. /\ IsCurrentToken(begun.es, token)
            /\ t \in State
            /\ t.attempt = begun.es.attempt /\ t.closed = begun.es.closed
            /\ t.selected = begun.es.selected
            /\ t.results[c].status = status
            /\ \A d \in Cells \ {c} : t.results[d] = begun.es.results[d]
        BY <1>2, <1>7, <1>8, <2>2, SettleCellFacts DEF Fit
      <3>2. Coherent(t) /\ Certain(t) /\ FinishesCell(begun.es, t, c)
        BY <1>2, <1>7, <1>8, <3>1, SettleCellCoherent DEF Fit
      <3>3. QED
        BY <1>2, <3>1, <3>2 DEF Fit, FinishesCell
    <2>3. QED
      BY <2>1, <2>2
  <1> HIDE DEF t
  <1>10. n \in Machines /\ n.cs = states /\ n.es = IF NoneAwaited(states[c]) THEN t ELSE begun.es
    BY <1>2, <1>4, <1>6, <1>9 DEF Machines
  <1>11. Fit(n.es) /\ n.es.attempt = m.es.attempt
    BY <1>2, <1>9, <1>10
  <1>12. ASSUME NEW d \in Cells \ {c}, n.es.results[d].status \in Terminal
         PROVE  n.es.results[d] = m.es.results[d]
    BY <1>2, <1>9, <1>10, <1>12 DEF KeepsResults
  <1>13. ASSUME n.es.results[c].status \in Terminal
         PROVE  n.es.results[c].status = "error" <=> n.cs[c].errors # {}
    BY <1>2, <1>4, <1>8, <1>9, <1>10, <1>13
  <1>14. m.es.pending \ {c} \subseteq n.es.pending /\ (~NoneAwaited(n.cs[c]) => c \in n.es.pending)
    BY <1>2, <1>9, <1>10
  <1>d. Counts(m.es, n.es, IF NoneAwaited(n.cs[c]) THEN m.es.pending \ {c} ELSE m.es.pending \cup {c})
    BY <1>2, <1>10, <1>c
  <1>15. QED
    BY <1>10, <1>11, <1>12, <1>13, <1>14, <1>d DEF n, states, errors, Judged

\* A render fails the cells one after another.
FailEach(m, S) == FoldSet(FailCell, m, S)

FailsWithin(base, S, V) ==
  IsFiniteSet(S) /\ base \in V /\ \A x \in S, m \in V : FailCell(x, m) \in V

FailEachChain(base, S, iter) ==
  /\ FailEach(base, S) = iter[S]
  /\ iter[{}] = base
  /\ \A T \in (SUBSET S) \ {{}} : iter[T] = FailCell(Pick(T), iter[T \ {Pick(T)}])

LEMMA FailEachUnfolds ==
  ASSUME NEW base, NEW S, NEW V, FailsWithin(base, S, V)
  PROVE  \E iter : FailEachChain(base, S, iter)
  <1> DEFINE Op == [p \in S \X V |-> FailCell(p[1], p[2])]
             Equation(g) == g = [T \in SUBSET S |-> IF T = {} THEN base
                                   ELSE LET x == CHOOSE x \in T : TRUE
                                        IN  FailCell(x, g[T \ {x}])]
             iter == CHOOSE g : Equation(g)
  <1>1. Foldable(S, V, base, Op)
    BY DEF Foldable, FailsWithin
  <1>2. FailEach(base, S) = iter[S]
    BY DEF FailEach, FoldSet, MapThenFoldSet
  <1>3. ASSUME NEW x \in S, NEW m \in V
        PROVE  Op[<<x, m>>] = FailCell(x, m)
    OBVIOUS
  <1> HIDE DEF Op
  <1>4. PICK f : Folds(S, V, base, Op, f)
    BY <1>1, FoldExists
  <1>5. ASSUME NEW T \in (SUBSET S) \ {{}}
        PROVE  f[T] = FailCell(Pick(T), f[T \ {Pick(T)}])
    <2>1. Pick(T) \in S
      BY DEF Pick
    <2>2. f[T \ {Pick(T)}] \in V
      BY <1>4 DEF Folds
    <2>3. QED
      BY <1>3, <1>4, <2>1, <2>2 DEF Folds
  <1>6. Equation(f)
    BY <1>4, <1>5 DEF Pick, Folds
  <1>7. Equation(iter)
    <2> HIDE DEF Equation
    <2>1. QED
      BY <1>6
  <1>8. iter[{}] = base
    BY <1>7
  <1>9. \A T \in (SUBSET S) \ {{}} : iter[T] = FailCell(Pick(T), iter[T \ {Pick(T)}])
    BY <1>7 DEF Pick
  <1>10. QED
    BY <1>2, <1>8, <1>9 DEF FailEachChain

\* A frame announces its variables one after another.
AnnounceEach(m, S) == FoldSet(LAMBDA variable, n : Announce(n, variable[1], variable[2]), m, S)

AnnouncesWithin(base, S, V) ==
  IsFiniteSet(S) /\ base \in V /\ \A x \in S, m \in V : Announce(m, x[1], x[2]) \in V

AnnounceEachChain(base, S, iter) ==
  /\ AnnounceEach(base, S) = iter[S]
  /\ iter[{}] = base
  /\ \A T \in (SUBSET S) \ {{}} : iter[T] = Announce(iter[T \ {Pick(T)}], Pick(T)[1], Pick(T)[2])

LEMMA AnnounceEachUnfolds ==
  ASSUME NEW base, NEW S, NEW V, AnnouncesWithin(base, S, V)
  PROVE  \E iter : AnnounceEachChain(base, S, iter)
  <1> DEFINE Op == [p \in S \X V |-> Announce(p[2], p[1][1], p[1][2])]
             Equation(g) == g = [T \in SUBSET S |-> IF T = {} THEN base
                                   ELSE LET x == CHOOSE x \in T : TRUE
                                        IN  Announce(g[T \ {x}], x[1], x[2])]
             iter == CHOOSE g : Equation(g)
  <1>1. Foldable(S, V, base, Op)
    BY DEF Foldable, AnnouncesWithin
  <1>2. AnnounceEach(base, S) = iter[S]
    BY DEF AnnounceEach, FoldSet, MapThenFoldSet
  <1>3. ASSUME NEW x \in S, NEW m \in V
        PROVE  Op[<<x, m>>] = Announce(m, x[1], x[2])
    OBVIOUS
  <1> HIDE DEF Op
  <1>4. PICK f : Folds(S, V, base, Op, f)
    BY <1>1, FoldExists
  <1>5. ASSUME NEW T \in (SUBSET S) \ {{}}
        PROVE  f[T] = Announce(f[T \ {Pick(T)}], Pick(T)[1], Pick(T)[2])
    <2>1. Pick(T) \in S
      BY DEF Pick
    <2>2. f[T \ {Pick(T)}] \in V
      BY <1>4 DEF Folds
    <2>3. QED
      BY <1>3, <1>4, <2>1, <2>2 DEF Folds
  <1>6. Equation(f)
    BY <1>4, <1>5 DEF Pick, Folds
  <1>7. Equation(iter)
    <2> HIDE DEF Equation
    <2>1. QED
      BY <1>6
  <1>8. iter[{}] = base
    BY <1>7
  <1>9. \A T \in (SUBSET S) \ {{}} : iter[T] = Announce(iter[T \ {Pick(T)}], Pick(T)[1], Pick(T)[2])
    BY <1>7 DEF Pick
  <1>10. QED
    BY <1>2, <1>8, <1>9 DEF AnnounceEachChain

\* What the failure of a cell does to its machine.
FailedCell(m, c, n) ==
  /\ n \in Machines /\ Fit(n.es) /\ n.es.attempt = m.es.attempt
  /\ \A d \in Cells \ {c} : n.cs[d] = m.cs[d]
  /\ n.cs[c].expected = {"failure"} /\ n.cs[c].errors = m.cs[c].errors \cup {"failure"}
  /\ n.cs[c].statuses["failure"] = "error"
  /\ \A ch \in Channels \ {"failure"} : n.cs[c].statuses[ch] = m.cs[c].statuses[ch]
  /\ \A d \in Cells \ {c} :
       n.es.results[d].status \in Terminal => n.es.results[d] = m.es.results[d]
  /\ n.es.results[c].status \in Terminal => n.es.results[c].status = "error"
  /\ m.es.pending \ {c} \subseteq n.es.pending
  /\ Counts(m.es, n.es, m.es.pending \ {c})

LEMMA FailCellFacts ==
  ASSUME NEW m \in Machines, Fit(m.es), NEW c \in Selected
  PROVE  FailedCell(m, c, FailCell(c, m))
  <1> DEFINE states == [m.cs EXCEPT ![c] = [@ EXCEPT !.expected = {"failure"}]]
             waits == [es |-> m.es, cs |-> states]
             n == Deliver(waits, c, "failure", "error")
  <1>1. c \in Cells /\ m.cs \in CellStates /\ "failure" \in Channels
    BY NotebookAssumption DEF Machines
  <1>2. FailCell(c, m) = n
    <2>1. m = [es |-> m.es, cs |-> m.cs]
      BY DEF Machines
    <2>2. [m EXCEPT !.cs[c].expected = {"failure"}] = waits
      BY <1>1, <2>1
    <2>3. QED
      BY <2>2 DEF FailCell
  <1>3. states \in CellStates
    BY <1>1 DEF CellStates
  <1>4. /\ \A d \in Cells \ {c} : states[d] = m.cs[d]
        /\ states[c].expected = {"failure"} /\ states[c].errors = m.cs[c].errors
        /\ states[c].statuses = m.cs[c].statuses
    BY <1>1 DEF CellStates
  <1> HIDE DEF states
  <1>5. waits \in Machines /\ waits.es = m.es /\ waits.cs = states
    BY <1>3 DEF Machines
  <1> HIDE DEF waits
  <1> DEFINE k == Noted(states[c], "failure", "error", (states[c].errors \ {"failure"}) \cup {"failure"})
  <1>6. /\ n \in Machines /\ Fit(n.es) /\ n.es.attempt = m.es.attempt
        /\ n.cs = [states EXCEPT ![c] = k]
        /\ \A d \in Cells \ {c} :
             n.es.results[d].status \in Terminal => n.es.results[d] = m.es.results[d]
        /\ n.es.results[c].status \in Terminal =>
             (n.es.results[c].status = "error" <=> n.cs[c].errors # {})
        /\ m.es.pending \ {c} \subseteq n.es.pending
        /\ Counts(m.es, n.es, IF NoneAwaited(n.cs[c]) THEN m.es.pending \ {c} ELSE m.es.pending \cup {c})
    <2>1. "error" \in Terminal /\ Failed("failure", "error") = {"failure"}
      BY DEF Terminal, Failed
    <2>2. Judged(waits, c, "failure", "error", n)
      BY <1>1, <1>5, <2>1, DeliverFacts
    <2>3. QED
      BY <1>5, <2>1, <2>2 DEF Judged
  <1> HIDE DEF n
  <1>7. /\ k.expected = {"failure"} /\ k.errors = m.cs[c].errors \cup {"failure"}
        /\ k.statuses["failure"] = "error"
        /\ \A ch \in Channels \ {"failure"} : k.statuses[ch] = m.cs[c].statuses[ch]
    BY <1>1, <1>3, <1>4 DEF CellStates, Noted
  <1> HIDE DEF k
  <1>8. n.cs[c] = k /\ \A d \in Cells \ {c} : n.cs[d] = m.cs[d]
    BY <1>1, <1>3, <1>4, <1>6 DEF CellStates
  <1>9. NoneAwaited(n.cs[c])
    BY <1>7, <1>8 DEF NoneAwaited
  <1>10. QED
    BY <1>2, <1>6, <1>7, <1>8, <1>9 DEF FailedCell

\* What the failures of these cells do.
FailedCells(m, T, n) ==
  /\ n \in Machines /\ Fit(n.es) /\ n.es.attempt = m.es.attempt
  /\ \A c \in Cells \ (T \cap Selected) :
       /\ n.cs[c] = m.cs[c]
       /\ n.es.results[c].status \in Terminal => n.es.results[c] = m.es.results[c]
  /\ \A c \in T \cap Selected :
       /\ n.cs[c].expected = {"failure"}
       /\ n.cs[c].errors = m.cs[c].errors \cup {"failure"}
       /\ n.cs[c].statuses["failure"] = "error"
       /\ \A ch \in Channels \ {"failure"} : n.cs[c].statuses[ch] = m.cs[c].statuses[ch]
       /\ n.es.results[c].status \in Terminal => n.es.results[c].status = "error"
  /\ m.es.pending \ T \subseteq n.es.pending
  /\ Counts(m.es, n.es, m.es.pending \ (T \cap Selected))

LEMMA FailEachFacts ==
  ASSUME NEW m \in Machines, Fit(m.es), NEW S \in SUBSET Cells, IsFiniteSet(S)
  PROVE  FailedCells(m, S, FailEach(m, S))
  <1> DEFINE Mounts == {n \in Machines : Fit(n.es)}
  <1>1. ASSUME NEW c \in S, NEW n \in Mounts
        PROVE  FailCell(c, n) \in Mounts
    <2>1. CASE c \notin Selected
      BY <2>1 DEF FailCell
    <2>2. CASE c \in Selected
      BY <2>2, FailCellFacts DEF FailedCell
    <2>3. QED
      BY <2>1, <2>2
  <1>2. PICK iter : FailEachChain(m, S, iter)
    <2>1. FailsWithin(m, S, Mounts)
      BY <1>1 DEF FailsWithin
    <2> HIDE DEF Mounts
    <2>2. QED
      BY <2>1, FailEachUnfolds
  <1> DEFINE Good == {T \in SUBSET S : FailedCells(m, T, iter[T])}
  <1>3. {} \in Good
    BY <1>2 DEF FailEachChain, FailedCells, Counts
  <1>4. ASSUME NEW T \in (SUBSET S) \ {{}}, T \ {Pick(T)} \in Good
        PROVE  T \in Good
    <2> DEFINE c == Pick(T)
               n == iter[T \ {c}]
    <2>1. c \in T /\ c \in Cells
      BY DEF Pick
    <2>2. FailedCells(m, T \ {c}, n)
      BY <1>4
    <2>3. iter[T] = FailCell(c, n)
      BY <1>2 DEF FailEachChain
    <2> HIDE DEF c, n
    <2>4. CASE c \notin Selected
      <3>1. iter[T] = n
        BY <2>3, <2>4 DEF FailCell
      <3>2. (T \ {c}) \cap Selected = T \cap Selected
        BY <2>4
      <3>3. FailedCells(m, T, n)
        BY <2>2, <3>2 DEF FailedCells
      <3>4. QED
        BY <3>1, <3>3
    <2>5. CASE c \in Selected
      <3>1. FailedCell(n, c, iter[T])
        BY <2>2, <2>3, <2>5, FailCellFacts DEF FailedCells
      <3>2. FailedCells(m, T, iter[T])
        <4>1. Counts(m.es, iter[T].es, m.es.pending \ (T \cap Selected))
          BY <2>1, <2>2, <2>5, <3>1 DEF FailedCells, FailedCell, Counts
        <4>2. /\ iter[T] \in Machines /\ Fit(iter[T].es) /\ iter[T].es.attempt = m.es.attempt
              /\ m.es.pending \ T \subseteq iter[T].es.pending
          BY <2>1, <2>2, <3>1 DEF FailedCells, FailedCell
        <4>3. ASSUME NEW d \in Cells \ (T \cap Selected)
              PROVE  /\ iter[T].cs[d] = m.cs[d]
                     /\ iter[T].es.results[d].status \in Terminal =>
                          iter[T].es.results[d] = m.es.results[d]
          <5>1. d # c /\ d \in Cells \ ((T \ {c}) \cap Selected)
            BY <2>1, <2>5
          <5>2. QED
            BY <2>2, <3>1, <5>1 DEF FailedCells, FailedCell
        <4>4. ASSUME NEW d \in T \cap Selected
              PROVE  /\ iter[T].cs[d].expected = {"failure"}
                     /\ iter[T].cs[d].errors = m.cs[d].errors \cup {"failure"}
                     /\ iter[T].cs[d].statuses["failure"] = "error"
                     /\ \A ch \in Channels \ {"failure"} :
                          iter[T].cs[d].statuses[ch] = m.cs[d].statuses[ch]
                     /\ iter[T].es.results[d].status \in Terminal =>
                          iter[T].es.results[d].status = "error"
          <5>1. CASE d = c
            <6>1. n.cs[c] = m.cs[c]
              BY <2>1, <2>2 DEF FailedCells
            <6>2. QED
              BY <3>1, <5>1, <6>1 DEF FailedCell
          <5>2. CASE d # c
            <6>1. d \in (T \ {c}) \cap Selected /\ d \in Cells \ {c}
              BY <5>2
            <6>2. /\ iter[T].cs[d] = n.cs[d]
                  /\ iter[T].es.results[d].status \in Terminal =>
                       iter[T].es.results[d] = n.es.results[d]
              BY <3>1, <6>1 DEF FailedCell
            <6>3. QED
              BY <2>2, <6>1, <6>2 DEF FailedCells
          <5>3. QED
            BY <5>1, <5>2
        <4>5. QED
          BY <4>1, <4>2, <4>3, <4>4 DEF FailedCells
      <3>3. QED
        BY <3>2
    <2>6. QED
      BY <2>4, <2>5
  <1>5. \A T \in SUBSET S : T \in Good
    <2> HIDE DEF Good
    <2>1. QED
      BY <1>3, <1>4, SubsetInduction
  <1>6. QED
    BY <1>2, <1>5 DEF FailEachChain

\* What the announcement of these variables does.
AnnouncedAll(m, T, n) ==
  /\ n \in Machines /\ Fit(n.es) /\ n.es.attempt = m.es.attempt
  /\ m.es.pending \subseteq n.es.pending
  /\ \A c \in Selected :
       /\ n.cs[c].expected = m.cs[c].expected
       /\ n.cs[c].errors = {ch \in m.cs[c].errors : <<c, ch>> \notin T}
       /\ \A ch \in Channels :
            n.cs[c].statuses[ch] = IF <<c, ch>> \in T THEN "pending" ELSE m.cs[c].statuses[ch]
       /\ n.es.results[c].status \in Terminal =>
            n.es.results[c] = m.es.results[c] /\ \A ch \in Channels : <<c, ch>> \notin T
       /\ \A ch \in Channels : <<c, ch>> \in T => c \in n.es.pending
  /\ Counts(m.es, n.es, m.es.pending \cup {c \in Selected : \E ch \in Channels : <<c, ch>> \in T})

LEMMA AnnounceEachFacts ==
  ASSUME NEW m \in Machines, Fit(m.es), NEW S \in SUBSET (Cells \X Drawn), IsFiniteSet(S)
  PROVE  AnnouncedAll(m, S, AnnounceEach(m, S))
  <1> DEFINE Mounts == {n \in Machines : Fit(n.es)}
  <1>0. Drawn \subseteq Channels
    BY NotebookAssumption DEF Drawn
  <1>1. ASSUME NEW x \in S, NEW n \in Mounts
        PROVE  Announce(n, x[1], x[2]) \in Mounts
    <2>1. x[1] \in Cells /\ x[2] \in Channels
      BY <1>0
    <2>2. CASE x[1] \notin Selected
      BY <2>2 DEF Announce
    <2>3. CASE x[1] \in Selected
      BY <2>1, <2>3, AnnounceFacts DEF Announced
    <2>4. QED
      BY <2>2, <2>3
  <1>2. PICK iter : AnnounceEachChain(m, S, iter)
    <2>1. AnnouncesWithin(m, S, Mounts)
      BY <1>1 DEF AnnouncesWithin
    <2> HIDE DEF Mounts
    <2>2. QED
      BY <2>1, AnnounceEachUnfolds
  <1> DEFINE Good == {T \in SUBSET S : AnnouncedAll(m, T, iter[T])}
  <1>3. {} \in Good
    <2>1. \A c \in Selected : m.cs[c].errors = {ch \in m.cs[c].errors : <<c, ch>> \notin {}}
      OBVIOUS
    <2>2. QED
      BY <1>2, <2>1 DEF AnnounceEachChain, AnnouncedAll, Counts
  <1>4. ASSUME NEW T \in (SUBSET S) \ {{}}, T \ {Pick(T)} \in Good
        PROVE  T \in Good
    <2> DEFINE x == Pick(T)
               U == T \ {x}
               n == iter[U]
    <2>1. x \in T /\ x \in Cells \X Drawn
      BY DEF Pick
    <2>2. AnnouncedAll(m, U, n)
      BY <1>4
    <2>3. iter[T] = Announce(n, x[1], x[2])
      BY <1>2 DEF AnnounceEachChain
    <2> HIDE DEF x, n, U
    <2>4. PICK c \in Cells, ch \in Drawn : x = <<c, ch>>
      BY <2>1
    <2>5. /\ iter[T] = Announce(n, c, ch) /\ ch \in Channels
          /\ \A d \in Cells, h \in Channels : <<d, h>> \in T <=> <<d, h>> \in U \/ (d = c /\ h = ch)
      BY <1>0, <2>1, <2>3, <2>4 DEF U
    <2>6. CASE c \notin Selected
      <3>1. iter[T] = n
        BY <2>5, <2>6 DEF Announce
      <3>2. \A d \in Selected, h \in Channels : <<d, h>> \in T <=> <<d, h>> \in U
        BY <2>5, <2>6, NotebookAssumption
      <3>3. \A d \in Selected : n.cs[d].errors = {h \in m.cs[d].errors : <<d, h>> \notin T}
        <4>1. \A d \in Selected : m.cs[d].errors \subseteq Channels
          BY NotebookAssumption DEF Machines, CellStates
        <4>2. QED
          BY <2>2, <3>2, <4>1 DEF AnnouncedAll
      <3>4. AnnouncedAll(m, T, n)
        <4>1. {d \in Selected : \E h \in Channels : <<d, h>> \in T}
                = {d \in Selected : \E h \in Channels : <<d, h>> \in U}
          BY <3>2
        <4>2. QED
          BY <2>2, <3>2, <3>3, <4>1 DEF AnnouncedAll
      <3>5. QED
        BY <3>1, <3>4
    <2>7. CASE c \in Selected
      <3> DEFINE p == iter[T]
      <3>1. n \in Machines /\ Fit(n.es) /\ n.cs \in CellStates
        BY <2>2 DEF AnnouncedAll, Machines
      <3>2. Announced(n, c, ch, p)
        BY <2>5, <2>7, <3>1, AnnounceFacts
      <3> HIDE DEF p
      <3>3. /\ p.cs[c].expected = n.cs[c].expected /\ p.cs[c].errors = n.cs[c].errors \ {ch}
            /\ p.cs[c].statuses[ch] = "pending"
            /\ \A h \in Channels \ {ch} : p.cs[c].statuses[h] = n.cs[c].statuses[h]
            /\ \A d \in Cells \ {c} : p.cs[d] = n.cs[d]
        BY <2>5, <3>1, <3>2 DEF Announced, CellStates, Noted
      <3>4. /\ p \in Machines /\ Fit(p.es) /\ p.es.attempt = m.es.attempt
            /\ m.es.pending \subseteq p.es.pending
        BY <2>2, <3>2 DEF Announced, AnnouncedAll
      <3>5. ASSUME NEW d \in Selected
            PROVE  /\ p.cs[d].expected = m.cs[d].expected
                   /\ p.cs[d].errors = {h \in m.cs[d].errors : <<d, h>> \notin T}
                   /\ \A h \in Channels :
                        p.cs[d].statuses[h] =
                          IF <<d, h>> \in T THEN "pending" ELSE m.cs[d].statuses[h]
                   /\ p.es.results[d].status \in Terminal =>
                        /\ p.es.results[d] = m.es.results[d]
                        /\ \A h \in Channels : <<d, h>> \notin T
                   /\ \A h \in Channels : <<d, h>> \in T => d \in p.es.pending
        <4>1. /\ n.cs[d].expected = m.cs[d].expected
              /\ n.cs[d].errors = {h \in m.cs[d].errors : <<d, h>> \notin U}
              /\ \A h \in Channels :
                   n.cs[d].statuses[h] = IF <<d, h>> \in U THEN "pending" ELSE m.cs[d].statuses[h]
              /\ n.es.results[d].status \in Terminal =>
                   /\ n.es.results[d] = m.es.results[d]
                   /\ \A h \in Channels : <<d, h>> \notin U
              /\ \A h \in Channels : <<d, h>> \in U => d \in n.es.pending
          BY <2>2 DEF AnnouncedAll
        <4>2. d \in Cells /\ m.cs[d].errors \subseteq Channels
          BY NotebookAssumption DEF Machines, CellStates
        <4>3. /\ p.es.results[d].status \in Terminal => p.es.results[d] = n.es.results[d]
              /\ n.es.pending \subseteq p.es.pending
              /\ c \in p.es.pending /\ p.es.results[c].status \notin Terminal
          BY <3>2, <4>2 DEF Announced, KeepsResults
        <4>4. CASE d = c
          BY <2>5, <3>3, <4>1, <4>2, <4>3, <4>4
        <4>5. CASE d # c
          BY <2>5, <3>3, <4>1, <4>2, <4>3, <4>5
        <4>6. QED
          BY <4>4, <4>5
      <3>6. AnnouncedAll(m, T, p)
        <4>1. {d \in Selected : \E h \in Channels : <<d, h>> \in T}
                = {d \in Selected : \E h \in Channels : <<d, h>> \in U} \cup {c}
          BY <2>5, <2>7, NotebookAssumption
        <4>2. Counts(m.es, p.es,
                     m.es.pending \cup {d \in Selected : \E h \in Channels : <<d, h>> \in T})
          BY <2>2, <3>2, <4>1 DEF AnnouncedAll, Announced, Counts
        <4>3. QED
          BY <3>4, <3>5, <4>2 DEF AnnouncedAll
      <3>7. QED
        BY <3>6 DEF p
    <2>8. QED
      BY <2>6, <2>7
  <1>5. \A T \in SUBSET S : T \in Good
    <2> HIDE DEF Good
    <2>1. QED
      BY <1>3, <1>4, SubsetInduction
  <1>6. QED
    BY <1>2, <1>5 DEF AnnounceEachChain

\* A render begins with every selected cell pending.
LEMMA BegunFacts ==
  ASSUME NEW s \in State, ~s.closed, Coherent(s), NoTerminalResult(s), ~s.errors
  PROVE  LET started == Start(s)
             begun   == Begin(started, started.attempt, Selected)
         IN  /\ Fit(begun) /\ begun.attempt = s.attempt + 1
             /\ NoTerminalResult(begun) /\ Selected \subseteq begun.pending
             /\ Regular(begun)
  <1> DEFINE started == Start(s)
             u == [started EXCEPT !.selected = Selected]
             v == OpenRevision(u, Selected)
             begun == Begin(started, started.attempt, Selected)
  <1>1. Selected \in SUBSET Cells
    BY NotebookAssumption
  <1>2. /\ started \in State /\ started.attempt = s.attempt + 1 /\ ~started.closed
        /\ started.results = s.results /\ started.errors = s.errors
        /\ started.minimumTokenRevisions = [c \in Cells |-> NoRevision]
        /\ Coherent(started)
    <2>1. /\ started.errors = s.errors
          /\ started.minimumTokenRevisions = [c \in Cells |-> NoRevision]
      BY DEF Start, State
    <2>2. QED
      BY <2>1, StartFacts, StartCoherent
  <1>3. NoTerminalResult(started) /\ started.inputRevision >= NoRevision
    BY <1>2 DEF NoTerminalResult, Coherent, Recorded
  <1> HIDE DEF started
  <1>4. /\ begun \in State /\ begun.attempt = started.attempt /\ begun.closed = started.closed
        /\ KeepsResults(started, begun)
    BY <1>1, <1>2, <1>3, BeginFacts
  <1>5. Coherent(begun) /\ Certain(begun) /\ begun.selected = Selected
    BY <1>1, <1>2, BeginCoherent DEF IsCurrent
  <1>6. /\ u \in State /\ Recorded(u) /\ u.selected = Selected
        /\ u.results = started.results /\ u.errors = started.errors
        /\ u.inputRevision = started.inputRevision /\ u.pending = started.pending
        /\ u.minimumTokenRevisions = started.minimumTokenRevisions
    BY <1>1, <1>2 DEF State, Coherent, Recorded
  <1>7. begun = IF Selected = started.selected /\ started.pending # {} THEN u ELSE v
    BY <1>2, Zenon DEF Begin, IsCurrent
  <1> HIDE DEF u
  <1>8. Opened(u, Selected, v) /\ Reopens(u, Selected, v)
    BY <1>1, <1>6, OpenRevisionCoherent, OpenRevisionFacts
  <1> HIDE DEF v, begun
  <1>9. Selected \subseteq begun.pending
    <2>1. CASE Selected = started.selected /\ started.pending # {}
      <3>1. begun = u /\ started.inputRevision # NoRevision
        BY <1>2, <1>7, <2>1 DEF Coherent, NoResult
      <3>2. ASSUME NEW c \in Selected
            PROVE  begun.results[c].status = "pending"
        <4>1. c \in Cells /\ started.results[c] # NoResult
          BY <1>1, <1>2, <2>1, <3>1 DEF Coherent
        <4>2. started.results[c].status # "none" /\ started.results[c].status \notin Terminal
          BY <1>2, <1>3, <4>1 DEF Coherent, Recorded, NoTerminalResult
        <4>3. started.results[c].status \in {"none", "pending"} \cup Terminal
          BY <1>2, <4>1 DEF State, Result
        <4>4. QED
          BY <1>6, <3>1, <4>2, <4>3
      <3>3. QED
        BY <1>1, <1>5, <3>2 DEF Coherent
    <2>2. CASE ~(Selected = started.selected /\ started.pending # {})
      BY <1>6, <1>7, <1>8, <2>2 DEF Opened
    <2>3. QED
      BY <2>1, <2>2
  <1>10. NoTerminalResult(begun)
    BY <1>3, <1>4 DEF NoTerminalResult, KeepsResults
  <1>11. Fit(begun)
    BY <1>2, <1>4, <1>5 DEF Fit
  <1>12. Regular(begun)
    <2>1. \A c \in Selected : begun.results[c].status = "pending"
      BY <1>5, <1>9 DEF Coherent
    <2>2. started.inputRevision \in Int /\ NoRevision \in Int /\ started.inputRevision >= NoRevision
      BY <1>2, NoRevisionIsInt DEF State, Coherent, Recorded
    <2>3. \A c \in Cells : u.minimumTokenRevisions[c] <= u.inputRevision
      BY <1>2, <1>6, <2>2
    <2>4. ASSUME NEW c \in Cells
          PROVE  v.minimumTokenRevisions[c] <= v.inputRevision
      <3>1. /\ u.inputRevision \in Int /\ u.minimumTokenRevisions[c] = NoRevision
            /\ NoRevision <= u.inputRevision
        BY <1>2, <1>6, <2>2
      <3>2. /\ v.inputRevision = u.inputRevision + 1
            /\ v.minimumTokenRevisions[c] \in {u.inputRevision + 1, u.minimumTokenRevisions[c]}
        BY <1>8 DEF Reopens
      <3>3. QED
        BY <2>2, <3>1, <3>2
    <2>5. \A c \in Cells : begun.minimumTokenRevisions[c] <= begun.inputRevision
      BY <1>7, <2>3, <2>4
    <2>6. QED
      BY <1>5, <2>1, <2>5 DEF Regular
  <1>13. QED
    BY <1>2, <1>4, <1>9, <1>10, <1>11, <1>12 DEF begun, started

Failing == Broken \cup Marred

\* The machines that a render leaves.
Renders(owned, m) ==
  /\ m \in Machines /\ Fit(m.es)
  /\ \A c \in Selected :
       LET configured == IF c \in Broken THEN Unconfigured ELSE Configured(Observed(c, owned))
       IN  /\ c \notin Failing => m.cs[c] = configured
           /\ c \in Failing =>
                /\ m.cs[c].expected = {"failure"}
                /\ m.cs[c].errors = {"failure"} /\ m.cs[c].statuses["failure"] = "error"
                /\ \A ch \in Drawn : m.cs[c].statuses[ch] = configured.statuses[ch]
           /\ m.es.results[c].status \in Terminal =>
                c \in Failing /\ m.es.results[c].status = "error"
  /\ m.es.pending = Selected \ Failing /\ Regular(m.es)

LEMMA ConfiguredFields ==
  ASSUME NEW channels \in SUBSET Channels
  PROVE  Configured(channels) =
           [expected |-> channels,
            statuses |-> [ch \in Channels |-> IF ch \in channels THEN "pending" ELSE "absent"],
            errors |-> {}]
  <1> DEFINE before == [ch \in Channels |-> "absent"]
             after == [ch \in Channels |-> IF ch \in channels THEN "pending" ELSE "absent"]
  <1>1. Configured(channels) = [Unconfigured EXCEPT !.expected = channels, !.statuses = after]
    BY DEF Configured
  <1>2. Unconfigured = [expected |-> {}, statuses |-> before, errors |-> {}]
    BY DEF Unconfigured
  <1> HIDE DEF before, after
  <1>3. Configured(channels) = [expected |-> channels, statuses |-> after, errors |-> {}]
    BY <1>1, <1>2
  <1>4. QED
    BY <1>3 DEF after

LEMMA RenderedFacts ==
  ASSUME NEW s \in State, ~s.closed, Coherent(s), NoTerminalResult(s), ~s.errors,
         NEW owned
  PROVE  /\ Renders(owned, Rendered(s, owned))
         /\ Rendered(s, owned).es.attempt = s.attempt + 1
  <1> DEFINE started == Start(s)
             begun == Begin(started, started.attempt, Selected)
             states == [c \in Cells |-> IF c \in Selected \ Broken
                                        THEN Configured(Observed(c, owned)) ELSE Unconfigured]
             m == [es |-> begun, cs |-> states]
             n == FailEach(m, Failing)
  <1>1. Rendered(s, owned) = n
    BY DEF Rendered, FailEach, Failing
  <1>2. /\ Fit(begun) /\ begun.attempt = s.attempt + 1
        /\ NoTerminalResult(begun) /\ Selected \subseteq begun.pending
        /\ Regular(begun)
    BY BegunFacts
  <1> HIDE DEF begun
  <1>3. \A c \in Cells : Observed(c, owned) \in SUBSET Channels
    BY NotebookAssumption DEF Observed
  <1>4. ASSUME NEW channels \in SUBSET Channels
        PROVE  Configured(channels) =
                 [expected |-> channels,
                  statuses |-> [ch \in Channels |-> IF ch \in channels THEN "pending" ELSE "absent"],
                  errors |-> {}]
    BY ConfiguredFields
  <1>5. states \in CellStates
    <2>1. Unconfigured \in [expected : SUBSET Channels,
                            statuses : [Channels -> {"absent", "pending"} \cup Terminal],
                            errors : SUBSET Channels]
      BY DEF Unconfigured
    <2>2. ASSUME NEW c \in Cells
          PROVE  Configured(Observed(c, owned)) \in
                   [expected : SUBSET Channels,
                    statuses : [Channels -> {"absent", "pending"} \cup Terminal],
                    errors : SUBSET Channels]
      BY <1>3, <1>4
    <2>3. QED
      BY <2>1, <2>2 DEF CellStates
  <1>6. ASSUME NEW c \in Selected
        PROVE  /\ states[c] = IF c \in Broken THEN Unconfigured
                              ELSE Configured(Observed(c, owned))
               /\ states[c].errors = {}
    <2>1. c \in Cells
      BY NotebookAssumption
    <2>2. states[c] = IF c \in Broken THEN Unconfigured ELSE Configured(Observed(c, owned))
      BY <2>1
    <2>3. Unconfigured.errors = {} /\ Configured(Observed(c, owned)).errors = {}
      BY <1>3, <1>4, <2>1 DEF Unconfigured
    <2> HIDE DEF states
    <2>4. QED
      BY <2>2, <2>3
  <1> HIDE DEF states
  <1>7. m \in Machines /\ m.es = begun /\ m.cs = states
    BY <1>2, <1>5 DEF Machines, Fit
  <1> HIDE DEF m
  <1>8. Failing \in SUBSET Cells /\ IsFiniteSet(Failing)
    <2>1. Failing \in SUBSET Cells
      BY NotebookAssumption DEF Failing
    <2>2. QED
      BY <2>1, NotebookAssumption, FS_Subset
  <1>9. FailedCells(m, Failing, n)
    <2>1. Fit(m.es)
      BY <1>2, <1>7
    <2>2. QED
      BY <1>7, <1>8, <2>1, FailEachFacts
  <1> HIDE DEF n
  <1>10. "failure" \in Channels /\ Drawn = Channels \ {"failure"} /\ Selected \subseteq Cells
    BY NotebookAssumption DEF Drawn
  <1>11. ASSUME NEW c \in Selected
         PROVE  LET configured == IF c \in Broken THEN Unconfigured
                                  ELSE Configured(Observed(c, owned))
                IN  /\ c \notin Failing => n.cs[c] = configured
                    /\ c \in Failing =>
                         /\ n.cs[c].expected = {"failure"}
                         /\ n.cs[c].errors = {"failure"} /\ n.cs[c].statuses["failure"] = "error"
                         /\ \A ch \in Drawn : n.cs[c].statuses[ch] = configured.statuses[ch]
                    /\ n.es.results[c].status \in Terminal =>
                         c \in Failing /\ n.es.results[c].status = "error"
    <2>1. begun.results[c].status \notin Terminal
      BY <1>2, <1>10 DEF NoTerminalResult
    <2>2. CASE c \in Failing
      BY <1>6, <1>7, <1>9, <1>10, <2>2 DEF FailedCells
    <2>3. CASE c \notin Failing
      <3>1. /\ n.cs[c] = m.cs[c]
            /\ n.es.results[c].status \in Terminal => n.es.results[c] = m.es.results[c]
        BY <1>9, <1>10, <2>3 DEF FailedCells
      <3>2. QED
        BY <1>6, <1>7, <2>1, <2>3, <3>1
    <2>4. QED
      BY <2>2, <2>3
  <1>12. n.es.pending = Selected \ Failing /\ Regular(n.es)
    <2>1. begun.pending = Selected
      <3>1. ASSUME NEW c \in begun.pending
            PROVE  c \in Selected
        <4>1. c \in Cells /\ begun.results[c].status = "pending"
          BY <1>2 DEF Fit, Coherent
        <4>2. begun.results[c] # NoResult
          BY <4>1 DEF NoResult
        <4>3. QED
          BY <1>2, <4>1, <4>2 DEF Fit, Coherent
      <3>2. QED
        BY <1>2, <3>1
    <2>2. Counts(m.es, n.es, m.es.pending \ (Failing \cap Selected))
      BY <1>9 DEF FailedCells
    <2>3. QED
      BY <1>2, <1>7, <2>1, <2>2 DEF Counts
  <1>13. /\ n \in Machines /\ Fit(n.es) /\ n.es.attempt = s.attempt + 1
    BY <1>2, <1>7, <1>9 DEF FailedCells
  <1>14. QED
    BY <1>1, <1>11, <1>12, <1>13 DEF Renders

-----------------------------------------------------------------------------
(* Cells and their variables *)

Marks == {"unobserved", "dirty", "running"} \cup Terminal
Phases == [Cells -> [Drawn -> Marks]]

\* What a cell state knows of its variables, whose phases are p, and how its
\* result judges what it knows.
Agrees(c, k, p, result) ==
  /\ k.errors = {ch \in Channels : k.statuses[ch] = "error"}
  /\ c \in Failing => "failure" \in k.errors /\ k.expected = {"failure"}
  /\ c \notin Failing =>
       k.statuses["failure"] = "absent" /\ k.expected = {ch \in Drawn : p[ch] # "unobserved"}
  /\ \A ch \in Drawn :
       /\ p[ch] = "unobserved" => k.statuses[ch] = "absent"
       /\ p[ch] = "running" => k.statuses[ch] = "pending"
       /\ p[ch] \in Terminal => k.statuses[ch] = p[ch]
  /\ result.status \in Terminal => (result.status = "error" <=> k.errors # {})

BrokenUnobserved == \A c \in Broken, ch \in Drawn : phase[c][ch] = "unobserved"
CellsAgree == \A c \in Selected : Agrees(c, cs[c], phase[c], es.results[c])
\* The parts of the state that a running evaluation keeps in step.
Evaluating ==
  Fit(es) /\ cs \in CellStates /\ phase \in Phases /\ BrokenUnobserved /\ CellsAgree

LEMMA MarkFacts ==
  ASSUME phase \in Phases, NEW V, NEW mark \in Marks, Mark(V, mark)
  PROVE  /\ phase' \in Phases
         /\ \A c \in Cells, ch \in Drawn :
              phase'[c][ch] = IF <<c, ch>> \in V THEN mark ELSE phase[c][ch]
  BY DEF Mark, Phases, Drawn

\* A step marks one variable, with how it ended.
MarkedAs(c, ch, outcome) == Mark({<<c, ch>>}, outcome)

\* The mark of one variable that has ended.
LEMMA MarkedOne ==
  ASSUME phase \in Phases, NEW c \in Cells, NEW ch \in Drawn, NEW outcome \in Terminal,
         MarkedAs(c, ch, outcome)
  PROVE  /\ phase' \in Phases
         /\ \A d \in Cells, h \in Drawn :
              phase'[d][h] = IF d = c /\ h = ch THEN outcome ELSE phase[d][h]
  <1> DEFINE V == {<<c, ch>>}
  <1>1. outcome \in Marks
    BY DEF Marks
  <1>2. \A d \in Cells, h \in Drawn : <<d, h>> \in V <=> d = c /\ h = ch
    OBVIOUS
  <1>3. Mark(V, outcome)
    BY DEF MarkedAs
  <1> HIDE DEF V
  <1>4. /\ phase' \in Phases
        /\ \A d \in Cells, h \in Drawn :
             phase'[d][h] = IF <<d, h>> \in V THEN outcome ELSE phase[d][h]
    BY <1>1, <1>3, MarkFacts
  <1>5. QED
    BY <1>2, <1>4

\* An input change opens a revision that reaches what is affected.
LEMMA BeginAffectedFacts ==
  ASSUME Fit(es), NEW roots, BeginAffected(roots)
  PROVE  /\ Fit(es') /\ es'.attempt = es.attempt /\ KeepsResults(es, es')
         /\ es.pending \subseteq es'.pending
         /\ Affected(roots) \cap Selected \subseteq es'.pending
  <1> DEFINE affected == Affected(roots)
             t == BeginInput(es, es.attempt, affected)
  <1>1. affected \in SUBSET Cells /\ es \in State /\ ~es.closed /\ Coherent(es)
    BY DEF Affected, Reached, Fit
  <1>2. es' = t
    BY DEF BeginAffected
  <1> HIDE DEF affected
  <1>3. Continues(es, t)
    BY <1>1, BeginInputFacts DEF Coherent, Recorded
  <1>4. Opened(es, affected \cap es.selected, t)
    BY <1>1, BeginInputCoherent
  <1> HIDE DEF t
  <1>5. Fit(t)
    BY <1>3, <1>4 DEF Continues, Opened, Fit
  <1>6. es.pending \subseteq t.pending
    <2>1. \A c \in es.pending : c \in Cells /\ es.results[c].status = "pending"
      BY <1>1 DEF Coherent
    <2>2. NoResult.status # "pending"
      BY DEF NoResult
    <2>3. \A c \in Cells : es.results[c] # NoResult => c \in es.selected
      BY <1>1 DEF Coherent
    <2>4. QED
      BY <1>4, <2>1, <2>2, <2>3 DEF Opened
  <1>7. affected \cap Selected \subseteq t.pending
    BY <1>4 DEF Opened, Fit
  <1>8. QED
    BY <1>2, <1>3, <1>5, <1>6, <1>7 DEF Continues, affected

LEMMA BeginAffectedCounts ==
  ASSUME Fit(es), NEW roots, BeginAffected(roots), Regular(es)
  PROVE  Regular(es') /\ es'.pending = es.pending \cup (Reached(roots, Cells) \cap Selected)
  <1>1. /\ Affected(roots) \in SUBSET Cells /\ es \in State /\ ~es.closed /\ Coherent(es)
        /\ es.selected = Selected
    BY DEF Affected, Reached, Fit
  <1>2. Counts(es, BeginInput(es, es.attempt, Affected(roots)),
               es.pending \cup (Affected(roots) \cap es.selected))
    BY <1>1, BeginInputCounts
  <1>3. es' = BeginInput(es, es.attempt, Affected(roots))
    BY DEF BeginAffected
  <1>4. QED
    BY <1>1, <1>2, <1>3 DEF Counts, Affected

\* Marking observed variables dirty leaves what their cells know true, as long as
\* no terminal result appears.
LEMMA DirtyAgrees ==
  ASSUME Evaluating, phase' \in Phases, cs' = cs, KeepsResults(es, es'),
         \A c \in Cells, ch \in Drawn :
            \/ phase'[c][ch] = phase[c][ch]
            \/ phase'[c][ch] = "dirty" /\ phase[c][ch] # "unobserved"
  PROVE  BrokenUnobserved' /\ CellsAgree'
  <1>1. BrokenUnobserved /\ CellsAgree /\ phase \in Phases
    BY DEF Evaluating
  <1>2. BrokenUnobserved'
    BY <1>1, NotebookAssumption DEF BrokenUnobserved
  <1>3. ASSUME NEW c \in Selected
        PROVE  Agrees(c, cs[c], phase'[c], es'.results[c])
    <2>1. c \in Cells /\ Agrees(c, cs[c], phase[c], es.results[c])
      BY <1>1, NotebookAssumption DEF CellsAgree
    <2>2. \A ch \in Drawn : phase'[c][ch] = phase[c][ch] \/
             (phase'[c][ch] = "dirty" /\ phase[c][ch] # "unobserved")
      BY <2>1
    <2>3. {ch \in Drawn : phase'[c][ch] # "unobserved"} = {ch \in Drawn : phase[c][ch] # "unobserved"}
      BY <2>2
    <2>4. es'.results[c].status \in Terminal => es'.results[c] = es.results[c]
      BY <2>1 DEF KeepsResults
    <2>5. \A ch \in Drawn : phase'[c][ch] # "dirty" => phase'[c][ch] = phase[c][ch]
      BY <2>2
    <2>6. "dirty" \notin {"unobserved", "running"} \cup Terminal
      BY DEF Terminal
    <2>7. QED
      BY <2>1, <2>3, <2>4, <2>5, <2>6 DEF Agrees
  <1>4. QED
    BY <1>2, <1>3 DEF CellsAgree

LEMMA SameResults == \A s : KeepsResults(s, s)
  BY DEF KeepsResults

\* A cell that still waits after an outcome waits for a variable to be evaluated.
LEMMA NotReadyBusy ==
  ASSUME NEW c \in Selected, NEW k, NEW p \in [Drawn -> Marks], NEW result,
         Agrees(c, k, p, result), ~NoneAwaited(k)
  PROVE  \E ch \in Drawn : p[ch] \in {"dirty", "running"}
  <1>1. PICK ch \in k.expected : k.statuses[ch] = "pending"
    BY DEF NoneAwaited
  <1>2. "failure" \in Channels
    BY NotebookAssumption
  <1>3. c \notin Failing
    BY <1>1, <1>2 DEF Agrees
  <1>4. ch \in Drawn /\ p[ch] \in Marks /\ p[ch] # "unobserved"
    BY <1>1, <1>3 DEF Agrees
  <1>5. p[ch] \in {"dirty", "running"}
    BY <1>1, <1>4 DEF Agrees, Marks, Terminal
  <1>6. QED
    BY <1>4, <1>5

\* After an outcome the cell is pending only if it is still to be evaluated, and
\* while it is not ready; no other cell changes.
\* A cell that waits for nothing, and has nothing dirty, has nothing to evaluate.
LEMMA ReadyNotRunning ==
  ASSUME NEW c \in Cells \ Failing, NEW k, NEW p, NEW result, Agrees(c, k, p, result), NoneAwaited(k)
  PROVE  \A ch \in Drawn : p[ch] # "running"
  BY DEF Agrees, NoneAwaited

-----------------------------------------------------------------------------
(* Announcements and outcomes *)

LEMMA VariablesFinite ==
  ASSUME NEW S \in SUBSET (Cells \X Drawn)
  PROVE  IsFiniteSet(S)
  <1>1. IsFiniteSet(Drawn)
    <2>1. IsFiniteSet({"display"}) /\ IsFiniteSet({"variable"})
      BY FS_Singleton
    <2>2. Drawn = {"display"} \cup {"variable"}
      BY DEF Drawn
    <2>3. QED
      BY <2>1, <2>2, FS_Union
  <1>2. IsFiniteSet(Cells \X Drawn)
    BY <1>1, NotebookAssumption, FS_Product
  <1>3. QED
    BY <1>2, FS_Subset

\* An outcome reaches its cell while every other variable stays, or becomes dirty.
LEMMA DeliveredAgrees ==
  ASSUME Evaluating, NEW c \in Cells, NEW ch \in Drawn, NEW outcome \in Terminal,
         Delivered(c, ch, outcome), phase' \in Phases,
         phase[c][ch] # "unobserved", phase'[c][ch] \in {outcome, "dirty"},
         \A d \in Cells, h \in Drawn : <<d, h>> # <<c, ch>> =>
            \/ phase'[d][h] = phase[d][h]
            \/ phase'[d][h] = "dirty" /\ phase[d][h] # "unobserved"
  PROVE  /\ Fit(es') /\ es'.attempt = es.attempt /\ cs' \in CellStates
         /\ BrokenUnobserved' /\ CellsAgree'
  <1> DEFINE m == [es |-> es, cs |-> cs]
             n == Deliver(m, c, ch, outcome)
  <1>1. /\ m \in Machines /\ Fit(m.es) /\ m.es = es /\ m.cs = cs
        /\ BrokenUnobserved /\ CellsAgree /\ cs \in CellStates
    BY DEF Evaluating, Machines, Fit
  <1> HIDE DEF m
  <1>2. es' = n.es /\ cs' = n.cs
    BY DEF Delivered, m
  <1>3. /\ ch \in Channels \ {"failure"} /\ Drawn = Channels \ {"failure"}
        /\ outcome # "unobserved" /\ Selected \subseteq Cells /\ Broken \subseteq Cells
    BY NotebookAssumption DEF Drawn, Terminal
  <1>4. BrokenUnobserved'
    <2>1. c \notin Broken
      BY <1>1 DEF BrokenUnobserved
    <2>2. QED
      BY <1>1, <1>3, <2>1 DEF BrokenUnobserved
  <1>5. /\ Fit(es') /\ es'.attempt = es.attempt /\ cs' \in CellStates
        /\ \A d \in Selected \ {c} : cs'[d] = cs[d] /\
             (es'.results[d].status \in Terminal => es'.results[d] = es.results[d])
        /\ c \in Selected =>
             /\ cs'[c] = Noted(cs[c], ch, outcome, (cs[c].errors \ {ch}) \cup Failed(ch, outcome))
             /\ es'.results[c].status \in Terminal =>
                  (es'.results[c].status = "error" <=> cs'[c].errors # {})
    <2>1. CASE c \notin Selected
      <3>1. n = m
        BY <2>1 DEF Deliver
      <3>2. QED
        BY <1>1, <1>2, <2>1, <3>1
    <2>2. CASE c \in Selected
      <3>1. Judged(m, c, ch, outcome, n)
        BY <1>1, <1>3, <2>2, DeliverFacts
      <3>2. n.cs = [cs EXCEPT ![c] = Noted(cs[c], ch, outcome,
                                           (cs[c].errors \ {ch}) \cup Failed(ch, outcome))]
        BY <1>1, <3>1 DEF Judged
      <3> HIDE DEF n
      <3>3. /\ Fit(n.es) /\ n.es.attempt = es.attempt /\ n.cs \in CellStates
            /\ \A d \in Cells \ {c} : n.es.results[d].status \in Terminal =>
                                        n.es.results[d] = es.results[d]
            /\ n.es.results[c].status \in Terminal =>
                 (n.es.results[c].status = "error" <=> n.cs[c].errors # {})
        BY <1>1, <3>1 DEF Judged, Machines
      <3>4. /\ n.cs[c] = Noted(cs[c], ch, outcome, (cs[c].errors \ {ch}) \cup Failed(ch, outcome))
            /\ \A d \in Cells \ {c} : n.cs[d] = cs[d]
        BY <1>1, <3>2 DEF CellStates
      <3>5. QED
        BY <1>2, <1>3, <2>2, <3>3, <3>4
    <2>3. QED
      BY <2>1, <2>2
  <1>6. ASSUME NEW d \in Selected
        PROVE  Agrees(d, cs'[d], phase'[d], es'.results[d])
    <2>1. Agrees(d, cs[d], phase[d], es.results[d]) /\ d \in Cells
      BY <1>1, <1>3 DEF CellsAgree
    <2>2. CASE d # c
      <3>1. /\ cs'[d] = cs[d]
            /\ es'.results[d].status \in Terminal => es'.results[d] = es.results[d]
        BY <1>5, <2>2
      <3>2. \A h \in Drawn : phase'[d][h] = phase[d][h] \/
               (phase'[d][h] = "dirty" /\ phase[d][h] # "unobserved")
        BY <2>1, <2>2
      <3>3. {h \in Drawn : phase'[d][h] # "unobserved"} = {h \in Drawn : phase[d][h] # "unobserved"}
        BY <3>2
      <3>4. \A h \in Drawn : phase'[d][h] # "dirty" => phase'[d][h] = phase[d][h]
        BY <3>2
      <3>5. QED
        BY <2>1, <3>1, <3>3, <3>4 DEF Agrees, Terminal
    <2>3. CASE d = c
      <3> DEFINE k == cs'[c]
                 errors == (cs[c].errors \ {ch}) \cup Failed(ch, outcome)
      <3>1. /\ k.expected = cs[c].expected
            /\ k.errors = (cs[c].errors \ {ch}) \cup Failed(ch, outcome)
            /\ k.statuses[ch] = outcome
            /\ \A h \in Channels \ {ch} : k.statuses[h] = cs[c].statuses[h]
        <4>1. errors \in SUBSET Channels
          BY <1>1, <1>3 DEF CellStates, Failed
        <4>2. k = Noted(cs[c], ch, outcome, errors)
          BY <1>5, <2>3
        <4> HIDE DEF k, errors
        <4>3. /\ k.expected = cs[c].expected /\ k.errors = errors /\ k.statuses[ch] = outcome
              /\ \A h \in Channels \ {ch} : k.statuses[h] = cs[c].statuses[h]
          <5>1. IsNoted(cs[c], Noted(cs[c], ch, outcome, errors), ch, outcome, errors)
            BY <1>1, <1>3, NotedFields
          <5>2. QED
            BY <4>2, <5>1 DEF IsNoted
        <4>4. QED
          BY <4>3 DEF errors
      <3>2. es'.results[c].status \in Terminal => (es'.results[c].status = "error" <=> k.errors # {})
        BY <1>5, <2>3
      <3> HIDE DEF k
      <3>3. \A h \in Drawn : h # ch => phase'[c][h] = phase[c][h] \/
               (phase'[c][h] = "dirty" /\ phase[c][h] # "unobserved")
        OBVIOUS
      <3>4. {h \in Drawn : phase'[c][h] # "unobserved"} = {h \in Drawn : phase[c][h] # "unobserved"}
        BY <1>3, <3>3
      <3>5. k.errors = {h \in Channels : k.statuses[h] = "error"}
        BY <1>3, <2>1, <2>3, <3>1 DEF Agrees, Failed
      <3>6. ASSUME NEW h \in Drawn
            PROVE  /\ phase'[c][h] = "unobserved" => k.statuses[h] = "absent"
                   /\ phase'[c][h] = "running" => k.statuses[h] = "pending"
                   /\ phase'[c][h] \in Terminal => k.statuses[h] = phase'[c][h]
        BY <1>3, <2>1, <2>3, <3>1, <3>3 DEF Agrees, Terminal
      <3>7. /\ c \in Failing => "failure" \in k.errors /\ k.expected = {"failure"}
            /\ c \notin Failing => k.statuses["failure"] = "absent" /\
                 k.expected = {h \in Drawn : phase'[c][h] # "unobserved"}
        BY <1>3, <2>1, <2>3, <3>1, <3>4, NotebookAssumption DEF Agrees
      <3>8. Agrees(c, k, phase'[c], es'.results[c])
        BY <3>2, <3>5, <3>6, <3>7 DEF Agrees
      <3>9. QED
        BY <2>3, <3>8 DEF k
    <2>4. QED
      BY <2>2, <2>3
  <1>7. QED
    BY <1>4, <1>5, <1>6 DEF CellsAgree

\* Whatever is dirty is announced to its cell, and starts.
LEMMA AnnouncedAgrees ==
  ASSUME Evaluating, Frame, AnnounceAll
  PROVE  /\ Evaluating' /\ es'.attempt = es.attempt /\ es.pending \subseteq es'.pending
         /\ \A c \in Cells, ch \in Drawn :
              phase'[c][ch] = IF phase[c][ch] = "dirty" THEN "running" ELSE phase[c][ch]
         /\ \A c \in Selected, ch \in Drawn : phase[c][ch] = "dirty" => c \in es'.pending
         /\ Regular(es) => Regular(es')
  <1> DEFINE m == [es |-> es, cs |-> cs]
             S == Variables("dirty")
             n == AnnounceEach(m, S)
  <1>1. Mark(S, "running") /\ es' = n.es /\ cs' = n.cs
    BY DEF Frame, AnnounceAll, AnnounceEach
  <1>2. S \subseteq Cells \X Drawn /\ \A c \in Cells, ch \in Drawn : <<c, ch>> \in S <=> phase[c][ch] = "dirty"
    BY DEF Variables, Drawn
  <1> HIDE DEF S
  <1>4. /\ Fit(es) /\ cs \in CellStates /\ phase \in Phases /\ BrokenUnobserved /\ CellsAgree
        /\ Selected \subseteq Cells /\ Drawn \subseteq Channels
    BY NotebookAssumption DEF Evaluating, Drawn
  <1>5. m \in Machines /\ Fit(m.es) /\ m.es = es /\ m.cs = cs
    BY <1>4 DEF Machines, Fit
  <1>6. IsFiniteSet(S)
    BY <1>2, VariablesFinite
  <1> HIDE DEF m
  <1>7. AnnouncedAll(m, S, n)
    BY <1>2, <1>5, <1>6, AnnounceEachFacts
  <1> HIDE DEF n
  <1>8. /\ phase' \in Phases
        /\ \A c \in Cells, ch \in Drawn :
             phase'[c][ch] = IF <<c, ch>> \in S THEN "running" ELSE phase[c][ch]
    BY <1>1, <1>4, MarkFacts DEF Marks
  <1>10. BrokenUnobserved'
    BY <1>2, <1>4, <1>8, NotebookAssumption DEF BrokenUnobserved
  <1>11. ASSUME NEW c \in Selected
         PROVE  Agrees(c, cs'[c], phase'[c], es'.results[c])
    <2>1. c \in Cells /\ Agrees(c, cs[c], phase[c], es.results[c])
      BY <1>4 DEF CellsAgree
    <2>2. /\ cs'[c].expected = cs[c].expected
          /\ cs'[c].errors = {ch \in cs[c].errors : <<c, ch>> \notin S}
          /\ \A ch \in Channels :
               cs'[c].statuses[ch] = IF <<c, ch>> \in S THEN "pending" ELSE cs[c].statuses[ch]
          /\ es'.results[c].status \in Terminal =>
               es'.results[c] = es.results[c] /\ \A ch \in Channels : <<c, ch>> \notin S
      BY <1>1, <1>5, <1>7 DEF AnnouncedAll
    <2>3. \A ch \in Drawn : phase'[c][ch] = IF <<c, ch>> \in S THEN "running" ELSE phase[c][ch]
      BY <1>8, <2>1
    <2>4. \A ch \in Drawn : <<c, ch>> \in S <=> phase[c][ch] = "dirty"
      BY <1>2, <2>1
    <2>5. <<c, "failure">> \notin S /\ Channels = Drawn \cup {"failure"}
      BY <1>2, NotebookAssumption DEF Drawn
    <2> DEFINE k == cs'[c]
               p == phase'[c]
               result == es'.results[c]
    <2> HIDE DEF k, p, result
    <2>6. k.errors = {ch \in Channels : k.statuses[ch] = "error"}
      BY <2>1, <2>2 DEF Agrees, k
    <2>7. /\ c \in Failing => "failure" \in k.errors /\ k.expected = {"failure"}
          /\ c \notin Failing =>
               k.statuses["failure"] = "absent" /\ k.expected = {ch \in Drawn : p[ch] # "unobserved"}
      <3>1. {ch \in Drawn : p[ch] # "unobserved"} = {ch \in Drawn : phase[c][ch] # "unobserved"}
        BY <2>3, <2>4 DEF p
      <3>2. QED
        BY <2>1, <2>2, <2>5, <3>1 DEF Agrees, k
    <2>8. ASSUME NEW ch \in Drawn
          PROVE  /\ p[ch] = "unobserved" => k.statuses[ch] = "absent"
                 /\ p[ch] = "running" => k.statuses[ch] = "pending"
                 /\ p[ch] \in Terminal => k.statuses[ch] = p[ch]
      <3>1. /\ p[ch] = IF phase[c][ch] = "dirty" THEN "running" ELSE phase[c][ch]
            /\ k.statuses[ch] = IF phase[c][ch] = "dirty" THEN "pending" ELSE cs[c].statuses[ch]
        BY <2>2, <2>3, <2>4, <2>5 DEF k, p
      <3>2. /\ phase[c][ch] = "unobserved" => cs[c].statuses[ch] = "absent"
            /\ phase[c][ch] = "running" => cs[c].statuses[ch] = "pending"
            /\ phase[c][ch] \in Terminal => cs[c].statuses[ch] = phase[c][ch]
        BY <2>1 DEF Agrees
      <3>3. QED
        BY <3>1, <3>2 DEF Terminal
    <2>9. result.status \in Terminal => (result.status = "error" <=> k.errors # {})
      <3>1. (\A ch \in Channels : <<c, ch>> \notin S) => k.errors = cs[c].errors
        BY <2>1, <2>2 DEF Agrees, k
      <3>2. QED
        BY <2>1, <2>2, <3>1 DEF Agrees, result
    <2>10. Agrees(c, k, p, result)
      BY <2>6, <2>7, <2>8, <2>9 DEF Agrees
    <2>11. QED
      BY <2>10 DEF k, p, result
  <1>12. Fit(es') /\ es'.attempt = es.attempt /\ cs' \in CellStates
    BY <1>1, <1>5, <1>7 DEF AnnouncedAll, Machines
  <1>13. Evaluating'
    BY <1>8, <1>10, <1>11, <1>12 DEF Evaluating, CellsAgree
  <1>14. /\ es.pending \subseteq es'.pending
         /\ \A c \in Selected, ch \in Drawn : phase[c][ch] = "dirty" => c \in es'.pending
         /\ Regular(es) => Regular(es')
    BY <1>1, <1>2, <1>4, <1>5, <1>7 DEF AnnouncedAll, Counts
  <1>15. \A c \in Cells, ch \in Drawn :
          phase'[c][ch] = IF phase[c][ch] = "dirty" THEN "running" ELSE phase[c][ch]
    BY <1>2, <1>8
  <1>16. QED
    BY <1>12, <1>13, <1>14, <1>15

\* An outcome leaves the other cells pending, and its own unless nothing is awaited.
LEMMA DeliveredPending ==
  ASSUME Evaluating, NEW c \in Cells, NEW ch \in Drawn, NEW outcome \in Terminal,
         Delivered(c, ch, outcome)
  PROVE  /\ es.pending \ {c} \subseteq es'.pending
         /\ c \in Selected /\ c \notin es'.pending => NoneAwaited(cs'[c])
         /\ Regular(es) => Regular(es')
  <1> DEFINE m == [es |-> es, cs |-> cs]
             n == Deliver(m, c, ch, outcome)
  <1>1. m \in Machines /\ Fit(m.es) /\ m.es = es /\ m.cs = cs /\ ch \in Channels
    BY NotebookAssumption DEF Evaluating, Machines, Fit, Drawn
  <1> HIDE DEF m
  <1>2. es' = n.es /\ cs' = n.cs
    BY DEF Delivered, m
  <1>3. CASE c \notin Selected
    <2>1. n = m
      BY <1>3 DEF Deliver
    <2>2. QED
      BY <1>1, <1>2, <1>3, <2>1
  <1>4. CASE c \in Selected
    <2>1. Judged(m, c, ch, outcome, n)
      BY <1>1, <1>4, DeliverFacts
    <2> HIDE DEF n
    <2>2. QED
      BY <1>1, <1>2, <2>1 DEF Judged, Counts
  <1>5. QED
    BY <1>3, <1>4

-----------------------------------------------------------------------------
(* Renders *)

\* Everything that a render shows is dirty.
Shown(owned) ==
  [c \in Cells |-> [ch \in Drawn |-> IF ch \in Observed(c, owned) THEN "dirty" ELSE "unobserved"]]

LEMMA ObservedFacts ==
  ASSUME NEW owned \in SUBSET Ownable, NEW c \in Cells
  PROVE  /\ Observed(c, owned) \subseteq Drawn
         /\ c \in Broken => Observed(c, owned) = {}
         /\ c \in Exposing => "variable" \in Observed(c, owned)
         /\ c \notin Exposing => "variable" \notin Observed(c, owned)
         /\ c \in owned => Observed(c, owned) = {"variable"}
         /\ c \notin owned \cup Broken => "display" \in Observed(c, owned)
  BY NotebookAssumption DEF Observed, Drawn

\* A render of a state without results starts an evaluation of every cell.
LEMMA RenderedAgrees ==
  ASSUME NEW s \in State, ~s.closed, Coherent(s), NoTerminalResult(s), ~s.errors,
         NEW owned \in SUBSET Ownable
  PROVE  LET m == Rendered(s, owned)
             p == Shown(owned)
         IN  /\ Fit(m.es) /\ m.es.attempt = s.attempt + 1
             /\ m.es.pending = Selected \ Failing /\ Regular(m.es)
             /\ m.cs \in CellStates /\ p \in Phases
             /\ \A c \in Broken, ch \in Drawn : p[c][ch] = "unobserved"
             /\ \A c \in Selected : Agrees(c, m.cs[c], p[c], m.es.results[c])
  <1> DEFINE m == Rendered(s, owned)
             p == Shown(owned)
  <1>2. Renders(owned, m) /\ m.es.attempt = s.attempt + 1
    BY RenderedFacts
  <1> HIDE DEF m
  <1>3. m \in Machines /\ m.cs \in CellStates /\ Fit(m.es) /\ m.es.pending = Selected \ Failing /\ Regular(m.es)
    BY <1>2 DEF Renders, Machines
  <1>4. /\ p \in Phases
        /\ \A c \in Cells, ch \in Drawn :
             p[c][ch] = IF ch \in Observed(c, owned) THEN "dirty" ELSE "unobserved"
    BY DEF Shown, Phases, Marks
  <1> HIDE DEF p
  <1>7. \A c \in Cells : Observed(c, owned) \subseteq Drawn /\ (c \in Broken => Observed(c, owned) = {})
    BY ObservedFacts
  <1>8. \A c \in Broken, ch \in Drawn : p[c][ch] = "unobserved"
    BY <1>4, <1>7, NotebookAssumption
  <1>10. ASSUME NEW c \in Selected
         PROVE  Agrees(c, m.cs[c], p[c], m.es.results[c])
    <2> DEFINE channels == Observed(c, owned)
               configured == IF c \in Broken THEN Unconfigured ELSE Configured(channels)
    <2>1. c \in Cells /\ Channels = Drawn \cup {"failure"} /\ "failure" \notin Drawn
      BY NotebookAssumption DEF Drawn
    <2>2. /\ c \notin Failing => m.cs[c] = configured
          /\ c \in Failing =>
               /\ m.cs[c].expected = {"failure"}
               /\ m.cs[c].errors = {"failure"} /\ m.cs[c].statuses["failure"] = "error"
               /\ \A ch \in Drawn : m.cs[c].statuses[ch] = configured.statuses[ch]
          /\ m.es.results[c].status \in Terminal => c \in Failing /\ m.es.results[c].status = "error"
      BY <1>2 DEF Renders
    <2>3. channels \subseteq Drawn /\ (c \in Broken => channels = {})
      BY <1>7, <2>1
    <2>4. \A ch \in Drawn : p[c][ch] = IF ch \in channels THEN "dirty" ELSE "unobserved"
      BY <1>4, <2>1
    <2> HIDE DEF channels
    <2>5. /\ \A ch \in Channels :
               configured.statuses[ch] = IF ch \in channels THEN "pending" ELSE "absent"
          /\ c \notin Failing => configured.expected = channels /\ configured.errors = {}
      <3>1. CASE c \in Broken
        BY <2>3, <3>1 DEF Failing, Unconfigured
      <3>2. CASE c \notin Broken
        <4>1. configured = [expected |-> channels,
                            statuses |-> [ch \in Channels |-> IF ch \in channels THEN "pending"
                                                              ELSE "absent"],
                            errors |-> {}]
          BY <2>1, <2>3, <3>2, ConfiguredFields
        <4> HIDE DEF configured
        <4>2. QED
          BY <4>1
      <3>3. QED
        BY <3>1, <3>2
    <2> HIDE DEF configured
    <2>6. CASE c \in Failing
      BY <2>1, <2>2, <2>3, <2>4, <2>5, <2>6 DEF Agrees, Terminal
    <2>7. CASE c \notin Failing
      <3>1. channels = {ch \in Drawn : p[c][ch] # "unobserved"}
        BY <2>3, <2>4
      <3>2. QED
        BY <2>1, <2>2, <2>3, <2>4, <2>5, <2>7, <3>1 DEF Agrees, Terminal
    <2>8. QED
      BY <2>6, <2>7
  <1>11. QED
    BY <1>2, <1>3, <1>4, <1>8, <1>10 DEF m, p

-----------------------------------------------------------------------------
(* What leads to what in the graph *)

\* The cells reached from the roots contain them and are closed; they are the
\* least set of cells that does and is.
LEMMA ReachedClosed ==
  ASSUME NEW roots \in SUBSET Cells, NEW through
  PROVE  /\ roots \subseteq Reached(roots, through) /\ Reached(roots, through) \subseteq Cells
         /\ \A e \in Reached(roots, through) \cap through, d \in Cells :
              e \in Upstream[d] => d \in Reached(roots, through)
  BY DEF Reached

LEMMA ReachedLeast ==
  ASSUME NEW roots, NEW through, NEW closed \in SUBSET Cells, roots \subseteq closed,
         \A e \in closed \cap through, d \in Cells : e \in Upstream[d] => d \in closed
  PROVE  Reached(roots, through) \subseteq closed
  BY DEF Reached

=============================================================================
