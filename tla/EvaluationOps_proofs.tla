-------------------------- MODULE EvaluationOps_proofs --------------------------
(***************************************************************************)
(* What the operators of EvaluationOps preserve, for every state: the      *)
(* lemmas that the proofs about EvaluationState and NotebookMount share,   *)
(* and what those about folds share.                                       *)
(***************************************************************************)
EXTENDS EvaluationOps, FiniteSets, FiniteSetsExt, FiniteSetTheorems, TLAPS

-----------------------------------------------------------------------------
(* Folds over finite sets *)

\* pick takes an element of each set that has one.
Picks(S, pick) == \A T \in (SUBSET S) \ {{}} : pick[T] \in T

\* Induction over the subsets of a finite set, by the element that a fold takes.
LEMMA OrderedInduction ==
  ASSUME NEW S, IsFiniteSet(S), NEW pick, Picks(S, pick), NEW Good, {} \in Good,
         \A T \in (SUBSET S) \ {{}} : T \ {pick[T]} \in Good => T \in Good
  PROVE  \A T \in SUBSET S : T \in Good
  <1> DEFINE Bad == {T \in SUBSET S : T \notin Good}
  <1>1. SUFFICES ASSUME Bad # {}
                 PROVE  FALSE
    OBVIOUS
  <1>2. IsWellFoundedOn(StrictSubsetOrdering(S), SUBSET S)
    BY FS_StrictSubsetOrderingWellFounded, FS_FiniteSubsetsOfFinite
  <1>3. Bad \subseteq SUBSET S
    OBVIOUS
  <1> HIDE DEF Bad
  <1>4. PICK T \in Bad : \A U \in Bad : <<U, T>> \notin StrictSubsetOrdering(S)
    BY <1>1, <1>2, <1>3, WFMin
  <1>5. T # {} /\ T \in SUBSET S
    BY DEF Bad
  <1>6. pick[T] \in T
    BY <1>5 DEF Picks
  <1>7. <<T \ {pick[T]}, T>> \in StrictSubsetOrdering(S)
    BY <1>5, <1>6 DEF StrictSubsetOrdering
  <1>8. T \ {pick[T]} \in Good
    BY <1>4, <1>5, <1>7 DEF Bad
  <1>9. QED
    BY <1>4, <1>5, <1>8 DEF Bad

Foldable(S, V, base, Op) == IsFiniteSet(S) /\ base \in V /\ Op \in [S \X V -> V]

\* iter is the recursion that a fold of Op over S makes that takes elements as pick does.
OrderedFolds(S, V, base, Op, pick, iter) ==
  /\ iter \in [SUBSET S -> V]
  /\ iter[{}] = base
  /\ \A T \in (SUBSET S) \ {{}} : iter[T] = Op[<<pick[T], iter[T \ {pick[T]}]>>]

\* Every recursion of the form of a fold has a solution.
LEMMA OrderedFoldExists ==
  ASSUME NEW S, NEW V, NEW base, NEW Op, NEW pick, Picks(S, pick), Foldable(S, V, base, Op)
  PROVE  \E iter : OrderedFolds(S, V, base, Op, pick, iter)
  <1> DEFINE All == (SUBSET S) \X V
             Closed(R) == /\ <<{}, base>> \in R
                          /\ \A T \in (SUBSET S) \ {{}}, v \in V :
                               <<T \ {pick[T]}, v>> \in R => <<T, Op[<<pick[T], v>>]>> \in R
             Least == {p \in All : \A R \in SUBSET All : Closed(R) => p \in R}
             Good == {T \in SUBSET S : \E v \in V : \A w \in V : <<T, w>> \in Least <=> w = v}
  <1> USE DEF Foldable
  <1>1. \A T \in (SUBSET S) \ {{}} : pick[T] \in S /\ T \ {pick[T]} \in SUBSET S
    BY DEF Picks
  <1>2. \A x \in S, v \in V : Op[<<x, v>>] \in V
    OBVIOUS
  <1>3. Closed(Least)
    <2>1. <<{}, base>> \in Least
      OBVIOUS
    <2>2. ASSUME NEW T \in (SUBSET S) \ {{}}, NEW v \in V, <<T \ {pick[T]}, v>> \in Least
          PROVE  <<T, Op[<<pick[T], v>>]>> \in Least
      <3>1. <<T, Op[<<pick[T], v>>]>> \in All
        BY <1>1, <1>2
      <3>2. QED
        BY <2>2, <3>1
    <2>3. QED
      BY <2>1, <2>2
  <1>4. ASSUME NEW p \in Least, Closed(Least \ {p})
        PROVE  FALSE
    <2>1. Least \ {p} \in SUBSET All
      OBVIOUS
    <2>2. QED
      BY <1>4, <2>1
  <1> HIDE DEF Least
  <1>5. {} \in Good
    <2>1. ASSUME NEW w \in V, <<{}, w>> \in Least, w # base
          PROVE  FALSE
      <3>1. Closed(Least \ {<<{}, w>>})
        BY <1>3, <2>1
      <3>2. QED
        BY <1>4, <2>1, <3>1
    <2>2. QED
      BY <1>3, <2>1
  <1>6. ASSUME NEW T \in (SUBSET S) \ {{}}, T \ {pick[T]} \in Good
        PROVE  T \in Good
    <2>1. PICK v \in V : \A w \in V : <<T \ {pick[T]}, w>> \in Least <=> w = v
      BY <1>6
    <2> DEFINE u == Op[<<pick[T], v>>]
    <2>2. u \in V /\ <<T, u>> \in Least
      BY <1>1, <1>2, <1>3, <2>1
    <2>3. ASSUME NEW w \in V, <<T, w>> \in Least, w # u
          PROVE  FALSE
      <3>1. ASSUME NEW U \in (SUBSET S) \ {{}}, NEW x \in V,
                   <<U \ {pick[U]}, x>> \in Least \ {<<T, w>>}
            PROVE  <<U, Op[<<pick[U], x>>]>> \in Least \ {<<T, w>>}
        <4>1. <<U, Op[<<pick[U], x>>]>> \in Least
          BY <1>3, <3>1
        <4>2. CASE U # T
          BY <4>1, <4>2
        <4>3. CASE U = T
          BY <2>1, <2>3, <3>1, <4>1, <4>3
        <4>4. QED
          BY <4>2, <4>3
      <3>2. Closed(Least \ {<<T, w>>})
        BY <1>3, <3>1
      <3>3. QED
        BY <1>4, <2>3, <3>2
    <2>4. QED
      BY <2>2, <2>3
  <1>7. \A T \in SUBSET S : T \in Good
    <2> HIDE DEF Good
    <2>1. QED
      BY <1>5, <1>6, OrderedInduction
  <1> DEFINE iter == [T \in SUBSET S |-> CHOOSE v \in V : <<T, v>> \in Least]
  <1>8. \A T \in SUBSET S : iter[T] \in V /\ \A w \in V : <<T, w>> \in Least <=> w = iter[T]
    BY <1>7
  <1>9. iter \in [SUBSET S -> V]
    BY <1>8
  <1>10. iter[{}] = base
    BY <1>3, <1>8
  <1>11. ASSUME NEW T \in (SUBSET S) \ {{}}
         PROVE  iter[T] = Op[<<pick[T], iter[T \ {pick[T]}]>>]
    <2> HIDE DEF iter
    <2>1. T \ {pick[T]} \in SUBSET S /\ pick[T] \in S
      BY <1>1
    <2>2. iter[T \ {pick[T]}] \in V /\ <<T \ {pick[T]}, iter[T \ {pick[T]}]>> \in Least
      BY <1>8, <2>1
    <2>3. Op[<<pick[T], iter[T \ {pick[T]}]>>] \in V
      BY <1>2, <2>1, <2>2
    <2>4. <<T, Op[<<pick[T], iter[T \ {pick[T]}]>>]>> \in Least
      BY <1>3, <2>2
    <2>5. QED
      BY <1>8, <2>3, <2>4
  <1>12. QED
    BY <1>9, <1>10, <1>11 DEF OrderedFolds

\* A fold that takes any element.
Pick(s) == CHOOSE x \in s : TRUE

Picked(S) == [T \in SUBSET S |-> Pick(T)]

LEMMA PickPicks == \A S : Picks(S, Picked(S))
  BY DEF Picks, Picked, Pick

LEMMA SubsetInduction ==
  ASSUME NEW S, IsFiniteSet(S), NEW Good, {} \in Good,
         \A T \in (SUBSET S) \ {{}} : T \ {Pick(T)} \in Good => T \in Good
  PROVE  \A T \in SUBSET S : T \in Good
  <1> DEFINE pick == Picked(S)
  <1>1. \A T \in (SUBSET S) \ {{}} : pick[T] = Pick(T)
    BY DEF Picked
  <1>2. Picks(S, pick)
    BY PickPicks
  <1> HIDE DEF pick
  <1>3. QED
    BY <1>1, <1>2, OrderedInduction

Folds(S, V, base, Op, iter) ==
  /\ iter \in [SUBSET S -> V]
  /\ iter[{}] = base
  /\ \A T \in (SUBSET S) \ {{}} : iter[T] = Op[<<Pick(T), iter[T \ {Pick(T)}]>>]

LEMMA FoldExists ==
  ASSUME NEW S, NEW V, NEW base, NEW Op, Foldable(S, V, base, Op)
  PROVE  \E iter : Folds(S, V, base, Op, iter)
  <1> DEFINE pick == Picked(S)
  <1>1. \A T \in (SUBSET S) \ {{}} : pick[T] = Pick(T)
    BY DEF Picked
  <1>2. Picks(S, pick)
    BY PickPicks
  <1> HIDE DEF pick
  <1>3. PICK iter : OrderedFolds(S, V, base, Op, pick, iter)
    BY <1>2, OrderedFoldExists
  <1>4. QED
    BY <1>1, <1>3 DEF OrderedFolds, Folds

\* A fold from the left takes the last element last.
LEMMA LargestPicks ==
  ASSUME NEW n \in Nat
  PROVE  /\ IsFiniteSet(1 .. n)
         /\ \A T \in (SUBSET (1 .. n)) \ {{}} : Max(T) \in T /\ \A k \in T : k <= Max(T)
  <1> DEFINE S == 1 .. n
             Good == {T \in SUBSET S : T # {} => \E m \in T : \A k \in T : k <= m}
  <1>1. IsFiniteSet(S)
    BY FS_Interval
  <1>2. {} \in Good
    OBVIOUS
  <1>3. ASSUME NEW T \in (SUBSET S) \ {{}}, T \ {Pick(T)} \in Good
        PROVE  T \in Good
    <2> DEFINE p == Pick(T)
    <2>1. p \in T /\ T \subseteq Nat
      BY DEF Pick
    <2> HIDE DEF p
    <2>2. CASE T \ {p} = {}
      <3>1. \A k \in T : k = p
        BY <2>2
      <3>2. QED
        BY <2>1, <3>1
    <2>3. CASE T \ {p} # {}
      <3>1. PICK m \in T \ {p} : \A k \in T \ {p} : k <= m
        BY <1>3, <2>3 DEF p
      <3>2. CASE p <= m
        BY <2>1, <3>1, <3>2
      <3>3. CASE m <= p
        <4>1. \A k \in T : k <= p
          BY <2>1, <3>1, <3>3
        <4>2. QED
          BY <2>1, <4>1
      <3>4. QED
        BY <2>1, <3>1, <3>2, <3>3
    <2>4. QED
      BY <2>2, <2>3
  <1> HIDE DEF Good
  <1>4. \A T \in SUBSET S : T \in Good
    BY <1>1, <1>2, <1>3, SubsetInduction
  <1>5. ASSUME NEW T \in (SUBSET S) \ {{}}
        PROVE  Max(T) \in T /\ \A k \in T : k <= Max(T)
    <2>1. \E m \in T : \A k \in T : m >= k
      BY <1>4, <1>5 DEF Good
    <2>2. QED
      BY <2>1 DEF Max
  <1>6. QED
    BY <1>1, <1>5

\* Induction over the prefixes of a sequence.
LEMMA PrefixInduction ==
  ASSUME NEW n \in Nat, NEW Good, 0 \in Good, \A i \in 1 .. n : i - 1 \in Good => i \in Good
  PROVE  \A i \in 0 .. n : i \in Good
  <1> DEFINE S == 1 .. n
             pick == [T \in SUBSET S |-> Max(T)]
             Fine == {T \in SUBSET S : \A i \in 0 .. n : T = 1 .. i => i \in Good}
  <1>1. IsFiniteSet(S) /\ \A T \in (SUBSET S) \ {{}} :
          pick[T] = Max(T) /\ pick[T] \in T /\ \A k \in T : k <= pick[T]
    BY LargestPicks
  <1>2. Picks(S, pick)
    BY <1>1 DEF Picks
  <1>3. {} \in Fine
    <2>1. ASSUME NEW i \in 0 .. n, {} = 1 .. i
          PROVE  i = 0
      <3>1. i \notin 1 .. i
        BY <2>1
      <3>2. QED
        BY <3>1
    <2>2. QED
      BY <2>1
  <1> HIDE DEF pick
  <1>4. ASSUME NEW T \in (SUBSET S) \ {{}}, T \ {pick[T]} \in Fine
        PROVE  T \in Fine
    <2>1. ASSUME NEW i \in 0 .. n, T = 1 .. i
          PROVE  i \in Good
      <3>1. i # 0
        BY <2>1
      <3>2. pick[T] = i
        BY <1>1, <2>1, <3>1
      <3>3. T \ {pick[T]} = 1 .. (i - 1) /\ i - 1 \in 0 .. n
        BY <2>1, <3>1, <3>2
      <3>4. i - 1 \in Good
        BY <1>4, <3>3
      <3>5. QED
        BY <3>1, <3>4
    <2>2. QED
      BY <2>1
  <1>5. \A T \in SUBSET S : T \in Fine
    <2> HIDE DEF Fine, S
    <2>1. QED
      BY <1>1, <1>2, <1>3, <1>4, OrderedInduction
  <1>6. ASSUME NEW i \in 0 .. n
        PROVE  i \in Good
    <2>1. 1 .. i \in SUBSET S
      OBVIOUS
    <2>2. 1 .. i \in Fine
      BY <1>5, <2>1
    <2>3. QED
      BY <2>2
  <1>7. QED
    BY <1>6

\* iter is the recursion that a fold from the left over n elements makes.
LeftFolds(n, V, base, Op, iter) ==
  /\ iter \in [SUBSET (1 .. n) -> V]
  /\ iter[{}] = base
  /\ \A T \in (SUBSET (1 .. n)) \ {{}} : iter[T] = Op[<<Max(T), iter[T \ {Max(T)}]>>]

LEMMA LeftFoldExists ==
  ASSUME NEW n \in Nat, NEW V, NEW base \in V, NEW Op \in [(1 .. n) \X V -> V]
  PROVE  \E iter : LeftFolds(n, V, base, Op, iter)
  <1> DEFINE S == 1 .. n
             pick == [T \in SUBSET S |-> Max(T)]
  <1>1. IsFiniteSet(S) /\ \A T \in (SUBSET S) \ {{}} : pick[T] = Max(T) /\ pick[T] \in T
    BY LargestPicks
  <1>2. Picks(S, pick) /\ Foldable(S, V, base, Op)
    BY <1>1 DEF Picks, Foldable
  <1> HIDE DEF pick
  <1>3. PICK iter : OrderedFolds(S, V, base, Op, pick, iter)
    BY <1>2, OrderedFoldExists
  <1>4. LeftFolds(n, V, base, Op, iter)
    <2>1. iter \in [SUBSET S -> V] /\ iter[{}] = base
      BY <1>3 DEF OrderedFolds
    <2>2. ASSUME NEW T \in (SUBSET S) \ {{}}
          PROVE  iter[T] = Op[<<Max(T), iter[T \ {Max(T)}]>>]
      <3>1. iter[T] = Op[<<pick[T], iter[T \ {pick[T]}]>>]
        BY <1>3 DEF OrderedFolds
      <3>2. QED
        BY <1>1, <3>1
    <2>3. QED
      BY <2>1, <2>2 DEF LeftFolds
  <1>5. QED
    BY <1>4

\* What such a recursion makes of each prefix.
LEMMA LeftFoldPrefixes ==
  ASSUME NEW n \in Nat, NEW i \in 1 .. n
  PROVE  /\ 1 .. i \in (SUBSET (1 .. n)) \ {{}}
         /\ Max(1 .. i) = i /\ (1 .. i) \ {Max(1 .. i)} = 1 .. (i - 1)
  <1>1. 1 .. i \in (SUBSET (1 .. n)) \ {{}} /\ i \in 1 .. i
    OBVIOUS
  <1>2. Max(1 .. i) \in 1 .. i /\ i <= Max(1 .. i)
    BY <1>1, LargestPicks
  <1>3. Max(1 .. i) = i
    BY <1>2
  <1>4. (1 .. i) \ {i} = 1 .. (i - 1)
    OBVIOUS
  <1>5. QED
    BY <1>1, <1>3, <1>4

-----------------------------------------------------------------------------
(* The operators of EvaluationOps *)

KeepsResults(s, t) ==
  \A c \in Cells : t.results[c].status \in Terminal => t.results[c] = s.results[c]

NoTerminalResult(s) == \A c \in Cells : s.results[c].status \notin Terminal

-----------------------------------------------------------------------------
(* Terminal results and tokens *)

LEMMA NoRevisionIsInt == NoRevision \in Int
  BY DEF NoRevision

\* What openRevision leaves: a new number, and no terminal result but those the
\* change does not reach.
Reopens(s, affected, t) ==
  /\ t \in State
  /\ t.attempt = s.attempt /\ t.closed = s.closed /\ t.selected = s.selected
  /\ t.inputRevision = s.inputRevision + 1
  /\ t.channelGenerations = s.channelGenerations
  /\ t.minimumTokenRevisions =
       [c \in Cells |-> IF c \in affected THEN s.inputRevision + 1
                        ELSE s.minimumTokenRevisions[c]]
  /\ \A c \in Cells : t.results[c].status \in Terminal =>
       c \in s.selected /\ c \notin affected /\ t.results[c] = s.results[c]

LEMMA OpenRevisionFacts ==
  ASSUME NEW s \in State, NEW affected \in SUBSET Cells
  PROVE  Reopens(s, affected, OpenRevision(s, affected))
  <1> DEFINE revision == s.inputRevision + 1
             reopened == {c \in s.selected : c \in affected \/ s.results[c] = NoResult}
             running  == StillRunning(s, reopened)
             results  == [c \in Cells |-> IF c \in reopened THEN PendingResult(revision)
                                          ELSE IF c \in s.selected THEN s.results[c]
                                          ELSE NoResult]
             minimum  == [c \in Cells |-> IF c \in affected THEN revision
                                          ELSE s.minimumTokenRevisions[c]]
  <1>1. /\ revision \in Int
        /\ reopened \cup running \in SUBSET Cells
        /\ minimum \in [Cells -> Int]
    BY DEF State, StillRunning
  <1>2. results \in [Cells -> Result]
    BY DEF State, Result, PendingResult, NoResult, NoRevision
  <1>3. \A c \in Cells : results[c].status \in Terminal =>
                  c \in s.selected /\ c \notin affected /\ results[c] = s.results[c]
    BY DEF State, Result, PendingResult, NoResult, Terminal
  <1> DEFINE t == OpenRevision(s, affected)
             settled == SettledOnOpening(s, revision, reopened \cup running)
  <1>4. t = [s EXCEPT !.inputRevision = revision, !.errors = FALSE, !.settlement = NoRevision,
                      !.results = results, !.pending = reopened \cup running,
                      !.minimumTokenRevisions = minimum, !.settledRevision = settled]
    BY Zenon DEF OpenRevision
  <1>5. settled \in Int
    BY <1>1 DEF State, SettledOnOpening
  <1> HIDE DEF revision, reopened, running, results, minimum, settled, t
  <1>6. t \in State
    BY <1>1, <1>2, <1>4, <1>5, NoRevisionIsInt DEF State
  <1>7. /\ t.attempt = s.attempt /\ t.closed = s.closed /\ t.selected = s.selected
        /\ t.inputRevision = revision
        /\ t.channelGenerations = s.channelGenerations
        /\ t.minimumTokenRevisions = minimum
        /\ t.results = results
    BY <1>4 DEF State
  <1>8. QED
    BY <1>3, <1>6, <1>7 DEF Reopens, t, revision, minimum

LEMMA StartFacts ==
  ASSUME NEW s \in State
  PROVE  LET t == Start(s)
         IN  /\ t \in State
             /\ t.attempt = s.attempt + 1 /\ t.closed = s.closed
             /\ t.inputRevision = s.inputRevision
             /\ t.results = s.results
  <1> DEFINE attempt == s.attempt + 1
             generations == [c \in Cells |-> [ch \in Channels |-> 0]]
             minimum == [c \in Cells |-> NoRevision]
             t == Start(s)
  <1>1. attempt \in Nat
    BY DEF State
  <1>2. generations \in [Cells -> [Channels -> Nat]] /\ minimum \in [Cells -> Int]
    BY NoRevisionIsInt
  <1>3. t = [s EXCEPT !.attempt = attempt, !.settlement = NoRevision,
                      !.channelGenerations = generations, !.minimumTokenRevisions = minimum]
    BY Zenon DEF Start
  <1> HIDE DEF attempt, generations, minimum, t
  <1>4. t \in State
    BY <1>1, <1>2, <1>3, NoRevisionIsInt DEF State
  <1>5. /\ t.attempt = attempt /\ t.closed = s.closed
        /\ t.inputRevision = s.inputRevision /\ t.results = s.results
    BY <1>3 DEF State
  <1>6. QED
    BY <1>4, <1>5 DEF t, attempt

LEMMA FailFacts ==
  ASSUME NEW s \in State, NEW attempt, IsCurrent(s, attempt), s.inputRevision >= NoRevision
  PROVE  LET t == Fail(s, attempt)
         IN  /\ t \in State
             /\ t.attempt = s.attempt /\ t.closed = s.closed /\ t.selected = s.selected
             /\ t.inputRevision >= s.inputRevision /\ t.inputRevision # NoRevision
             /\ t.minimumTokenRevisions = s.minimumTokenRevisions
             /\ NoTerminalResult(t)
  <1> DEFINE revision == IF s.inputRevision = NoRevision THEN 0
                         ELSE IF s.pending = {} THEN s.inputRevision + 1
                         ELSE s.inputRevision
             none == [c \in Cells |-> NoResult]
             t == Fail(s, attempt)
  <1>1. revision \in Int /\ revision >= s.inputRevision /\ revision # NoRevision
    BY DEF State, NoRevision
  <1>2. none \in [Cells -> Result] /\ \A c \in Cells : none[c].status \notin Terminal
    BY DEF NoResult, Result, NoRevision, Terminal
  <1>3. t = [s EXCEPT !.inputRevision = revision, !.settledRevision = revision,
                      !.pending = {}, !.results = none, !.errors = TRUE]
    BY Zenon DEF Fail
  <1> HIDE DEF revision, none, t
  <1>4. t \in State
    BY <1>1, <1>2, <1>3 DEF State
  <1>5. /\ t.attempt = s.attempt /\ t.closed = s.closed /\ t.selected = s.selected
        /\ t.inputRevision = revision
        /\ t.minimumTokenRevisions = s.minimumTokenRevisions
        /\ t.results = none
    BY <1>3 DEF State
  <1>6. QED
    BY <1>1, <1>2, <1>4, <1>5 DEF NoTerminalResult, t

LEMMA InvalidateFacts ==
  ASSUME NEW s \in State, ~s.closed, s.inputRevision >= NoRevision,
         s.inputRevision = NoRevision => NoTerminalResult(s)
  PROVE  LET t == Invalidate(s)
         IN  /\ t \in State
             /\ t.attempt = s.attempt + 1 /\ t.closed = s.closed
             /\ t.inputRevision >= s.inputRevision
             /\ NoTerminalResult(t)
  <1> DEFINE attempt == s.attempt + 1
             u == [s EXCEPT !.attempt = attempt, !.settlement = NoRevision, !.errors = FALSE]
             v == OpenRevision(u, u.selected)
  <1>0. attempt \in Nat
    BY DEF State
  <1> HIDE DEF attempt
  <1>1. /\ u \in State
        /\ u.attempt = attempt /\ u.closed = s.closed
        /\ u.inputRevision = s.inputRevision
        /\ u.results = s.results
        /\ u.selected \in SUBSET Cells
    BY <1>0, NoRevisionIsInt DEF State
  <1> HIDE DEF u
  <1>2. Reopens(u, u.selected, v)
    BY <1>1, OpenRevisionFacts
  <1> HIDE DEF v
  <1>3. Invalidate(s) = IF s.inputRevision = NoRevision THEN u ELSE v
    BY Zenon DEF Invalidate, u, v, attempt
  <1>4. s.inputRevision \in Int
    BY DEF State
  <1>5. CASE s.inputRevision = NoRevision
    BY <1>1, <1>3, <1>4, <1>5 DEF NoTerminalResult, NoRevision, attempt
  <1>6. CASE s.inputRevision # NoRevision
    BY <1>1, <1>2, <1>3, <1>4, <1>6 DEF Reopens, NoTerminalResult, NoRevision, attempt
  <1>7. QED
    BY <1>5, <1>6

LEMMA BeginFacts ==
  ASSUME NEW s \in State, NEW attempt, NEW selection \in SUBSET Cells,
         s.inputRevision >= NoRevision,
         s.inputRevision = NoRevision => NoTerminalResult(s)
  PROVE  LET t == Begin(s, attempt, selection)
         IN  /\ t \in State
             /\ t.attempt = s.attempt /\ t.closed = s.closed
             /\ t.inputRevision >= s.inputRevision
             /\ t.inputRevision = NoRevision => NoTerminalResult(t)
             /\ KeepsResults(s, t)
  <1> DEFINE u == [s EXCEPT !.selected = selection]
             v == OpenRevision(u, selection)
  <1>1. /\ u \in State
        /\ u.attempt = s.attempt /\ u.closed = s.closed
        /\ u.inputRevision = s.inputRevision
        /\ u.results = s.results
    BY DEF State
  <1> HIDE DEF u
  <1>2. Reopens(u, selection, v)
    BY <1>1, OpenRevisionFacts
  <1> HIDE DEF v
  <1>3. Begin(s, attempt, selection) \in {s, u, v}
    BY Zenon DEF Begin, u, v
  <1>4. s.inputRevision \in Int
    BY DEF State
  <1>5. QED
    BY <1>1, <1>2, <1>3, <1>4 DEF Reopens, NoTerminalResult, KeepsResults, NoRevision

\* The same attempt goes on, perhaps in a later revision: no terminal result
\* appears, and a cell's least admitted token revision stays or becomes the
\* number of a revision that no token has yet.
Continues(s, t) ==
  /\ t \in State
  /\ t.attempt = s.attempt /\ t.closed = s.closed /\ t.selected = s.selected
  /\ t.inputRevision >= s.inputRevision /\ t.inputRevision >= NoRevision
  /\ t.inputRevision = NoRevision => NoTerminalResult(t)
  /\ \A c \in Cells : t.minimumTokenRevisions[c] # s.minimumTokenRevisions[c]
                     => t.minimumTokenRevisions[c] > s.inputRevision
  /\ KeepsResults(s, t)

LEMMA ReopensContinues ==
  ASSUME NEW s \in State, NEW affected \in SUBSET Cells, NEW t, Reopens(s, affected, t),
         s.inputRevision >= NoRevision
  PROVE  Continues(s, t)
  <1>1. s.inputRevision \in Int
    BY DEF State
  <1>2. \A c \in Cells : t.minimumTokenRevisions[c] # s.minimumTokenRevisions[c]
                        => t.minimumTokenRevisions[c] > s.inputRevision
    BY <1>1 DEF Reopens
  <1>3. KeepsResults(s, t)
    BY DEF Reopens, KeepsResults
  <1>4. /\ t \in State
        /\ t.attempt = s.attempt /\ t.closed = s.closed /\ t.selected = s.selected
        /\ t.inputRevision = s.inputRevision + 1
    BY DEF Reopens
  <1>5. QED
    BY <1>1, <1>2, <1>3, <1>4 DEF Continues, NoRevision

LEMMA BeginInputFacts ==
  ASSUME NEW s \in State, NEW affected \in SUBSET Cells, s.inputRevision >= NoRevision,
         ~s.closed
  PROVE  LET t == BeginInput(s, s.attempt, affected)
         IN  Continues(s, t) /\ Reopens(s, affected \cap s.selected, t)
  <1>1. affected \cap s.selected \in SUBSET Cells
    OBVIOUS
  <1>2. BeginInput(s, s.attempt, affected) = OpenRevision(s, affected \cap s.selected)
    BY DEF BeginInput, IsCurrent
  <1>3. Reopens(s, affected \cap s.selected, OpenRevision(s, affected \cap s.selected))
    BY <1>1, OpenRevisionFacts
  <1>4. QED
    BY <1>1, <1>2, <1>3, ReopensContinues

LEMMA BeginCellFacts ==
  ASSUME NEW s \in State, NEW a, NEW c \in Cells, NEW ch \in Channels, NEW g \in Nat,
         Begins(s, a, c, ch, g), s.inputRevision >= NoRevision,
         s.inputRevision = NoRevision => NoTerminalResult(s)
  PROVE  LET t == BeginCell(s, a, c, ch, g)
         IN  Continues(s, t) /\ t.inputRevision # NoRevision
  <1> DEFINE u == [s EXCEPT !.channelGenerations[c][ch] = g]
             v == OpenRevision(u, {c})
             w == [u EXCEPT !.pending = @ \cup {c},
                            !.results[c] = PendingResult(u.inputRevision)]
  <1>0. s.inputRevision \in Int /\ NoRevision \in Int
    BY NoRevisionIsInt DEF State
  <1>1. /\ u \in State
        /\ u.attempt = s.attempt /\ u.closed = s.closed /\ u.selected = s.selected
        /\ u.inputRevision = s.inputRevision
        /\ u.minimumTokenRevisions = s.minimumTokenRevisions
        /\ u.results = s.results
    BY DEF State
  <1> HIDE DEF u
  <1>2. Reopens(u, {c}, v)
    BY <1>1, OpenRevisionFacts
  <1>3. Continues(u, v) /\ v.inputRevision = u.inputRevision + 1
    <2>1. {c} \in SUBSET Cells /\ u.inputRevision >= NoRevision
      BY <1>1
    <2>2. Continues(u, v)
      BY <1>1, <1>2, <2>1, ReopensContinues
    <2>3. QED
      BY <1>2, <2>2 DEF Reopens
  <1>4. /\ w \in State
        /\ w.attempt = u.attempt /\ w.closed = u.closed /\ w.selected = u.selected
        /\ w.inputRevision = u.inputRevision
        /\ w.minimumTokenRevisions = u.minimumTokenRevisions
        /\ w.results = [u.results EXCEPT ![c] = PendingResult(u.inputRevision)]
    <2>1. PendingResult(u.inputRevision) \in Result
      BY <1>0, <1>1 DEF PendingResult, Result
    <2>2. QED
      BY <1>1, <2>1 DEF State
  <1>5. Continues(u, w) \/ u.inputRevision = NoRevision
    <2>1. w.results[c].status \notin Terminal
      BY <1>1, <1>4 DEF State, PendingResult, Terminal
    <2>2. \A d \in Cells : d # c => w.results[d] = u.results[d]
      BY <1>1, <1>4 DEF State
    <2>3. KeepsResults(u, w)
      BY <2>1, <2>2 DEF KeepsResults
    <2>4. QED
      BY <1>0, <1>1, <1>4, <2>3 DEF Continues
  <1> HIDE DEF v, w
  <1>6. BeginCell(s, a, c, ch, g) =
          IF u.inputRevision = NoRevision \/ u.pending = {} THEN v
          ELSE IF u.results[c].status = "pending" THEN u ELSE w
    BY Zenon DEF BeginCell, u, v, w
  <1>7. CASE u.inputRevision = NoRevision \/ u.pending = {}
    BY <1>0, <1>1, <1>3, <1>6, <1>7 DEF Continues, KeepsResults, NoRevision
  <1>8. CASE ~(u.inputRevision = NoRevision \/ u.pending = {}) /\ u.results[c].status = "pending"
    BY <1>0, <1>1, <1>6, <1>8 DEF Continues, KeepsResults
  <1>9. CASE ~(u.inputRevision = NoRevision \/ u.pending = {}) /\ u.results[c].status # "pending"
    BY <1>0, <1>1, <1>4, <1>5, <1>6, <1>9 DEF Continues, KeepsResults
  <1>10. QED
    BY <1>7, <1>8, <1>9

LEMMA SettleCellFacts ==
  ASSUME NEW s \in State, NEW token \in Token, NEW status \in Terminal
  PROVE  LET t == SettleCell(s, token, status)
         IN  \/ t = s
             \/ /\ IsCurrentToken(s, token)
                /\ t \in State
                /\ t.attempt = s.attempt /\ t.closed = s.closed /\ t.selected = s.selected
                /\ t.inputRevision = s.inputRevision
                /\ t.minimumTokenRevisions = s.minimumTokenRevisions
                /\ t.results[token.index].status = status
                /\ \A c \in Cells \ {token.index} : t.results[c] = s.results[c]
  <1> DEFINE result == [status |-> status, revision |-> s.inputRevision]
             u == [s EXCEPT !.results[token.index] = result, !.pending = @ \ {token.index}]
             v == [u EXCEPT !.settlement = u.inputRevision]
  <1>1. result \in Result /\ token.index \in Cells /\ result.status = status
    BY DEF State, Result, Token, Terminal
  <1> HIDE DEF result
  <1>2. /\ u \in State
        /\ u.attempt = s.attempt /\ u.closed = s.closed /\ u.selected = s.selected
        /\ u.inputRevision = s.inputRevision
        /\ u.minimumTokenRevisions = s.minimumTokenRevisions
        /\ u.results[token.index] = result
        /\ \A c \in Cells \ {token.index} : u.results[c] = s.results[c]
    BY <1>1 DEF State
  <1> HIDE DEF u
  <1>3. /\ v \in State
        /\ v.attempt = u.attempt /\ v.closed = u.closed /\ v.selected = u.selected
        /\ v.inputRevision = u.inputRevision
        /\ v.minimumTokenRevisions = u.minimumTokenRevisions
        /\ v.results = u.results
    BY <1>2 DEF State
  <1> HIDE DEF v
  <1>4. SettleCell(s, token, status) =
          IF ~IsCurrentToken(s, token) THEN s ELSE IF u.pending = {} THEN v ELSE u
    BY Zenon DEF SettleCell, ScheduleSettlement, result, u, v
  <1>5. QED
    BY <1>1, <1>2, <1>3, <1>4

LEMMA RunSettlementFacts ==
  ASSUME NEW s \in State
  PROVE  LET t == RunSettlement(s)
         IN  /\ t \in State
             /\ t.attempt = s.attempt /\ t.closed = s.closed /\ t.selected = s.selected
             /\ t.inputRevision = s.inputRevision
             /\ t.minimumTokenRevisions = s.minimumTokenRevisions
             /\ t.results = s.results
  <1> DEFINE u == [s EXCEPT !.settlement = NoRevision]
             v == [u EXCEPT !.settledRevision = s.settlement]
  <1>1. /\ u \in State /\ s.settlement \in Int
        /\ u.attempt = s.attempt /\ u.closed = s.closed /\ u.selected = s.selected
        /\ u.inputRevision = s.inputRevision
        /\ u.minimumTokenRevisions = s.minimumTokenRevisions
        /\ u.results = s.results
    BY NoRevisionIsInt DEF State
  <1> HIDE DEF u
  <1>2. /\ v \in State
        /\ v.attempt = u.attempt /\ v.closed = u.closed /\ v.selected = u.selected
        /\ v.inputRevision = u.inputRevision
        /\ v.minimumTokenRevisions = u.minimumTokenRevisions
        /\ v.results = u.results
    BY <1>1 DEF State
  <1> HIDE DEF v
  <1>3. RunSettlement(s) \in {u, v}
    BY Zenon DEF RunSettlement, u, v
  <1>4. QED
    BY <1>1, <1>2, <1>3

LEMMA CloseFacts ==
  ASSUME NEW s \in State, ~s.closed
  PROVE  LET t == Close(s)
         IN  /\ t \in State
             /\ t.attempt = s.attempt + 1 /\ t.closed
             /\ t.inputRevision = s.inputRevision
             /\ t.results = s.results
  <1> DEFINE attempt == s.attempt + 1
             t == [s EXCEPT !.closed = TRUE, !.attempt = attempt, !.pending = {},
                            !.settlement = NoRevision]
  <1>1. attempt \in Nat
    BY DEF State
  <1>2. Close(s) = t
    BY Zenon DEF Close
  <1> HIDE DEF attempt
  <1>3. /\ t \in State
        /\ t.attempt = attempt /\ t.closed
        /\ t.inputRevision = s.inputRevision /\ t.results = s.results
    BY <1>1, NoRevisionIsInt DEF State
  <1>4. QED
    BY <1>2, <1>3 DEF attempt

-----------------------------------------------------------------------------
(* Revisions, pending cells and results that are not there yet *)

\* A result, once there is one, belongs to a revision that was opened.
Recorded(s) ==
  /\ s.inputRevision >= NoRevision
  /\ s.settledRevision <= s.inputRevision
  /\ \A c \in Cells : s.results[c] # NoResult =>
       s.results[c].status # "none" /\ s.results[c].revision \in 0..s.inputRevision

\* The records of an open state tell one story.
Coherent(s) ==
  /\ Recorded(s)
  /\ \A c \in Cells : s.results[c] # NoResult => c \in s.selected
  /\ s.pending = {c \in Cells : s.results[c].status = "pending"}
  /\ s.settledRevision = s.inputRevision => s.pending = {}
  /\ s.inputRevision = NoRevision =>
       s.settledRevision = NoRevision /\ \A c \in Cells : s.results[c] = NoResult
  /\ s.inputRevision # NoRevision /\ ~s.errors => \A c \in s.selected : s.results[c] # NoResult

\* Whoever waits for the revision to settle will not wait for ever.
Certain(s) == s.pending = {} => s.inputRevision \in {s.settledRevision, s.settlement}

\* The moves of RevisionProgress, as relations between two states.
SameWave(s, t) ==
  /\ t.inputRevision = s.inputRevision /\ t.settledRevision = s.settledRevision
  /\ t.pending = s.pending /\ t.closed = s.closed

OpensWave(s, t) ==
  /\ t.closed = s.closed
  /\ t.inputRevision > s.inputRevision
  /\ t.settledRevision = IF t.pending = {} THEN t.inputRevision ELSE s.settledRevision

AbandonsWave(s, t) ==
  /\ t.closed = s.closed
  /\ t.inputRevision >= s.inputRevision
  /\ t.pending = {} /\ t.settledRevision = t.inputRevision

\* openRevision makes a coherent state of whatever was recorded before.  Every
\* affected selected cell is pending in it, and every selected cell that was.
Opened(s, affected, t) ==
  /\ Coherent(t) /\ Certain(t) /\ OpensWave(s, t)
  /\ t.selected = s.selected
  /\ \A c \in s.selected : c \in affected \/ s.results[c].status = "pending" => c \in t.pending

LEMMA OpenRevisionCoherent ==
  ASSUME NEW s \in State, NEW affected \in SUBSET Cells, Recorded(s)
  PROVE  Opened(s, affected, OpenRevision(s, affected))
  <1> DEFINE revision == s.inputRevision + 1
             reopened == {c \in s.selected : c \in affected \/ s.results[c] = NoResult}
             pending  == reopened \cup StillRunning(s, reopened)
             results  == [c \in Cells |-> IF c \in reopened THEN PendingResult(revision)
                                          ELSE IF c \in s.selected THEN s.results[c]
                                          ELSE NoResult]
             minimum  == [c \in Cells |-> IF c \in affected THEN revision
                                          ELSE s.minimumTokenRevisions[c]]
             settled  == SettledOnOpening(s, revision, pending)
             t == OpenRevision(s, affected)
  <1>1. t = [s EXCEPT !.inputRevision = revision, !.errors = FALSE, !.settlement = NoRevision,
                      !.results = results, !.pending = pending,
                      !.minimumTokenRevisions = minimum, !.settledRevision = settled]
    BY Zenon DEF OpenRevision
  <1>2. /\ s.inputRevision \in Int /\ s.settledRevision \in Int /\ s.selected \in SUBSET Cells
        /\ s.results \in [Cells -> Result] /\ s.pending \in SUBSET Cells
    BY DEF State
  <1>3. /\ revision \in Int /\ revision > s.inputRevision /\ revision >= 0
        /\ s.settledRevision < revision
    BY <1>2 DEF Recorded, NoRevision
  <1>4. pending = {c \in Cells : results[c].status = "pending"}
    BY <1>2 DEF StillRunning, PendingResult, NoResult
  <1>5. \A c \in Cells : results[c] # NoResult =>
          c \in s.selected /\ results[c].status # "none" /\ results[c].revision \in 0..revision
    BY <1>2, <1>3 DEF Recorded, PendingResult
  <1>6. \A c \in s.selected : results[c] # NoResult
    BY <1>2 DEF PendingResult, NoResult
  <1>7. settled = IF pending = {} THEN revision ELSE s.settledRevision
    BY DEF SettledOnOpening
  <1>8. \A c \in s.selected : c \in affected \/ s.results[c].status = "pending" => c \in pending
    BY DEF StillRunning
  <1> HIDE DEF revision, reopened, pending, results, minimum, settled, t
  <1>9. /\ t.closed = s.closed /\ t.selected = s.selected /\ ~t.errors
        /\ t.inputRevision = revision /\ t.settledRevision = settled
        /\ t.pending = pending /\ t.results = results
    BY <1>1 DEF State
  <1>10. Recorded(t)
    BY <1>2, <1>3, <1>5, <1>7, <1>9 DEF Recorded, NoRevision
  <1>11. Coherent(t)
    BY <1>2, <1>3, <1>4, <1>5, <1>6, <1>7, <1>9, <1>10 DEF Coherent, NoRevision
  <1>12. Certain(t)
    BY <1>7, <1>9 DEF Certain
  <1>13. OpensWave(s, t)
    BY <1>3, <1>7, <1>9 DEF OpensWave
  <1>14. QED
    BY <1>8, <1>9, <1>11, <1>12, <1>13 DEF Opened, t

\* start keeps the records, but a settlement that was queued is gone.
LEMMA StartCoherent ==
  ASSUME NEW s \in State, Coherent(s)
  PROVE  LET t == Start(s)
         IN  Coherent(t) /\ SameWave(s, t) /\ t.selected = s.selected
  <1> DEFINE t == Start(s)
             generations == [c \in Cells |-> [ch \in Channels |-> 0]]
             minimum == [c \in Cells |-> NoRevision]
  <1>1. t = [s EXCEPT !.attempt = s.attempt + 1, !.settlement = NoRevision,
                      !.channelGenerations = generations, !.minimumTokenRevisions = minimum]
    BY Zenon DEF Start
  <1> HIDE DEF generations, minimum, t
  <1>2. /\ t.inputRevision = s.inputRevision /\ t.settledRevision = s.settledRevision
        /\ t.pending = s.pending /\ t.closed = s.closed /\ t.selected = s.selected
        /\ t.results = s.results /\ t.errors = s.errors
    BY <1>1 DEF State
  <1>3. QED
    BY <1>2 DEF Coherent, Recorded, SameWave, t

LEMMA FailCoherent ==
  ASSUME NEW s \in State, NEW attempt, IsCurrent(s, attempt), Recorded(s)
  PROVE  LET t == Fail(s, attempt)
         IN  Coherent(t) /\ Certain(t) /\ AbandonsWave(s, t) /\ t.selected = s.selected
  <1> DEFINE revision == IF s.inputRevision = NoRevision THEN 0
                         ELSE IF s.pending = {} THEN s.inputRevision + 1
                         ELSE s.inputRevision
             none == [c \in Cells |-> NoResult]
             t == Fail(s, attempt)
  <1>1. revision \in Int /\ revision >= s.inputRevision /\ revision >= 0
    BY DEF State, Recorded, NoRevision
  <1>2. \A c \in Cells : none[c] = NoResult
    OBVIOUS
  <1>3. t = [s EXCEPT !.inputRevision = revision, !.settledRevision = revision,
                      !.pending = {}, !.results = none, !.errors = TRUE]
    BY Zenon DEF Fail
  <1> HIDE DEF revision, none, t
  <1>4. /\ t.closed = s.closed /\ t.selected = s.selected /\ t.errors = TRUE
        /\ t.inputRevision = revision /\ t.settledRevision = revision
        /\ t.pending = {} /\ t.results = none
    BY <1>3 DEF State
  <1>5. Recorded(t)
    BY <1>1, <1>2, <1>4 DEF Recorded, NoRevision
  <1>6. {c \in Cells : t.results[c].status = "pending"} = {}
    BY <1>2, <1>4 DEF NoResult
  <1>7. Coherent(t)
    BY <1>1, <1>2, <1>4, <1>5, <1>6 DEF Coherent, NoRevision
  <1>8. QED
    BY <1>1, <1>4, <1>7 DEF Certain, AbandonsWave, t

\* begin opens a revision unless the same cells still run.
LEMMA BeginCoherent ==
  ASSUME NEW s \in State, NEW attempt, IsCurrent(s, attempt),
         NEW selection \in SUBSET Cells, Coherent(s)
  PROVE  LET t == Begin(s, attempt, selection)
         IN  /\ Coherent(t) /\ Certain(t) /\ t.selected = selection
             /\ OpensWave(s, t) \/ SameWave(s, t)
             /\ s.pending # {} /\ s.selected = selection => SameWave(s, t)
  <1> DEFINE u == [s EXCEPT !.selected = selection]
             v == OpenRevision(u, selection)
             t == Begin(s, attempt, selection)
  <1>1. /\ u \in State
        /\ u.inputRevision = s.inputRevision /\ u.settledRevision = s.settledRevision
        /\ u.pending = s.pending /\ u.closed = s.closed /\ u.selected = selection
        /\ u.results = s.results /\ u.errors = s.errors
    BY DEF State
  <1>2. t = IF selection = s.selected /\ s.pending # {} THEN u ELSE v
    BY Zenon DEF Begin
  <1> HIDE DEF u
  <1>3. Recorded(u)
    BY <1>1 DEF Coherent, Recorded
  <1>4. Coherent(v) /\ Certain(v) /\ OpensWave(u, v) /\ v.selected = selection
    BY <1>1, <1>3, OpenRevisionCoherent DEF Opened
  <1> HIDE DEF v, t
  <1>5. CASE selection = s.selected /\ s.pending # {}
    <2>1. Coherent(u) /\ SameWave(s, u) /\ Certain(u)
      BY <1>1, <1>5 DEF Coherent, Recorded, SameWave, Certain
    <2>2. QED
      BY <1>1, <1>2, <1>5, <2>1 DEF t
  <1>6. CASE ~(selection = s.selected /\ s.pending # {})
    <2>1. OpensWave(s, v)
      BY <1>1, <1>4 DEF OpensWave
    <2>2. QED
      BY <1>2, <1>4, <1>6, <2>1 DEF t
  <1>7. QED
    BY <1>5, <1>6

\* invalidate(true) withdraws every result: each selected cell is pending again.
LEMMA InvalidateCoherent ==
  ASSUME NEW s \in State, ~s.closed, Coherent(s)
  PROVE  LET t == Invalidate(s)
         IN  /\ Coherent(t) /\ ~t.closed /\ t.selected = s.selected
             /\ SameWave(s, t) \/ OpensWave(s, t)
             /\ OpensWave(s, t) => s.selected \subseteq t.pending
  <1> DEFINE attempt == s.attempt + 1
             u == [s EXCEPT !.attempt = attempt, !.settlement = NoRevision, !.errors = FALSE]
             v == OpenRevision(u, u.selected)
             t == Invalidate(s)
  <1>0. attempt \in Nat
    BY DEF State
  <1>1. /\ u \in State
        /\ u.inputRevision = s.inputRevision /\ u.settledRevision = s.settledRevision
        /\ u.pending = s.pending /\ u.closed = s.closed /\ u.selected = s.selected
        /\ u.results = s.results
    <2> HIDE DEF attempt
    <2>1. QED
      BY <1>0, NoRevisionIsInt DEF State
  <1>2. t = IF s.inputRevision = NoRevision THEN u ELSE v
    BY Zenon DEF Invalidate
  <1> HIDE DEF u
  <1>3. Recorded(u) /\ u.selected \in SUBSET Cells
    BY <1>1 DEF Coherent, Recorded, State
  <1>4. Opened(u, u.selected, v)
    BY <1>1, <1>3, OpenRevisionCoherent
  <1> HIDE DEF v, t
  <1>5. CASE s.inputRevision = NoRevision
    <2>1. Coherent(u) /\ SameWave(s, u) /\ ~OpensWave(s, u)
      BY <1>1, <1>5, NoRevisionIsInt DEF Coherent, Recorded, SameWave, OpensWave
    <2>2. QED
      BY <1>1, <1>2, <1>5, <2>1 DEF t
  <1>6. CASE s.inputRevision # NoRevision
    <2>1. OpensWave(s, v) /\ v.closed = s.closed
      BY <1>1, <1>4 DEF Opened, OpensWave
    <2>2. s.selected \subseteq v.pending
      BY <1>1, <1>4 DEF Opened
    <2>3. QED
      BY <1>1, <1>2, <1>4, <1>6, <2>1, <2>2 DEF Opened, t
  <1>7. QED
    BY <1>5, <1>6

\* beginInput reopens the cells that the change affects.
LEMMA BeginInputCoherent ==
  ASSUME NEW s \in State, NEW affected \in SUBSET Cells, ~s.closed, Coherent(s)
  PROVE  Opened(s, affected \cap s.selected, BeginInput(s, s.attempt, affected))
  <1>1. affected \cap s.selected \in SUBSET Cells
    OBVIOUS
  <1>2. BeginInput(s, s.attempt, affected) = OpenRevision(s, affected \cap s.selected)
    BY DEF BeginInput, IsCurrent
  <1>3. QED
    BY <1>1, <1>2, OpenRevisionCoherent DEF Coherent

\* An event opens a revision when the last one waits for nothing; otherwise it
\* joins it.
JoinsWave(s, t, c) ==
  /\ t.inputRevision = s.inputRevision /\ t.settledRevision = s.settledRevision
  /\ t.closed = s.closed
  /\ s.pending # {} /\ t.pending = s.pending \cup {c}

LEMMA BeginCellCoherent ==
  ASSUME NEW s \in State, NEW a, NEW c \in Cells, NEW ch \in Channels, NEW g \in Nat,
         Begins(s, a, c, ch, g), Coherent(s)
  PROVE  LET t == BeginCell(s, a, c, ch, g)
         IN  /\ Coherent(t) /\ Certain(t) /\ t.selected = s.selected
             /\ OpensWave(s, t) \/ JoinsWave(s, t, c)
             /\ c \in t.pending /\ s.pending \subseteq t.pending
  <1> DEFINE u == [s EXCEPT !.channelGenerations[c][ch] = g]
             v == OpenRevision(u, {c})
             w == [u EXCEPT !.pending = @ \cup {c},
                            !.results[c] = PendingResult(u.inputRevision)]
             t == BeginCell(s, a, c, ch, g)
  <1>1. /\ u \in State
        /\ u.inputRevision = s.inputRevision /\ u.settledRevision = s.settledRevision
        /\ u.pending = s.pending /\ u.closed = s.closed /\ u.selected = s.selected
        /\ u.results = s.results /\ u.errors = s.errors
    BY DEF State
  <1>2. t = IF u.inputRevision = NoRevision \/ u.pending = {} THEN v
            ELSE IF u.results[c].status = "pending" THEN u ELSE w
    BY Zenon DEF BeginCell
  <1> HIDE DEF u
  <1>3. Recorded(u) /\ {c} \in SUBSET Cells
    BY <1>1 DEF Coherent, Recorded
  <1>4. Opened(u, {c}, v)
    BY <1>1, <1>3, OpenRevisionCoherent
  <1>5. /\ w.inputRevision = u.inputRevision /\ w.settledRevision = u.settledRevision
        /\ w.pending = u.pending \cup {c} /\ w.closed = u.closed /\ w.selected = u.selected
        /\ w.results = [u.results EXCEPT ![c] = PendingResult(u.inputRevision)]
        /\ w.errors = u.errors
    BY <1>1 DEF State
  <1> HIDE DEF v, w, t
  <1>6. /\ s.inputRevision \in Int /\ s.results \in [Cells -> Result] /\ c \in s.selected
        /\ NoRevision \in Int
    BY NoRevisionIsInt DEF State, Begins
  <1>7. CASE u.inputRevision = NoRevision \/ u.pending = {}
    <2>1. OpensWave(s, v)
      BY <1>1, <1>4 DEF Opened, OpensWave
    <2>2. c \in v.pending /\ u.pending \subseteq v.pending
      <3>1. \A d \in u.pending : d \in u.selected /\ u.results[d].status = "pending"
        BY <1>1 DEF Coherent, NoResult
      <3>2. QED
        BY <1>1, <1>4, <1>6, <3>1 DEF Opened
    <2>3. QED
      BY <1>1, <1>2, <1>4, <1>7, <2>1, <2>2 DEF Opened, t
  <1>8. CASE ~(u.inputRevision = NoRevision \/ u.pending = {}) /\ u.results[c].status = "pending"
    <2>1. t = u
      BY <1>2, <1>8
    <2>2. Coherent(u) /\ Certain(u)
      BY <1>1, <1>8 DEF Coherent, Recorded, Certain
    <2>3. c \in s.pending
      BY <1>1, <1>8 DEF Coherent
    <2>4. JoinsWave(s, u, c)
      BY <1>1, <2>3 DEF JoinsWave
    <2>5. QED
      BY <1>1, <2>1, <2>2, <2>3, <2>4 DEF t
  <1>9. CASE ~(u.inputRevision = NoRevision \/ u.pending = {}) /\ u.results[c].status # "pending"
    <2>1. t = w
      BY <1>2, <1>9
    <2>2. /\ w.results[c] = PendingResult(s.inputRevision)
          /\ \A d \in Cells \ {c} : w.results[d] = s.results[d]
      BY <1>1, <1>5, <1>6
    <2>3. s.inputRevision >= 0 /\ s.settledRevision # s.inputRevision
      BY <1>1, <1>6, <1>9 DEF Coherent, Recorded, NoRevision
    <2>4. Recorded(w)
      BY <1>1, <1>5, <1>6, <2>2, <2>3 DEF Coherent, Recorded, PendingResult
    <2>5. w.pending = {d \in Cells : w.results[d].status = "pending"}
      BY <1>1, <1>5, <2>2 DEF Coherent, PendingResult
    <2>6. \A d \in Cells : w.results[d] # NoResult => d \in w.selected
      BY <1>1, <1>5, <1>6, <2>2 DEF Coherent
    <2>7. ~w.errors => \A d \in w.selected : w.results[d] # NoResult
      <3>1. PendingResult(s.inputRevision) # NoResult
        BY DEF PendingResult, NoResult
      <3>2. s.selected \subseteq Cells /\ s.inputRevision # NoRevision
        BY <1>1, <1>9 DEF State
      <3>3. SUFFICES ASSUME ~s.errors, NEW d \in s.selected
                     PROVE  w.results[d] # NoResult
        BY <1>1, <1>5
      <3>4. CASE d = c
        BY <2>2, <3>1, <3>4
      <3>5. CASE d # c
        BY <2>2, <3>2, <3>3, <3>5 DEF Coherent
      <3>6. QED
        BY <3>4, <3>5
    <2>8. Coherent(w) /\ Certain(w)
      BY <1>1, <1>5, <1>9, <2>3, <2>4, <2>5, <2>6, <2>7 DEF Coherent, Certain
    <2>9. JoinsWave(s, w, c)
      BY <1>1, <1>5, <1>9 DEF JoinsWave
    <2>10. QED
      BY <1>1, <1>5, <2>1, <2>8, <2>9 DEF t
  <1>10. QED
    BY <1>7, <1>8, <1>9

\* A token that is current finishes its cell.  The last cell to finish queues
\* the settlement.
FinishesCell(s, t, c) ==
  /\ t.inputRevision = s.inputRevision /\ t.settledRevision = s.settledRevision
  /\ t.closed = s.closed
  /\ c \in s.pending /\ t.pending = s.pending \ {c}

LEMMA SettleCellCoherent ==
  ASSUME NEW s \in State, NEW token \in Token, NEW status \in Terminal,
         IsCurrentToken(s, token), Coherent(s)
  PROVE  LET t == SettleCell(s, token, status)
         IN  /\ Coherent(t) /\ Certain(t) /\ t.selected = s.selected
             /\ FinishesCell(s, t, token.index)
  <1> DEFINE c == token.index
             result == [status |-> status, revision |-> s.inputRevision]
             u == [s EXCEPT !.results[c] = result, !.pending = @ \ {c}]
             v == [u EXCEPT !.settlement = u.inputRevision]
             t == SettleCell(s, token, status)
  <1>1. /\ result \in Result /\ c \in Cells
        /\ result.revision = s.inputRevision /\ result.status \in Terminal
        /\ result # NoResult
    BY DEF State, Result, Token, Terminal, NoResult
  <1>2. c \in s.pending
    BY DEF IsCurrentToken
  <1> HIDE DEF result, c
  <1>3. /\ u \in State
        /\ u.inputRevision = s.inputRevision /\ u.settledRevision = s.settledRevision
        /\ u.pending = s.pending \ {c} /\ u.closed = s.closed /\ u.selected = s.selected
        /\ u.results[c] = result /\ \A d \in Cells \ {c} : u.results[d] = s.results[d]
        /\ u.errors = s.errors
    BY <1>1 DEF State
  <1>4. t = IF u.pending = {} THEN v ELSE u
    BY Zenon DEF SettleCell, ScheduleSettlement, c, result
  <1> HIDE DEF u
  <1>5. /\ v.inputRevision = u.inputRevision /\ v.settledRevision = u.settledRevision
        /\ v.pending = u.pending /\ v.closed = u.closed /\ v.selected = u.selected
        /\ v.results = u.results /\ v.errors = u.errors
        /\ v.settlement = u.inputRevision
    BY <1>3 DEF State
  <1> HIDE DEF v, t
  <1>6. /\ s.results[c].status = "pending" /\ c \in s.selected
        /\ s.inputRevision >= 0 /\ s.inputRevision \in Int
        /\ s.settledRevision # s.inputRevision
    BY <1>1, <1>2 DEF Coherent, Recorded, NoResult, NoRevision, State
  <1>7. Recorded(u)
    BY <1>1, <1>3, <1>6 DEF Coherent, Recorded, Terminal
  <1>8. u.pending = {d \in Cells : u.results[d].status = "pending"}
    BY <1>1, <1>3 DEF Coherent, Terminal
  <1>9. \A d \in Cells : u.results[d] # NoResult => d \in u.selected
    BY <1>3, <1>6 DEF Coherent
  <1>10. ~u.errors => \A d \in u.selected : u.results[d] # NoResult
    <2>1. s.selected \subseteq Cells /\ s.inputRevision # NoRevision
      BY <1>6 DEF State, NoRevision
    <2>2. SUFFICES ASSUME ~s.errors, NEW d \in s.selected
                   PROVE  u.results[d] # NoResult
      BY <1>3
    <2>3. CASE d = c
      BY <1>1, <1>3, <2>3
    <2>4. CASE d # c
      BY <1>3, <2>1, <2>2, <2>4 DEF Coherent
    <2>5. QED
      BY <2>3, <2>4
  <1>11. Coherent(u)
    BY <1>3, <1>6, <1>7, <1>8, <1>9, <1>10 DEF Coherent, NoRevision
  <1>12. Coherent(v) /\ Certain(v)
    BY <1>5, <1>11 DEF Coherent, Recorded, Certain
  <1>13. Coherent(t) /\ Certain(t) /\ t.selected = s.selected
    <2>1. u.pending # {} => Certain(u)
      BY DEF Certain
    <2>2. QED
      BY <1>3, <1>4, <1>5, <1>11, <1>12, <2>1
  <1>14. FinishesCell(s, t, c)
    BY <1>2, <1>3, <1>4, <1>5 DEF FinishesCell
  <1>15. QED
    BY <1>13, <1>14 DEF t, c

\* The settlement microtask settles the revision it was queued for, if that still
\* waits for nothing.
SettlesWave(s, t) ==
  /\ t.inputRevision = s.inputRevision /\ t.pending = s.pending /\ t.closed = s.closed
  /\ s.pending = {} /\ t.settledRevision = s.inputRevision

LEMMA RunSettlementCoherent ==
  ASSUME NEW s \in State, ~s.closed, Coherent(s), Certain(s)
  PROVE  LET t == RunSettlement(s)
         IN  /\ Coherent(t) /\ Certain(t) /\ t.selected = s.selected
             /\ SameWave(s, t) \/ SettlesWave(s, t)
  <1> DEFINE u == [s EXCEPT !.settlement = NoRevision]
             v == [u EXCEPT !.settledRevision = s.settlement]
             t == RunSettlement(s)
  <1>1. /\ u \in State
        /\ u.inputRevision = s.inputRevision /\ u.settledRevision = s.settledRevision
        /\ u.pending = s.pending /\ u.closed = s.closed /\ u.selected = s.selected
        /\ u.results = s.results /\ u.errors = s.errors
    BY NoRevisionIsInt DEF State
  <1> HIDE DEF u
  <1>2. /\ v.inputRevision = s.inputRevision /\ v.settledRevision = s.settlement
        /\ v.pending = s.pending /\ v.closed = s.closed /\ v.selected = s.selected
        /\ v.results = s.results /\ v.errors = s.errors
    BY <1>1 DEF State
  <1> HIDE DEF v
  <1>3. t = IF s.inputRevision = s.settlement /\ s.pending = {} THEN v ELSE u
    BY Zenon DEF RunSettlement, u, v
  <1>4. s.inputRevision \in Int
    BY DEF State
  <1> HIDE DEF t
  <1>5. CASE s.inputRevision = s.settlement /\ s.pending = {}
    <2>1. Coherent(v) /\ Certain(v) /\ SettlesWave(s, v)
      BY <1>2, <1>4, <1>5 DEF Coherent, Recorded, Certain, SettlesWave
    <2>2. QED
      BY <1>2, <1>3, <1>5, <2>1 DEF t
  <1>6. CASE ~(s.inputRevision = s.settlement /\ s.pending = {})
    <2>1. Coherent(u) /\ Certain(u) /\ SameWave(s, u)
      BY <1>1, <1>6 DEF Coherent, Recorded, Certain, SameWave
    <2>2. QED
      BY <1>1, <1>3, <1>6, <2>1 DEF t
  <1>7. QED
    BY <1>5, <1>6

-----------------------------------------------------------------------------
(* Pending cells, exactly *)

\* Every selected cell has a result or waits for one, and takes new tokens.
Regular(s) ==
  /\ \A c \in s.selected : s.results[c].status # "none"
  /\ \A c \in Cells : s.minimumTokenRevisions[c] <= s.inputRevision

\* From a regular state to one in which exactly these cells are pending.
Counts(s, t, pending) == Regular(s) => Regular(t) /\ t.pending = pending

LEMMA OpenRevisionCounts ==
  ASSUME NEW s \in State, NEW affected \in SUBSET Cells, Coherent(s)
  PROVE  Counts(s, OpenRevision(s, affected), s.pending \cup (affected \cap s.selected))
  <1> DEFINE revision == s.inputRevision + 1
             reopened == {c \in s.selected : c \in affected \/ s.results[c] = NoResult}
             pending  == reopened \cup StillRunning(s, reopened)
             t == OpenRevision(s, affected)
  <1> SUFFICES ASSUME Regular(s)
               PROVE  Regular(t) /\ t.pending = s.pending \cup (affected \cap s.selected)
    BY DEF Counts
  <1>1. Reopens(s, affected, t)
    BY OpenRevisionFacts
  <1>2. Opened(s, affected, t)
    BY OpenRevisionCoherent DEF Coherent
  <1>3. t.pending = pending /\ ~t.errors
    <2>1. t = [s EXCEPT !.inputRevision = revision, !.errors = FALSE, !.settlement = NoRevision,
                        !.results = [c \in Cells |-> IF c \in reopened THEN PendingResult(revision)
                                                     ELSE IF c \in s.selected THEN s.results[c]
                                                     ELSE NoResult],
                        !.pending = pending,
                        !.minimumTokenRevisions =
                           [c \in Cells |-> IF c \in affected THEN revision
                                            ELSE s.minimumTokenRevisions[c]],
                        !.settledRevision = SettledOnOpening(s, revision, pending)]
      BY Zenon DEF OpenRevision
    <2> HIDE DEF t, pending, reopened, revision
    <2>2. QED
      BY <2>1 DEF State
  <1>4. reopened = affected \cap s.selected
    BY DEF Regular, NoResult
  <1>5. StillRunning(s, reopened) = s.pending \ reopened
    <2>1. \A c \in Cells : s.results[c].status = "pending" => c \in s.selected
      BY DEF Coherent, NoResult
    <2>2. s.selected \subseteq Cells
      BY DEF State
    <2>3. QED
      BY <2>1, <2>2 DEF StillRunning, Coherent
  <1>6. t.pending = s.pending \cup (affected \cap s.selected)
    BY <1>3, <1>4, <1>5
  <1> HIDE DEF t
  <1>7. ASSUME NEW c \in t.selected
        PROVE  t.results[c].status # "none"
    <2>1. s.inputRevision \in Int /\ s.inputRevision >= NoRevision /\ NoRevision \in Int
      BY NoRevisionIsInt DEF State, Coherent, Recorded
    <2>2. t.inputRevision # NoRevision
      BY <1>1, <2>1 DEF Reopens
    <2>3. t.results[c] # NoResult /\ c \in Cells
      BY <1>1, <1>2, <1>3, <1>7, <2>2 DEF Reopens, Opened, Coherent, State
    <2>4. QED
      BY <1>2, <2>3 DEF Opened, Coherent, Recorded
  <1>8. ASSUME NEW c \in Cells
        PROVE  t.minimumTokenRevisions[c] <= t.inputRevision
    <2>1. s.inputRevision \in Int /\ s.minimumTokenRevisions[c] \in Int
      BY DEF State
    <2>2. QED
      BY <1>1, <2>1 DEF Reopens, Regular
  <1>9. QED
    BY <1>6, <1>7, <1>8 DEF Regular

LEMMA BeginInputCounts ==
  ASSUME NEW s \in State, NEW affected \in SUBSET Cells, ~s.closed, Coherent(s)
  PROVE  Counts(s, BeginInput(s, s.attempt, affected), s.pending \cup (affected \cap s.selected))
  <1>1. BeginInput(s, s.attempt, affected) = OpenRevision(s, affected \cap s.selected)
    BY DEF BeginInput, IsCurrent
  <1>2. (affected \cap s.selected) \cap s.selected = affected \cap s.selected
    OBVIOUS
  <1>3. QED
    BY <1>1, <1>2, OpenRevisionCounts

LEMMA BeginCellCounts ==
  ASSUME NEW s \in State, NEW a, NEW c \in Cells, NEW ch \in Channels, NEW g \in Nat,
         Begins(s, a, c, ch, g), Coherent(s)
  PROVE  Counts(s, BeginCell(s, a, c, ch, g), s.pending \cup {c})
  <1> DEFINE u == [s EXCEPT !.channelGenerations[c][ch] = g]
             v == OpenRevision(u, {c})
             w == [u EXCEPT !.pending = @ \cup {c},
                            !.results[c] = PendingResult(u.inputRevision)]
             t == BeginCell(s, a, c, ch, g)
  <1> SUFFICES ASSUME Regular(s)
               PROVE  Regular(t) /\ t.pending = s.pending \cup {c}
    BY DEF Counts
  <1>1. /\ u \in State
        /\ u.inputRevision = s.inputRevision /\ u.settledRevision = s.settledRevision
        /\ u.pending = s.pending /\ u.closed = s.closed /\ u.selected = s.selected
        /\ u.results = s.results /\ u.errors = s.errors
        /\ u.minimumTokenRevisions = s.minimumTokenRevisions
    BY DEF State
  <1>2. t = IF u.inputRevision = NoRevision \/ u.pending = {} THEN v
            ELSE IF u.results[c].status = "pending" THEN u ELSE w
    BY Zenon DEF BeginCell
  <1> HIDE DEF u
  <1>3. Coherent(u) /\ Regular(u) /\ c \in u.selected
    BY <1>1 DEF Coherent, Recorded, Regular, Begins
  <1>4. Counts(u, v, u.pending \cup ({c} \cap u.selected))
    BY <1>1, <1>3, OpenRevisionCounts
  <1>5. Regular(v) /\ v.pending = u.pending \cup {c}
    BY <1>3, <1>4 DEF Counts
  <1>6. /\ w.inputRevision = u.inputRevision /\ w.selected = u.selected
        /\ w.pending = u.pending \cup {c}
        /\ w.results = [u.results EXCEPT ![c] = PendingResult(u.inputRevision)]
        /\ w.minimumTokenRevisions = u.minimumTokenRevisions
    BY <1>1 DEF State
  <1> HIDE DEF v, w, t
  <1>7. Regular(w)
    <2>1. \A d \in Cells : w.results[d] = IF d = c THEN PendingResult(u.inputRevision)
                                         ELSE u.results[d]
      BY <1>1, <1>6 DEF State
    <2>2. u.selected \subseteq Cells
      BY <1>1 DEF State
    <2>3. QED
      BY <1>3, <1>6, <2>1, <2>2 DEF Regular, PendingResult
  <1>8. u.results[c].status = "pending" => u.pending = u.pending \cup {c}
    BY <1>3 DEF Coherent
  <1>9. QED
    BY <1>1, <1>2, <1>3, <1>5, <1>6, <1>7, <1>8

\* A current token takes its cell, and no other, from those that are pending.
LEMMA SettleCellCounts ==
  ASSUME NEW s \in State, NEW token \in Token, NEW status \in Terminal,
         IsCurrentToken(s, token), Coherent(s)
  PROVE  Counts(s, SettleCell(s, token, status), s.pending \ {token.index})
  <1> DEFINE c == token.index
             t == SettleCell(s, token, status)
  <1> SUFFICES ASSUME Regular(s)
               PROVE  Regular(t) /\ t.pending = s.pending \ {c}
    BY DEF Counts
  <1>1. /\ Coherent(t) /\ t.selected = s.selected /\ FinishesCell(s, t, c)
    BY SettleCellCoherent
  <1>2. c \in Cells /\ t.pending = s.pending \ {c}
    BY <1>1 DEF FinishesCell, Token
  <1>3. t # s
    BY <1>1 DEF FinishesCell
  <1>4. /\ t.inputRevision = s.inputRevision
        /\ t.minimumTokenRevisions = s.minimumTokenRevisions
        /\ t.results[c].status = status
        /\ \A d \in Cells \ {c} : t.results[d] = s.results[d]
    BY <1>3, SettleCellFacts
  <1> HIDE DEF c, t
  <1>5. Regular(t)
    <2>1. s.selected \subseteq Cells /\ status # "none"
      BY DEF State, Terminal
    <2>2. QED
      BY <1>1, <1>2, <1>4, <2>1 DEF Regular
  <1>6. QED
    BY <1>2, <1>5

LEMMA RunSettlementCounts ==
  ASSUME NEW s \in State, ~s.closed, Coherent(s), Certain(s)
  PROVE  Counts(s, RunSettlement(s), s.pending)
  <1> DEFINE t == RunSettlement(s)
  <1>1. /\ t.selected = s.selected /\ t.inputRevision = s.inputRevision
        /\ t.minimumTokenRevisions = s.minimumTokenRevisions /\ t.results = s.results
    BY RunSettlementFacts
  <1>2. t.pending = s.pending
    BY RunSettlementCoherent DEF SameWave, SettlesWave
  <1> HIDE DEF t
  <1>3. QED
    BY <1>1, <1>2 DEF Counts, Regular, t

=============================================================================
