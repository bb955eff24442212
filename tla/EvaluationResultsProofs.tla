------------------------ MODULE EvaluationResultsProofs -------------------------
(***************************************************************************)
(* Proofs about EvaluationResults, for any cases, workers, readers and     *)
(* limits, any answers of the agent and any expectations.                  *)
(***************************************************************************)
EXTENDS EvaluationResults, EvaluationRunsProofs, FiniteSetTheorems

-----------------------------------------------------------------------------
(* Sums.                                                                   *)

\* Induction over the subsets of a finite set, as a set of them.
LEMMA SetInduction ==
    ASSUME NEW S, IsFiniteSet(S), NEW B,
           \A T \in SUBSET S : (\A U \in SUBSET T : U # T => U \in B) => T \in B
    PROVE  SUBSET S \subseteq B
<1> DEFINE bad == {T \in SUBSET S : T \notin B}
<1> SUFFICES ASSUME bad # {} PROVE FALSE
  OBVIOUS
<1>1. IsWellFoundedOn(StrictSubsetOrdering(S), FiniteSubsetsOf(S))
  BY FS_StrictSubsetOrderingWellFounded
<1>2. bad \subseteq FiniteSubsetsOf(S)
  BY FS_FiniteSubsetsOfFinite
<1>3. \E T \in bad : \A U \in bad : <<U, T>> \notin StrictSubsetOrdering(S)
  <2> HIDE DEF bad
  <2> QED BY <1>1, <1>2, WFMin
<1>4. PICK T \in bad : \A U \in bad : <<U, T>> \notin StrictSubsetOrdering(S)
  BY <1>3
<1>5. ASSUME NEW U \in SUBSET T, U # T PROVE U \in B
  BY <1>4, <1>5 DEF StrictSubsetOrdering
<1> QED
  BY <1>5

Pick(T) == CHOOSE x \in T : TRUE

\* F holds the sums of f over the subsets of S.
IsSum(F, f, S) ==
   F = [T \in SUBSET S |-> IF T = {} THEN 0 ELSE f[Pick(T)] + F[T \ {Pick(T)}]]

LEMMA TotalIsSum ==
   ASSUME NEW f, NEW S, IsFiniteSet(S)
   PROVE  \E F : IsSum(F, f, S) /\ Total(f, S) = F[S]
<1> DEFINE Step(F) == [T \in SUBSET S |-> IF T = {} THEN 0 ELSE f[Pick(T)] + F[T \ {Pick(T)}]]
           Right(F, n) == /\ F = [T \in SUBSET S |-> F[T]]
                          /\ \A T \in SUBSET S : Cardinality(T) <= n => F[T] = Step(F)[T]
           B == {T \in SUBSET S : \E F : Right(F, Cardinality(T))}
<1>0. \A T \in SUBSET S : /\ IsFiniteSet(T) /\ Cardinality(T) \in Nat
                          /\ Cardinality(T) = 0 => T = {}
  BY FS_Subset, FS_CardinalityType, FS_EmptySet
<1>1. \A T \in SUBSET S : T # {} =>
         /\ T \ {Pick(T)} \in SUBSET S /\ T \ {Pick(T)} # T
         /\ Cardinality(T \ {Pick(T)}) = Cardinality(T) - 1
  BY <1>0, FS_RemoveElement DEF Pick
<1> HIDE DEF B
<1>2. ASSUME NEW V \in SUBSET S, \A U \in SUBSET V : U # V => U \in B PROVE V \in B
  <2>1. CASE V = {}
    <3> DEFINE F == [T \in SUBSET S |-> 0]
    <3>1. Cardinality(V) = 0
      BY <2>1, FS_EmptySet
    <3>2. \A T \in SUBSET S : Cardinality(T) <= 0 => T = {}
      BY <1>0
    <3>3. Right(F, Cardinality(V))
      BY <3>1, <3>2
    <3> HIDE DEF Right, F
    <3> QED
      BY <3>3 DEF B
  <2>2. CASE V # {}
    <3>1. V \ {Pick(V)} \in B
      BY <1>1, <1>2, <2>2
    <3>2. PICK F : Right(F, Cardinality(V) - 1)
      BY <1>1, <2>2, <3>1 DEF B
    <3> DEFINE n == Cardinality(V)
    <3>n. n \in Nat
      BY <1>0
    <3> HIDE DEF n
    <3> DEFINE G == Step(F)
    <3>3. \A T \in SUBSET S : Cardinality(T) < n => G[T] = F[T]
      <4>1. \A T \in SUBSET S : Cardinality(T) < n => Cardinality(T) <= n - 1
        BY <1>0, <3>n
      <4> QED
        BY <3>2, <4>1 DEF n
    <3>4. ASSUME NEW T \in SUBSET S, Cardinality(T) <= n, T # {}
          PROVE  G[T] = Step(G)[T]
      <4> DEFINE U == T \ {Pick(T)}
      <4>1. U \in SUBSET S /\ Cardinality(U) < n
        BY <1>0, <1>1, <3>4, <3>n
      <4>2. G[U] = F[U]
        BY <3>3, <4>1
      <4>3. G[T] = f[Pick(T)] + F[U] /\ Step(G)[T] = f[Pick(T)] + G[U]
        BY <3>4
      <4> QED
        BY <4>2, <4>3
    <3>5. Right(G, n)
      BY <3>4
    <3> HIDE DEF Right, Step
    <3> QED
      BY <3>5 DEF B, n
  <2> QED
    BY <2>1, <2>2
<1>4. S \in B
  BY <1>2, SetInduction
<1>5. PICK F : Right(F, Cardinality(S))
  BY <1>4 DEF B
<1>6. F = Step(F)
  <2>1. \A T \in SUBSET S : Cardinality(T) <= Cardinality(S)
    BY FS_Subset
  <2> QED
    BY <1>5, <2>1
<1> DEFINE E == CHOOSE E : E = Step(E)
<1>7. E = Step(E)
  BY <1>6
<1>8. Total(f, S) = E[S]
  BY DEF Total, FoldFunctionOnSet, MapThenFoldSet, Pick
<1> QED
  BY <1>7, <1>8 DEF IsSum

\* What holds of the sums of smaller sets and survives one more summand holds
\* of all: the sums are numbers, no less than those of smaller summands, and
\* positive when the summands are.
LEMMA TotalsOrdered ==
    ASSUME NEW S, IsFiniteSet(S), NEW f, NEW g,
           \A x \in S : f[x] \in Nat /\ g[x] \in Nat /\ f[x] <= g[x]
    PROVE  Total(f, S) \in Nat /\ Total(g, S) \in Nat /\ Total(f, S) <= Total(g, S)
<1>1. PICK F : IsSum(F, f, S) /\ Total(f, S) = F[S]
  BY TotalIsSum
<1>2. PICK G : IsSum(G, g, S) /\ Total(g, S) = G[S]
  BY TotalIsSum
<1> DEFINE B == {T \in SUBSET S : F[T] \in Nat /\ G[T] \in Nat /\ F[T] <= G[T]}
<1>3. ASSUME NEW T \in SUBSET S, \A U \in SUBSET T : U # T => U \in B
      PROVE  T \in B
  <2>1. CASE T = {}
    <3>1. F[T] = 0 /\ G[T] = 0
      BY <1>1, <1>2, <2>1 DEF IsSum
    <3> QED
      BY <3>1
  <2>2. CASE T # {}
    <3> DEFINE x == Pick(T)
    <3>1. x \in T /\ T \ {x} \in SUBSET T /\ T \ {x} # T
      BY <2>2 DEF Pick
    <3>2. T \ {x} \in B
      BY <1>3, <3>1
    <3>3. F[T] = f[x] + F[T \ {x}] /\ G[T] = g[x] + G[T \ {x}]
      BY <1>1, <1>2, <2>2 DEF IsSum
    <3> HIDE DEF x
    <3> QED
      BY <3>1, <3>2, <3>3
  <2> QED
    BY <2>1, <2>2
<1>4. S \in B
  <2> HIDE DEF B
  <2> QED
    BY <1>3, SetInduction
<1> QED
  BY <1>1, <1>2, <1>4

LEMMA TotalIsPositive ==
    ASSUME NEW S, IsFiniteSet(S), S # {}, NEW f, \A x \in S : f[x] \in Nat \ {0}
    PROVE  Total(f, S) > 0
<1>1. PICK F : IsSum(F, f, S) /\ Total(f, S) = F[S]
  BY TotalIsSum
<1> DEFINE B == {T \in SUBSET S : F[T] \in Nat /\ (T # {} => F[T] > 0)}
<1>2. ASSUME NEW T \in SUBSET S, \A U \in SUBSET T : U # T => U \in B
      PROVE  T \in B
  <2>1. CASE T = {}
    BY <1>1, <2>1 DEF IsSum
  <2>2. CASE T # {}
    <3> DEFINE x == Pick(T)
    <3>1. x \in T /\ T \ {x} \in SUBSET T /\ T \ {x} # T
      BY <2>2 DEF Pick
    <3>2. T \ {x} \in B
      BY <1>2, <3>1
    <3>3. F[T] = f[x] + F[T \ {x}]
      BY <1>1, <2>2 DEF IsSum
    <3> HIDE DEF x
    <3> QED
      BY <3>1, <3>2, <3>3
  <2> QED
    BY <2>1, <2>2
<1>3. S \in B
  <2> HIDE DEF B
  <2> QED
    BY <1>2, SetInduction
<1> QED
  BY <1>1, <1>3

-----------------------------------------------------------------------------
(* Scores.                                                                 *)

\* The value of a metric.
Value == [state : {"scored", "not_applicable", "not_scored", "needs_human_review"},
          numerator : Nat, denominator : Nat]

LEMMA ValueTypes ==
    /\ \A n, d \in Nat : scoredMetric(n, d) \in Value
    /\ \A state \in {"not_applicable", "not_scored", "needs_human_review"} :
          UnscoredMetric(state) \in Value
  BY DEF scoredMetric, UnscoredMetric, Value

LEMMA FinitePart ==
    ASSUME NEW S, IsFiniteSet(S), NEW T \in SUBSET S
    PROVE  Cardinality(T) \in Nat /\ Cardinality(S) \in Nat
  BY FS_Subset, FS_CardinalityType

\* What the client lets through.
LEMMA MaterializedFields ==
    ASSUME NEW c \in Cases, NEW r \in Materialized(Answers)
    PROVE  /\ IsFiniteSet(Expected[c].units) /\ IsFiniteSet(DOMAIN r.ranks)
           /\ r.valid \subseteq DOMAIN r.ranks
           /\ r.latency \subseteq Nat
           /\ r.cited = [i \in r.valid |-> r.retrieved[r.ranks[i]]]
           /\ \A i \in r.valid : r.ranks[i] \in DOMAIN r.retrieved
<1>1. PICK a \in Answers : Execute(a) = "result" /\ r = MaterializeCaseResult(a)
  BY DEF Materialized
<1> DEFINE n == Cardinality(DOMAIN a.retrieved)
           valid == ValidMarkers(a.ranks, n)
<1>2. /\ r.ranks = a.ranks /\ r.valid = valid /\ r.retrieved = a.retrieved
      /\ r.cited = citedEvidence(valid, a) /\ r.latency = a.latency
  BY <1>1 DEF MaterializeCaseResult
<1>3. \A i \in valid : i \in DOMAIN a.ranks /\ a.ranks[i] \in 1 .. n
  BY DEF ValidMarkers
<1>4. validTelemetry(a)
  BY <1>1 DEF Execute
<1> HIDE DEF n, valid
<1>5. /\ IsFiniteSet(Expected[c].units) /\ IsFiniteSet(DOMAIN a.ranks)
      /\ DOMAIN a.retrieved = 1 .. n /\ a.latency \subseteq Int
  BY AnswersAssumption DEF n
<1> QED
  BY <1>2, <1>3, <1>4, <1>5 DEF validTelemetry, citedEvidence

\* Scorer v1 gives every component a value.
LEMMA ScoreTypes ==
    ASSUME NEW c \in Cases, NEW r \in Materialized(Answers)
    PROVE  ScoreCaseV1(Expected[c], r) \in Metrics
<1>1. /\ IsFiniteSet(Expected[c].units) /\ IsFiniteSet(DOMAIN r.ranks)
      /\ r.valid \subseteq DOMAIN r.ranks
      /\ r.latency \subseteq Nat
  BY MaterializedFields
<1>2. \A actual : coverageMetric(Expected[c].units, actual) \in Value
  <2> TAKE actual
  <2>1. /\ Cardinality(Expected[c].units \cap Units(actual)) \in Nat
        /\ Cardinality(Expected[c].units) \in Nat
    BY <1>1, FinitePart
  <2> QED
    BY <2>1, ValueTypes DEF coverageMetric
<1>3. citationMetric(r) \in Value
  <2>1. Cardinality(r.valid) \in Nat /\ Cardinality(DOMAIN r.ranks) \in Nat
    BY <1>1, FinitePart
  <2> QED
    BY <2>1, ValueTypes DEF citationMetric
<1>4. expectedAbstentionMetric(Expected[c].outcome, r) \in Value
  BY ValueTypes DEF expectedAbstentionMetric
<1>5. telemetryMetric(r.latency) \in Value
  BY <1>1, ValueTypes DEF telemetryMetric
<1>6. scoredMetric(1, 1) \in Value /\ UnscoredMetric("needs_human_review") \in Value
  BY ValueTypes
<1> QED
  BY <1>2, <1>3, <1>4, <1>5, <1>6 DEF ScoreCaseV1, Metrics, Components, Value

\* A part of a finite whole that is not empty.
LEMMA Parts ==
    ASSUME NEW S, IsFiniteSet(S), S # {}, NEW T \in SUBSET S
    PROVE  /\ validateMetric(scoredMetric(Cardinality(T), Cardinality(S)))
           /\ Cardinality(T) <= Cardinality(S)
<1>1. Cardinality(S) \in Nat /\ Cardinality(T) \in Nat
  BY FinitePart
<1>2. Cardinality(S) # 0
  BY FS_EmptySet
<1> QED
  BY <1>1, <1>2, FS_Subset DEF validateMetric, scoredMetric

LEMMA UnscoredIsValid ==
    \A state \in {"not_applicable", "not_scored", "needs_human_review"} :
        LET metric == UnscoredMetric(state)
        IN validateMetric(metric) /\ metric.numerator = 0 /\ metric.denominator = 0
  BY DEF validateMetric, UnscoredMetric

\* Scores are parts of their wholes and only retrieved evidence is cited, for
\* every answer, every evidence and every expectation.
LEMMA AllSoundlyScored ==
    ASSUME NEW c \in Cases, NEW r \in Materialized(Answers)
    PROVE  SoundlyScored(c, r)
<1> DEFINE units == Expected[c].units
           score == ScoreCaseV1(Expected[c], r)
<1>1. /\ IsFiniteSet(units) /\ IsFiniteSet(DOMAIN r.ranks)
      /\ r.valid \subseteq DOMAIN r.ranks
      /\ r.latency \subseteq Nat
      /\ r.cited = [i \in r.valid |-> r.retrieved[r.ranks[i]]]
      /\ \A i \in r.valid : r.ranks[i] \in DOMAIN r.retrieved
  BY MaterializedFields
<1>2. Range(r.cited) \subseteq Range(r.retrieved)
  BY <1>1 DEF Range
<1>3. Units(r.cited) \subseteq Units(r.retrieved)
  BY <1>2 DEF Units
<1>4. ASSUME NEW actual
      PROVE  LET metric == coverageMetric(units, actual)
             IN validateMetric(metric) /\ metric.numerator <= metric.denominator
  <2>1. CASE units = {}
    BY <2>1, UnscoredIsValid DEF coverageMetric
  <2>2. CASE units # {}
    <3>1. /\ validateMetric(scoredMetric(Cardinality(units \cap Units(actual)),
                                         Cardinality(units)))
          /\ Cardinality(units \cap Units(actual)) <= Cardinality(units)
      BY <1>1, <2>2, Parts
    <3> QED
      BY <2>2, <3>1 DEF coverageMetric, scoredMetric
  <2> QED
    BY <2>1, <2>2
<1>5. /\ validateMetric(citationMetric(r))
      /\ citationMetric(r).numerator <= citationMetric(r).denominator
  <2>1. CASE DOMAIN r.ranks = {}
    BY <2>1, UnscoredIsValid DEF citationMetric
  <2>2. CASE DOMAIN r.ranks # {}
    <3>1. /\ validateMetric(scoredMetric(Cardinality(r.valid), Cardinality(DOMAIN r.ranks)))
          /\ Cardinality(r.valid) <= Cardinality(DOMAIN r.ranks)
      BY <1>1, <2>2, Parts
    <3> QED
      BY <2>2, <3>1 DEF citationMetric, scoredMetric
  <2> QED
    BY <2>1, <2>2
<1>6. LET metric == expectedAbstentionMetric(Expected[c].outcome, r)
      IN validateMetric(metric) /\ metric.numerator <= metric.denominator
  BY UnscoredIsValid DEF expectedAbstentionMetric, scoredMetric, validateMetric
<1>7. validateMetric(telemetryMetric(r.latency))
  BY <1>1, UnscoredIsValid DEF telemetryMetric, scoredMetric, validateMetric
<1>8. /\ validateMetric(scoredMetric(1, 1))
      /\ scoredMetric(1, 1).numerator <= scoredMetric(1, 1).denominator
      /\ validateMetric(UnscoredMetric("needs_human_review"))
      /\ UnscoredMetric("needs_human_review").numerator
           <= UnscoredMetric("needs_human_review").denominator
  BY UnscoredIsValid DEF scoredMetric, validateMetric
<1>9. validateTerminalResult(score)
  BY <1>4, <1>5, <1>6, <1>7, <1>8 DEF ScoreCaseV1, validateTerminalResult, Components
<1>10. \A m \in Components \ Measurements : score[m].numerator <= score[m].denominator
  BY <1>4, <1>5, <1>6, <1>8 DEF ScoreCaseV1, Components, Measurements
<1>11. score["citation_coverage"].numerator <= score["retrieval_coverage"].numerator
  <2>1. CASE units = {}
    BY <2>1, UnscoredIsValid DEF ScoreCaseV1, coverageMetric
  <2>2. CASE units # {}
    <3>1. units \cap Units(r.cited) \in SUBSET (units \cap Units(r.retrieved))
      BY <1>3
    <3>2. IsFiniteSet(units \cap Units(r.retrieved))
      BY <1>1, FS_Subset
    <3>3. Cardinality(units \cap Units(r.cited)) <= Cardinality(units \cap Units(r.retrieved))
      BY <3>1, <3>2, FS_Subset
    <3> QED
      BY <2>2, <3>3 DEF ScoreCaseV1, coverageMetric, scoredMetric
  <2> QED
    BY <2>1, <2>2
<1> QED
  BY <1>2, <1>9, <1>10, <1>11 DEF SoundlyScored

\* Every answer the agent may give is scored soundly.
THEOREM Soundness == ResultSpec => []ScoresAreSound
<1>1. ScoresAreSound
  BY AllSoundlyScored DEF ScoresAreSound
<1> QED
  BY <1>1, PTL

\* The metrics of a failure.
LEMMA NotScored ==
    /\ notScoredMetrics \in Metrics
    /\ \A state \in Failures : SoundRow([state |-> state, metrics |-> notScoredMetrics])
<1>1. \A m \in Components : notScoredMetrics[m] = UnscoredMetric("not_scored")
  BY DEF notScoredMetrics
<1>2. notScoredMetrics \in Metrics
  BY ValueTypes DEF notScoredMetrics, Metrics, Value
<1>3. validateTerminalResult(notScoredMetrics)
  BY <1>1 DEF validateTerminalResult, validateMetric, UnscoredMetric, notScoredMetrics
<1> QED
  BY <1>1, <1>2, <1>3 DEF SoundRow, validateComparisonCase, UnscoredMetric, Failures

\* What a processor hands to the store fits the state it comes with.
LEMMA ResultsAreScored ==
    ASSUME NEW c \in Cases, NEW result \in Results[c]
    PROVE  /\ result.state \in Terminal
           /\ SoundRow([state |-> result.state, metrics |-> result.metrics])
<1>1. CASE \E r \in Materialized(Responses) :
              result = [state |-> r.state, metrics |-> ScoreCaseV1(Expected[c], r)]
  <2>1. PICK r \in Materialized(Responses) :
            result = [state |-> r.state, metrics |-> ScoreCaseV1(Expected[c], r)]
    BY <1>1
  <2>2. PICK a \in Responses : Execute(a) = "result" /\ r = MaterializeCaseResult(a)
    BY DEF Materialized
  <2>3. r \in Materialized(Answers)
    BY <2>2, AnswersAssumption DEF Materialized
  <2>4. r.state \in {"completed", "abstained"}
    BY <2>2 DEF Execute, validResultState, MaterializeCaseResult
  <2>5. SoundlyScored(c, r) /\ ScoreCaseV1(Expected[c], r) \in Metrics
    BY <2>3, AllSoundlyScored, ScoreTypes
  <2> QED
    BY <2>1, <2>4, <2>5 DEF SoundlyScored, Terminal, SoundRow, validateComparisonCase, Failures
<1>2. CASE \E state \in Failures : result = [state |-> state, metrics |-> notScoredMetrics]
  BY <1>2, NotScored DEF Failures, Terminal
<1> QED
  BY <1>1, <1>2 DEF Results

-----------------------------------------------------------------------------
(* The transactions of this module are those of EvaluationRuns.            *)

LEMMA ResultSteps == [ResultNext]_resultVars => [Next]_vars
<1> SUFFICES ASSUME [ResultNext]_resultVars PROVE [Next]_vars
  OBVIOUS
<1>1. ASSUME NEW k \in Workers, NEW c \in Cases, CompleteResult(k, c) PROVE Complete(k, c)
  <2>1. PICK result \in Results[c] : /\ result.state \in Outcomes
                                     /\ Settle(k, c, result.state)
    BY <1>1 DEF CompleteResult
  <2> QED
    BY <2>1, ResultsAreScored DEF Complete
<1>2. ASSUME NEW k \in Workers, NEW c \in Cases, ReleaseResult(k, c)
      PROVE  ReleaseForRetry(k, c)
  BY <1>2 DEF ReleaseResult
<1>3. ASSUME NEW k \in Workers, CommitResult(k) PROVE Commit(k)
  BY <1>3 DEF CommitResult
<1>4. ASSUME NEW k \in Workers, AbortResult(k) PROVE Abort(k)
  BY <1>4 DEF AbortResult
<1>5. OtherStep => Next
  BY DEF OtherStep, Next
<1>6. ASSUME NEW i \in Readers, ReadRun(i) \/ ReadLedger(i) PROVE UNCHANGED vars
  BY <1>6 DEF ReadRun, ReadLedger
<1> QED
  BY <1>1, <1>2, <1>3, <1>4, <1>5, <1>6 DEF ResultNext, Next, resultVars

\* Every run of the ledger with its metrics is a run of the ledger.
THEOREM ResultsRefineRuns == ResultSpec => Spec
<1>1. ResultInit => Init
  BY DEF ResultInit
<1> QED
  BY <1>1, ResultSteps, PTL DEF ResultSpec, Spec

-----------------------------------------------------------------------------
(* The inductive invariant.                                                *)

\* A terminal row has the metrics that its state allows, another has none.
RowIsScored(state, rows) ==
    IF state \in Terminal
    THEN SoundRow([state |-> state, metrics |-> rows])
    ELSE rows = None

LedgerRows == /\ metrics = [c \in Cases |-> metrics[c]]
              /\ \A c \in Cases : RowIsScored(cases[c].state, metrics[c])

\* What k is about to commit, and the aggregates, which it computed from rows
\* that are still there.
Written(k) ==
    LET w == worker[k]
    IN  /\ RowIsScored(w.row.state, writing[k].metrics)
        /\ writing[k].aggregates =
              AggregatesSeen(Seen(w.case, w.row.state),
                             [metrics EXCEPT ![w.case] = writing[k].metrics], w.verdict)

WritingRows == /\ writing = [k \in Workers |-> writing[k]]
               /\ \A k \in Workers : worker[k].pc = "committing" => Written(k)

\* No case is claimed before the run runs.
QueuedIsUntouched == run = "queued" => \A c \in Cases : cases[c].state = "pending"

\* Whoever read an end still reads it.
ReadersAreRight == /\ reader = [i \in Readers |-> reader[i]]
                   /\ \A i \in Readers : reader[i] \in FinalRun => run = reader[i]

RInv == /\ IInv
        /\ LedgerRows
        /\ WritingRows
        /\ AggregatesTallyTheLedger
        /\ QueuedIsUntouched
        /\ ReadersAreRight

-----------------------------------------------------------------------------
(* Steps that commit no settlement.                                        *)

\* They give no case a terminal state, take none away and end no run.
LEMMA NothingEnds ==
    ASSUME IInv, UNCHANGED <<run, cases>> \/ (\E c \in Cases : Expire(c))
                                          \/ (\E k \in Workers : Claim(k))
    PROVE  /\ \A c \in Cases : {cases[c].state, cases'[c].state} \cap Terminal # {}
                             => cases'[c].state = cases[c].state
           /\ run' = run \/ (run' = "running" /\ run = "queued")
<1>1. cases \in [Cases -> CaseRow]
  BY DEF IInv, TypeOK
<1>2. ASSUME NEW x \in Cases, Expire(x)
      PROVE  run' = run /\ \A c \in Cases : cases'[c].state = cases[c].state
  BY <1>1, <1>2 DEF Expire, CaseRow
<1>3. ASSUME NEW k \in Workers, Claim(k)
      PROVE  /\ run' = run \/ (run' = "running" /\ run = "queued")
             /\ \A c \in Cases : {cases[c].state, cases'[c].state} \cap Terminal # {}
                             => cases'[c].state = cases[c].state
  <2>1. \A c \in Batch : cases[c].state \in {"pending", "leased"}
    BY DEF Batch, Claimable
  <2>2. \A c \in Cases : cases'[c] = IF c \in Batch THEN LeasedRow(k, c) ELSE cases[c]
    BY <1>3 DEF Claim
  <2> QED
    BY <1>3, <2>1, <2>2 DEF Claim, LeasedRow, Terminal
<1> QED
  BY <1>2, <1>3

\* What a transaction has written stays right: if it aggregated, no case but
\* its own can change.
LEMMA StillWritten ==
    ASSUME RInv, UNCHANGED metrics,
           \A c \in Cases : cases[c].state \in Terminal => cases'[c].state = cases[c].state,
           NEW x \in Workers, worker[x].pc = "committing",
           worker'[x] = worker[x], writing'[x] = writing[x]
    PROVE  Written(x)'
<1>1. Written(x) /\ Commits(x)
  BY DEF RInv, WritingRows, IInv, CommitsHold
<1>2. CASE worker[x].verdict = None
  BY <1>1, <1>2 DEF Written, AggregatesSeen
<1>3. CASE worker[x].verdict # None
  <2>1. \A y \in Cases \ {worker[x].case} : cases[y].state \notin {"pending", "leased"}
    BY <1>1, <1>3 DEF Commits, Open, Seen
  <2>2. \A y \in Cases \ {worker[x].case} : cases[y].state \in Terminal
    BY <2>1 DEF RInv, IInv, TypeOK, CaseRow
  <2>3. Seen(worker[x].case, worker[x].row.state)' = Seen(worker[x].case, worker[x].row.state)
    BY <2>2 DEF Seen
  <2> QED
    BY <1>1, <2>3 DEF Written
<1> QED
  BY <1>2, <1>3

\* Such a step keeps the invariant if a transaction it begins wrote its rows.
LEMMA StepsBeforeCommit ==
    ASSUME RInv, IInv', UNCHANGED <<metrics, aggregates>>,
           \/ UNCHANGED <<run, cases>>
           \/ \E c \in Cases : Expire(c)
           \/ \E k \in Workers : Claim(k),
           WritingRows', ReadersAreRight'
    PROVE  RInv'
<1>1. /\ \A c \in Cases : {cases[c].state, cases'[c].state} \cap Terminal # {}
                             => cases'[c].state = cases[c].state
      /\ run' = run \/ (run' = "running" /\ run = "queued")
  BY NothingEnds DEF RInv
<1>2. LedgerRows'
  BY <1>1 DEF RInv, LedgerRows, RowIsScored
<1>3. Ledger' = Ledger
  <2>1. {c \in Cases : States[c] \in Terminal /\ metrics[c] # None}'
          = {c \in Cases : States[c] \in Terminal /\ metrics[c] # None}
    BY <1>1 DEF States
  <2>2. \A c \in Cases : States[c] \in Terminal => States'[c] = States[c]
    BY <1>1 DEF States
  <2> QED
    BY <2>1, <2>2 DEF Ledger, LedgerOf
<1>4. AggregatesTallyTheLedger'
  BY <1>1, <1>3 DEF RInv, AggregatesTallyTheLedger, FinalRun
<1>5. QueuedIsUntouched'
  <2> SUFFICES ASSUME run' = "queued" PROVE \A c \in Cases : cases'[c].state = "pending"
    BY DEF QueuedIsUntouched
  <2>1. run = "queued" /\ \A c \in Cases : cases[c].state = "pending"
    BY <1>1 DEF RInv, QueuedIsUntouched
  <2>2. UNCHANGED cases
    BY <2>1 DEF Expire, Claim
  <2> QED
    BY <2>1, <2>2
<1> QED
  BY <1>2, <1>4, <1>5 DEF RInv

\* Readers are left alone.
LEMMA ReadersStay ==
    ASSUME RInv, [Next]_vars, UNCHANGED reader
    PROVE  ReadersAreRight'
<1>1. run \in FinalRun => run' = run
  BY DEF Next, vars, FinalRun, Expire, Claim, Complete, ReleaseForRetry, Settle,
      RefuseUnscored, LeaseLost, Commit, Abort
<1> QED
  BY <1>1 DEF RInv, ReadersAreRight

\* A transaction settles a case and writes the rows of its new state.
LEMMA SettleWrites ==
    ASSUME RInv, IInv', [Next]_vars, NEW k \in Workers, NEW c \in Cases,
           NEW state, NEW rows, Settle(k, c, state), Writes(k, c, rows),
           UNCHANGED <<metrics, aggregates, reader>>, RowIsScored(state, rows)
    PROVE  RInv'
<1>1. /\ UNCHANGED <<run, cases>>
      /\ worker'[k].pc = "committing" /\ worker'[k].case = c
      /\ worker'[k].row.state = state
      /\ \A x \in Workers \ {k} : worker'[x] = worker[x]
  <2>1. worker \in [Workers -> WorkerState]
    BY DEF RInv, IInv, TypeOK
  <2>2. worker' = [worker EXCEPT ![k] = [worker[k] EXCEPT
            !.pc = "committing", !.case = c, !.row = Settled(c, state),
            !.verdict = Verdict(Seen(c, state))]]
    BY DEF Settle
  <2> QED
    BY <2>1, <2>2 DEF Settle, WorkerState, Settled
<1>2. /\ writing' = [x \in Workers |-> writing'[x]]
      /\ \A x \in Workers \ {k} : writing'[x] = writing[x]
      /\ writing'[k].metrics = rows
      /\ writing'[k].aggregates =
            AggregatesSeen(Seen(c, state), [metrics EXCEPT ![c] = rows], worker'[k].verdict)
  <2> DEFINE new == [metrics |-> rows,
                     aggregates |-> AggregatesSeen(Seen(c, worker'[k].row.state),
                                        [metrics EXCEPT ![c] = rows], worker'[k].verdict)]
  <2>1. /\ writing' = [writing EXCEPT ![k] = new]
        /\ writing = [x \in Workers |-> writing[x]]
    BY DEF Writes, RInv, WritingRows
  <2>2. /\ new.metrics = rows
        /\ new.aggregates = AggregatesSeen(Seen(c, state), [metrics EXCEPT ![c] = rows],
                                           worker'[k].verdict)
    BY <1>1
  <2> HIDE DEF new
  <2> QED
    BY <2>1, <2>2
<1>3. Written(k)'
  <2>1. (Seen(c, state))' = Seen(c, state)
    BY <1>1 DEF Seen
  <2>2. writing'[k].aggregates =
          AggregatesSeen((Seen(c, state))', [metrics EXCEPT ![c] = rows], worker'[k].verdict)
    BY <1>2, <2>1
  <2> QED
    BY <1>1, <1>2, <2>2 DEF Written, AggregatesSeen
<1>4. ASSUME NEW x \in Workers \ {k}, worker'[x].pc = "committing" PROVE Written(x)'
  BY <1>1, <1>2, <1>4, StillWritten
<1>5. WritingRows'
  BY <1>2, <1>3, <1>4 DEF WritingRows
<1> QED
  BY <1>1, <1>5, ReadersStay, StepsBeforeCommit

\* A step of one worker that settles nothing, or of none.
LEMMA NothingWritten ==
    ASSUME RInv, IInv', [Next]_vars, UNCHANGED <<metrics, aggregates, reader>>,
           \/ UNCHANGED <<run, cases>>
           \/ \E c \in Cases : Expire(c)
           \/ \E k \in Workers : Claim(k),
           writing' = [x \in Workers |-> writing'[x]],
           \A x \in Workers : worker'[x].pc = "committing"
              => worker'[x] = worker[x] /\ writing'[x] = writing[x]
    PROVE  RInv'
<1>1. \A c \in Cases : cases[c].state \in Terminal => cases'[c].state = cases[c].state
  BY NothingEnds DEF RInv
<1>2. ASSUME NEW x \in Workers, worker'[x].pc = "committing" PROVE Written(x)'
  BY <1>1, <1>2, StillWritten
<1>3. WritingRows'
  BY <1>2 DEF WritingRows
<1> QED
  BY <1>3, ReadersStay, StepsBeforeCommit

-----------------------------------------------------------------------------
(* The commit of a settlement.                                             *)

LEMMA CommitWrites ==
    ASSUME RInv, IInv', [Next]_vars, NEW k \in Workers, CommitResult(k)
    PROVE  RInv'
<1> DEFINE w == worker[k]
           c == w.case
<1>1. /\ w \in WorkerState /\ w.pc = "committing"
      /\ cases \in [Cases -> CaseRow] /\ worker \in [Workers -> WorkerState]
      /\ c \in Cases /\ Commits(k) /\ Written(k)
  BY DEF RInv, IInv, TypeOK, CommitsHold, Commits, CommitResult, Commit, WritingRows
<1>2. /\ cases' = [cases EXCEPT ![c] = w.row]
      /\ run' = IF w.verdict # None /\ run = "running" THEN w.verdict ELSE run
      /\ worker' = [worker EXCEPT ![k] = Working(w.batch \ {c})]
      /\ metrics' = [metrics EXCEPT ![c] = writing[k].metrics]
      /\ aggregates' = aggregates \cup writing[k].aggregates
      /\ writing' = [writing EXCEPT ![k] = NoWriting]
      /\ UNCHANGED reader
  BY DEF CommitResult, Commit
<1>3. Working(w.batch \ {c}).pc # "committing"
  BY <1>1, WorkingState DEF WorkerState
<1>4. /\ w.row.state # "leased" /\ cases[c].state = "leased" /\ cases[c].holder = k
      /\ RowIsScored(w.row.state, writing[k].metrics)
      /\ writing[k].aggregates =
            AggregatesSeen(Seen(c, w.row.state), [metrics EXCEPT ![c] = writing[k].metrics],
                           w.verdict)
      /\ w.verdict # None => w.verdict \in FinalRun
  BY <1>1 DEF Commits, HoldsLease, Written
<1> HIDE DEF w, c
<1>5. /\ cases'[c] = w.row /\ \A x \in Cases \ {c} : cases'[x] = cases[x]
      /\ \A x \in Workers \ {k} : worker'[x] = worker[x]
      /\ worker'[k].pc # "committing"
  BY <1>1, <1>2, <1>3
<1>6. run = "running"
  <2>1. run # "queued"
    BY <1>1, <1>4 DEF RInv, QueuedIsUntouched
  <2>2. run \notin FinalRun
    BY <1>1, <1>4 DEF RInv, IInv, EndedRunIsTallied, Open, States
  <2> QED
    BY <2>1, <2>2 DEF RInv, IInv, TypeOK, RunState
<1>7. LedgerRows'
  <2>1. metrics = [x \in Cases |-> metrics[x]]
    BY DEF RInv, LedgerRows
  <2>2. /\ metrics' = [x \in Cases |-> metrics'[x]]
        /\ metrics'[c] = writing[k].metrics
        /\ \A x \in Cases \ {c} : metrics'[x] = metrics[x]
    BY <1>1, <1>2, <2>1
  <2> QED
    BY <1>4, <1>5, <2>2 DEF RInv, LedgerRows, RowIsScored
<1>8. WritingRows'
  <2>1. writing' = [x \in Workers |-> writing'[x]] /\ \A x \in Workers \ {k} : writing'[x] = writing[x]
    BY <1>2 DEF RInv, WritingRows
  <2>2. ASSUME NEW x \in Workers, worker'[x].pc = "committing" PROVE Written(x)'
    <3>1. x # k /\ worker'[x] = worker[x] /\ writing'[x] = writing[x]
      BY <1>5, <2>1, <2>2
    <3>2. Written(x) /\ Commits(x)
      BY <2>2, <3>1 DEF RInv, WritingRows, IInv, CommitsHold
    <3>3. worker[x].case # c
      BY <1>4, <3>1, <3>2 DEF Commits, HoldsLease
    <3>4. worker[x].verdict = None
      BY <1>1, <1>4, <3>2, <3>3 DEF Commits, Open, Seen
    <3> QED
      BY <3>1, <3>2, <3>4 DEF Written, AggregatesSeen
  <2> QED
    BY <2>1, <2>2 DEF WritingRows
<1>9. AggregatesTallyTheLedger'
  <2>1. aggregates = {}
    BY <1>6 DEF RInv, AggregatesTallyTheLedger, FinalRun
  <2>2. CASE w.verdict = None
    BY <1>2, <1>4, <1>6, <2>1, <2>2 DEF AggregatesSeen, AggregatesTallyTheLedger, FinalRun
  <2>3. CASE w.verdict # None
    <3>1. run' \in FinalRun
      BY <1>2, <1>4, <1>6, <2>3
    <3>2. States' = Seen(c, w.row.state)
      BY <1>5 DEF States, Seen
    <3>3. Ledger' = LedgerOf(Seen(c, w.row.state), [metrics EXCEPT ![c] = writing[k].metrics])
      BY <1>2, <3>2 DEF Ledger, LedgerOf
    <3>4. aggregates' = {Aggregates(Ledger')}
      BY <1>2, <1>4, <2>1, <2>3, <3>3 DEF AggregatesSeen
    <3> QED
      BY <3>1, <3>4 DEF AggregatesTallyTheLedger
  <2> QED
    BY <2>2, <2>3
<1>10. QueuedIsUntouched'
  BY <1>2, <1>4, <1>6 DEF QueuedIsUntouched, FinalRun
<1>11. ReadersAreRight'
  BY <1>2, ReadersStay
<1> QED
  BY <1>7, <1>8, <1>9, <1>10, <1>11 DEF RInv

-----------------------------------------------------------------------------
(* The invariant.                                                          *)

LEMMA InitRInv == ResultInit => RInv
<1> SUFFICES ASSUME ResultInit PROVE RInv
  OBVIOUS
<1>1. IInv
  BY InitIInv DEF ResultInit
<1>2. /\ run = "queued" /\ aggregates = {}
      /\ \A c \in Cases : cases[c].state = "pending" /\ metrics[c] = None
      /\ \A k \in Workers : worker[k].pc = "idle"
      /\ \A i \in Readers : reader[i] = None
  BY DEF ResultInit, Init, NewCase, Idle
<1>3. LedgerRows
  BY <1>2 DEF ResultInit, LedgerRows, RowIsScored, Terminal
<1>4. WritingRows
  BY <1>2 DEF ResultInit, WritingRows
<1>5. AggregatesTallyTheLedger /\ QueuedIsUntouched
  BY <1>2 DEF AggregatesTallyTheLedger, QueuedIsUntouched, FinalRun
<1>6. ReadersAreRight
  BY <1>2, VerdictAssumption DEF ResultInit, ReadersAreRight, RunState
<1> QED
  BY <1>1, <1>3, <1>4, <1>5, <1>6 DEF RInv

LEMMA StepRInv == RInv /\ [ResultNext]_resultVars => RInv'
<1> SUFFICES ASSUME RInv, [ResultNext]_resultVars PROVE RInv'
  OBVIOUS
<1>1. [Next]_vars /\ IInv'
  BY ResultSteps, StepIInv DEF RInv
<1>2. /\ worker \in [Workers -> WorkerState]
      /\ writing = [x \in Workers |-> writing[x]]
      /\ reader = [i \in Readers |-> reader[i]]
  BY DEF RInv, IInv, TypeOK, WritingRows, ReadersAreRight
<1>3. ASSUME NEW k \in Workers, NEW c \in Cases, CompleteResult(k, c) PROVE RInv'
  <2>1. PICK result \in Results[c] :
            /\ validateTerminalResult(result.metrics)
            /\ Settle(k, c, result.state)
            /\ Writes(k, c, result.metrics)
    BY <1>3 DEF CompleteResult
  <2>2. RowIsScored(result.state, result.metrics)
    BY ResultsAreScored DEF RowIsScored
  <2> QED
    BY <1>1, <1>3, <2>1, <2>2, SettleWrites DEF CompleteResult
<1>4. ASSUME NEW k \in Workers, NEW c \in Cases, ReleaseResult(k, c) PROVE RInv'
  <2> DEFINE state == Retried(c)
  <2>1. Settle(k, c, state) /\ Writes(k, c, ReleasedMetrics(worker'[k].row.state))
    BY <1>4 DEF ReleaseResult, ReleaseForRetry
  <2>2. worker'[k].row.state = state
    BY <1>2, <2>1 DEF Settle, WorkerState, Settled
  <2>3. RowIsScored(state, ReleasedMetrics(state))
    BY NotScored DEF Retried, RowIsScored, ReleasedMetrics, Terminal, Failures
  <2> HIDE DEF state
  <2>4. Writes(k, c, ReleasedMetrics(state))
    BY <2>1, <2>2 DEF Writes
  <2> QED
    BY <1>1, <1>4, <2>1, <2>3, <2>4, SettleWrites DEF ReleaseResult
<1>5. ASSUME NEW k \in Workers, CommitResult(k) PROVE RInv'
  BY <1>1, <1>5, CommitWrites
<1>6. ASSUME NEW k \in Workers, AbortResult(k) PROVE RInv'
  <2>1. /\ worker' = [worker EXCEPT ![k] = Idle] /\ UNCHANGED <<run, cases>>
        /\ writing' = [writing EXCEPT ![k] = NoWriting]
        /\ UNCHANGED <<metrics, aggregates, reader>>
    BY <1>6 DEF AbortResult, Abort
  <2>2. Idle.pc # "committing"
    BY WorkingState
  <2>3. \A x \in Workers : worker'[x].pc = "committing"
            => worker'[x] = worker[x] /\ writing'[x] = writing[x]
    BY <1>2, <2>1, <2>2
  <2>4. writing' = [x \in Workers |-> writing'[x]]
    BY <1>2, <2>1
  <2> QED
    BY <1>1, <2>1, <2>3, <2>4, NothingWritten
<1>7. CASE OtherStep
  <2>1. UNCHANGED <<metrics, aggregates, writing, reader>>
    BY <1>7 DEF OtherStep
  <2>2. ASSUME NEW k \in Workers, NEW w, w.pc # "committing",
               worker' = [worker EXCEPT ![k] = w]
        PROVE  \A x \in Workers : worker'[x].pc = "committing" => worker'[x] = worker[x]
    BY <1>2, <2>2
  <2>3. CASE \E c \in Cases : Expire(c)
    <3>1. UNCHANGED worker
      BY <2>3 DEF Expire
    <3> QED
      BY <1>1, <1>2, <2>1, <2>3, <3>1, NothingWritten
  <2>4. ASSUME NEW k \in Workers, Claim(k) PROVE RInv'
    <3>1. Working(Batch).pc # "committing"
      BY WorkingState DEF Batch, Claimable
    <3>2. \A x \in Workers : worker'[x].pc = "committing" => worker'[x] = worker[x]
      BY <2>2, <2>4, <3>1 DEF Claim
    <3> QED
      BY <1>1, <1>2, <2>1, <2>4, <3>2, NothingWritten
  <2>5. ASSUME NEW k \in Workers, NEW c \in Cases, RefuseUnscored(k, c) \/ LeaseLost(k, c)
        PROVE  RInv'
    <3>1. worker[k].batch \ {c} \in SUBSET Cases
      BY <1>2 DEF WorkerState
    <3>2. Idle.pc # "committing" /\ Working(worker[k].batch \ {c}).pc # "committing"
      BY <3>1, WorkingState
    <3>3. \/ worker' = [worker EXCEPT ![k] = Idle]
          \/ worker' = [worker EXCEPT ![k] = Working(worker[k].batch \ {c})]
      BY <2>5 DEF RefuseUnscored, LeaseLost
    <3>4. \A x \in Workers : worker'[x].pc = "committing" => worker'[x] = worker[x]
      BY <2>2, <3>2, <3>3
    <3>5. UNCHANGED <<run, cases>>
      BY <2>5 DEF RefuseUnscored, LeaseLost
    <3> QED
      BY <1>1, <1>2, <2>1, <3>4, <3>5, NothingWritten
  <2> QED
    BY <1>7, <2>3, <2>4, <2>5 DEF OtherStep
<1>8. ASSUME UNCHANGED <<vars, metrics, aggregates, writing>>, ReadersAreRight' PROVE RInv'
  <2>1. UNCHANGED <<run, cases, worker, metrics, aggregates, writing>>
    BY <1>8 DEF vars
  <2>2. \A k \in Workers : Written(k)' = Written(k)
    BY <2>1 DEF Written, Seen
  <2>3. WritingRows'
    BY <2>1, <2>2 DEF RInv, WritingRows
  <2> QED
    BY <1>1, <1>8, <2>1, <2>3, StepsBeforeCommit
<1>9. ASSUME NEW i \in Readers, ReadRun(i) PROVE RInv'
  <2>1. /\ reader' = [reader EXCEPT ![i] = run]
        /\ UNCHANGED <<vars, metrics, aggregates, writing>>
        /\ UNCHANGED run
    BY <1>9 DEF ReadRun, vars
  <2>2. ReadersAreRight'
    BY <1>2, <2>1 DEF RInv, ReadersAreRight
  <2> QED
    BY <1>8, <2>1, <2>2
<1>10. ASSUME NEW i \in Readers, ReadLedger(i) PROVE RInv'
  <2>1. /\ reader' = [reader EXCEPT ![i] = None]
        /\ UNCHANGED <<vars, metrics, aggregates, writing>>
        /\ UNCHANGED run
    BY <1>10 DEF ReadLedger, vars
  <2>2. None \notin FinalRun
    BY VerdictAssumption DEF RunState
  <2>3. ReadersAreRight'
    BY <1>2, <2>1, <2>2 DEF RInv, ReadersAreRight
  <2> QED
    BY <1>8, <2>1, <2>3
<1>11. CASE UNCHANGED resultVars
  <2>1. UNCHANGED <<vars, metrics, aggregates, writing>> /\ UNCHANGED <<run, reader>>
    BY <1>11 DEF resultVars, vars
  <2>2. ReadersAreRight'
    BY <2>1 DEF RInv, ReadersAreRight
  <2> QED
    BY <1>8, <2>1, <2>2
<1> QED
  BY <1>3, <1>4, <1>5, <1>6, <1>7, <1>9, <1>10, <1>11 DEF ResultNext

\* The ledger and its metrics, whatever the workers do and the agent answers.
THEOREM ResultInvariance == ResultSpec => []RInv
  BY InitRInv, StepRInv, PTL DEF ResultSpec

-----------------------------------------------------------------------------
(* The results.                                                            *)

\* A terminal case is in the ledger, and an open one is not.
LEMMA LedgerDomain ==
    ASSUME RInv
    PROVE  /\ DOMAIN Ledger = Cases \ Open(States)
           /\ \A c \in DOMAIN Ledger :
                 /\ Ledger[c] = [state |-> cases[c].state, metrics |-> metrics[c]]
                 /\ RowIsScored(cases[c].state, metrics[c]) /\ cases[c].state \in Terminal
<1>1. DOMAIN Ledger = {c \in Cases : cases[c].state \in Terminal /\ metrics[c] # None}
  BY DEF Ledger, LedgerOf, States
<1>2. \A c \in Cases : cases[c].state \in Terminal <=> cases[c].state \notin {"pending", "leased"}
  BY DEF RInv, IInv, TypeOK, CaseRow, Terminal
<1>3. \A c \in Cases : /\ RowIsScored(cases[c].state, metrics[c])
                       /\ cases[c].state \in Terminal => metrics[c] # None
  BY RowsAssumption DEF RInv, LedgerRows, RowIsScored, SoundRow
<1>4. Open(States) = {c \in Cases : cases[c].state \in {"pending", "leased"}}
  BY DEF Open, States
<1>5. \A c \in DOMAIN Ledger : Ledger[c] = [state |-> cases[c].state, metrics |-> metrics[c]]
  BY DEF Ledger, LedgerOf, States
<1> QED
  BY <1>1, <1>2, <1>3, <1>4, <1>5

\* Terminal cases, and no others, have a complete and valid set of metrics,
\* and failures are not scored.
THEOREM TerminalCasesAreScored == ResultSpec => []LedgerIsScored
<1>1. ASSUME RInv PROVE LedgerIsScored
  <2>1. ASSUME NEW c \in Cases, metrics[c] # None PROVE c \in DOMAIN Ledger
    BY <1>1, <2>1 DEF RInv, LedgerRows, RowIsScored, Ledger, LedgerOf, States
  <2>2. ASSUME NEW c \in DOMAIN Ledger PROVE validateComparisonCase(Ledger[c])
    BY <1>1, <2>2, LedgerDomain DEF RowIsScored, SoundRow
  <2> QED
    BY <1>1, <2>1, <2>2, LedgerDomain DEF LedgerIsScored
<1> QED
  BY <1>1, ResultInvariance, PTL

\* The aggregates are written once, with the end of the run, and tally every
\* case of it.
THEOREM AggregatesTally == ResultSpec => []AggregatesTallyTheLedger
<1>1. RInv => AggregatesTallyTheLedger
  BY DEF RInv
<1> QED
  BY <1>1, ResultInvariance, PTL

\* A reader that saw the end of a run finds its complete ledger afterwards.
THEOREM ReadersSeeIt == ResultSpec => ReadersSeeTheEnd
<1>1. ASSUME RInv, NEW i \in Readers, reader[i] \in FinalRun
      PROVE  /\ reader[i] = terminalRunState(States)
             /\ DOMAIN Ledger = Cases
             /\ aggregates = {Aggregates(Ledger)}
  <2>1. run = reader[i]
    BY <1>1 DEF RInv, ReadersAreRight
  <2>2. Open(States) = {} /\ run = terminalRunState(States)
    BY <1>1, <2>1 DEF RInv, IInv, EndedRunIsTallied
  <2>3. DOMAIN Ledger = Cases
    BY <1>1, <2>2, LedgerDomain
  <2> QED
    BY <1>1, <2>1, <2>2, <2>3 DEF RInv, AggregatesTallyTheLedger
<1>2. RInv => [\A i \in Readers : reader[i] \in FinalRun /\ reader'[i] = None
                  => /\ reader[i] = terminalRunState(States)
                     /\ DOMAIN Ledger = Cases
                     /\ aggregates = {Aggregates(Ledger)}]_resultVars
  BY <1>1
<1> QED
  BY <1>2, ResultInvariance, PTL DEF ReadersSeeTheEnd

-----------------------------------------------------------------------------
(* Comparisons.                                                            *)

\* What is assumed of the ledger of an earlier run.
LedgerIsSound == /\ IsFiniteSet(DOMAIN Ledger)
                 /\ \A c \in DOMAIN Ledger : SoundRow(Ledger[c])

LEMMA LedgerRowsAreSound ==
    ASSUME RInv
    PROVE  LedgerIsSound
<1>1. IsFiniteSet(DOMAIN Ledger)
  BY LedgerDomain, CasesAssumption, FS_Difference
<1>2. ASSUME NEW c \in DOMAIN Ledger PROVE SoundRow(Ledger[c])
  BY <1>2, LedgerDomain DEF RowIsScored
<1> QED
  BY <1>1, <1>2 DEF LedgerIsSound

\* The ledger of a run has what the module assumes of that of an earlier one.
THEOREM LedgersAreSound == ResultSpec => []LedgerIsSound
  BY LedgerRowsAreSound, ResultInvariance, PTL

\* The sums over sound rows in which a component is scored are a sound score.
LEMMA SummedScore ==
    ASSUME NEW ledger, NEW m \in Components, NEW S \in SUBSET DOMAIN ledger,
           IsFiniteSet(S), S # {},
           \A c \in S : SoundRow(ledger[c]) /\ ledger[c].metrics[m].state = "scored"
    PROVE  LET score == scoredMetric(Numerators(ledger, m, S), Denominators(ledger, m, S))
           IN  /\ validateMetric(score)
               /\ m \notin Measurements => score.numerator <= score.denominator
<1> DEFINE n == [c \in S |-> ledger[c].metrics[m].numerator]
           d == [c \in S |-> ledger[c].metrics[m].denominator]
<1>1. ASSUME NEW c \in S
      PROVE  /\ n[c] \in Nat /\ d[c] \in Nat \ {0}
             /\ m \notin Measurements => n[c] <= d[c]
  <2>1. validateMetric(ledger[c].metrics[m])
    BY DEF SoundRow, validateComparisonCase, validateTerminalResult
  <2>2. ledger[c].metrics[m].numerator \in Nat /\ ledger[c].metrics[m].denominator \in Nat
    BY DEF SoundRow, Metrics
  <2> QED
    BY <2>1, <2>2 DEF SoundRow, validateMetric
<1> HIDE DEF n, d
<1>2. Total(n, S) \in Nat /\ Total(d, S) \in Nat
  BY <1>1, TotalsOrdered
<1>3. Total(d, S) > 0
  BY <1>1, TotalIsPositive
<1>4. m \notin Measurements => Total(n, S) <= Total(d, S)
  BY <1>1, TotalsOrdered
<1>5. Numerators(ledger, m, S) = Total(n, S) /\ Denominators(ledger, m, S) = Total(d, S)
  BY DEF Numerators, Denominators, n, d
<1> QED
  BY <1>2, <1>3, <1>4, <1>5 DEF scoredMetric, validateMetric

\* The comparison in Go and the aggregates of the store sum the same rows.
LEMMA ComparisonAgrees ==
    ASSUME RInv
    PROVE  ComparisonAgreesWithAggregates
<1> SUFFICES ASSUME run \in FinalRun, NEW metric \in aggregates, NEW m \in Components
             PROVE  LET delta == MetricDelta(Ledger, Ledger, m)
                    IN /\ delta[1] = delta[2]
                       /\ IF metric[m].state = "scored" THEN delta[1] = metric[m]
                          ELSE delta[1].state = "not_scored"
  BY DEF ComparisonAgreesWithAggregates
<1> DEFINE S == With(Ledger, m, "scored")
<1>1. metric[m] = aggregateMetricValue(Ledger, m)
  BY DEF RInv, AggregatesTallyTheLedger, Aggregates
<1>2. JointlyScored(Ledger, Ledger, m) = S
  <2>1. \A c \in DOMAIN Ledger : Ledger[c].state \in Failures
                                 => Ledger[c].metrics[m].state # "scored"
    BY LedgerRowsAreSound DEF LedgerIsSound, SoundRow, validateComparisonCase
  <2> QED
    BY <2>1 DEF JointlyScored, With, PairedCases, FailedOrCancelled
<1> HIDE DEF S
<1>3. CASE S = {}
  BY <1>1, <1>2, <1>3 DEF MetricDelta, aggregateMetricValue, UnscoredMetric, S
<1>4. CASE S # {}
  BY <1>1, <1>2, <1>4 DEF MetricDelta, aggregateMetricValue, scoredMetric, S
<1> QED
  BY <1>3, <1>4

\* Pairs and single cases add up, and what is compared is sound.
LEMMA ComparisonAdds ==
    ASSUME RInv
    PROVE  ComparisonAddsUp
<1> SUFFICES ASSUME run \in FinalRun
             PROVE  LET totals == ComparisonTotals(Earlier, Ledger)
                    IN /\ totals.paired + totals.leftOnly = Cardinality(DOMAIN Earlier)
                       /\ totals.paired + totals.rightOnly = Cardinality(Cases)
                       /\ \A m \in Components :
                             LET delta == MetricDelta(Earlier, Ledger, m)
                             IN /\ delta[1].state = delta[2].state
                                /\ \A side \in {1, 2} :
                                      /\ validateMetric(delta[side])
                                      /\ m \notin Measurements =>
                                            delta[side].numerator <= delta[side].denominator
  BY DEF ComparisonAddsUp
<1>1. DOMAIN Ledger = Cases
  BY LedgerDomain DEF RInv, IInv, EndedRunIsTallied
<1>2. IsFiniteSet(DOMAIN Earlier) /\ IsFiniteSet(DOMAIN Ledger)
  BY <1>1, EarlierAssumption, CasesAssumption
<1>3. ASSUME NEW D, NEW E, IsFiniteSet(D), IsFiniteSet(E)
      PROVE  /\ Cardinality(D \cap E) + Cardinality(D \ E) = Cardinality(D)
             /\ Cardinality(D \cap E) + Cardinality(E \ D) = Cardinality(E)
  <2>1. D \cap E = E \cap D
    OBVIOUS
  <2>2. Cardinality(D \ E) = Cardinality(D) - Cardinality(D \cap E)
    BY <1>3, FS_Difference
  <2>3. Cardinality(E \ D) = Cardinality(E) - Cardinality(E \cap D)
    BY <1>3, FS_Difference
  <2>4. Cardinality(D) \in Nat /\ Cardinality(E) \in Nat /\ Cardinality(D \cap E) \in Nat
    BY <1>3, FS_CardinalityType, FS_Intersection
  <2> QED
    BY <2>1, <2>2, <2>3, <2>4
<1>4. LET totals == ComparisonTotals(Earlier, Ledger)
      IN /\ totals.paired + totals.leftOnly = Cardinality(DOMAIN Earlier)
         /\ totals.paired + totals.rightOnly = Cardinality(Cases)
  BY <1>1, <1>2, <1>3 DEF ComparisonTotals, PairedCases
<1>5. ASSUME NEW m \in Components
      PROVE  LET delta == MetricDelta(Earlier, Ledger, m)
             IN /\ delta[1].state = delta[2].state
                /\ \A side \in {1, 2} :
                      /\ validateMetric(delta[side])
                      /\ m \notin Measurements =>
                            delta[side].numerator <= delta[side].denominator
  <2> DEFINE S == JointlyScored(Earlier, Ledger, m)
             score(ledger) == scoredMetric(Numerators(ledger, m, S), Denominators(ledger, m, S))
  <2>1. /\ S \in SUBSET DOMAIN Earlier /\ S \in SUBSET DOMAIN Ledger
        /\ \A c \in S : /\ Earlier[c].metrics[m].state = "scored"
                         /\ Ledger[c].metrics[m].state = "scored"
    BY DEF JointlyScored, PairedCases
  <2>2. IsFiniteSet(S)
    BY <1>2, <2>1, FS_Subset
  <2>3. \A c \in S : SoundRow(Earlier[c]) /\ SoundRow(Ledger[c])
    BY <2>1, EarlierAssumption, LedgerRowsAreSound DEF LedgerIsSound
  <2>4. CASE S = {}
    BY <2>4, UnscoredIsValid DEF MetricDelta, UnscoredMetric
  <2>5. CASE S # {}
    <3> HIDE DEF S
    <3>1. /\ validateMetric(score(Earlier))
          /\ m \notin Measurements => score(Earlier).numerator <= score(Earlier).denominator
      BY <2>1, <2>2, <2>3, <2>5, SummedScore
    <3>2. /\ validateMetric(score(Ledger))
          /\ m \notin Measurements => score(Ledger).numerator <= score(Ledger).denominator
      BY <2>1, <2>2, <2>3, <2>5, SummedScore
    <3>3. score(Earlier).state = score(Ledger).state
      BY DEF scoredMetric
    <3>4. MetricDelta(Earlier, Ledger, m) = <<score(Earlier), score(Ledger)>>
      BY <2>5 DEF MetricDelta, S
    <3> HIDE DEF score
    <3> QED
      BY <3>1, <3>2, <3>3, <3>4
  <2> QED
    BY <2>4, <2>5
<1> QED
  BY <1>4, <1>5

\* A run compared with itself shows its aggregates; compared with an earlier
\* run, every case is counted once and every score is one.
THEOREM Comparisons == ResultSpec => []ComparisonsAreSound
<1>1. RInv => ComparisonsAreSound
  BY ComparisonAgrees, ComparisonAdds DEF ComparisonsAreSound
<1> QED
  BY <1>1, ResultInvariance, PTL
=============================================================================
