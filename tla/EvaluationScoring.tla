-------------------------- MODULE EvaluationScoring ---------------------------
(***************************************************************************)
(* From the answer of the evaluation agent to numbers: the client validates *)
(* a response and materializes it within the snapshot of the run, scorer   *)
(* v1 gives it metrics, the store validates and aggregates them, and two   *)
(* runs are compared case by case.                                         *)
(*                                                                         *)
(* Abstractions.  A location of evidence is a unit in a snapshot.  An      *)
(* answer is the sequence of numbers its [n] markers name.  latency stands *)
(* for the three measurements, and a measurement is a set of at most one   *)
(* value.  A value is its numerator over its denominator, both zero in a   *)
(* metric that is not scored.  Rationales and versions are left out.       *)
(***************************************************************************)
EXTENDS Integers, FiniteSets, Functions

CONSTANTS Snapshot   \* the snapshot fixed by the run

-----------------------------------------------------------------------------
(* The client: a response becomes a materialized result, or an error.      *)

\* Ranks and marker inputs number the retrieved evidence from one.
validEvidenceOrdering(r) == r.order = [i \in DOMAIN r.retrieved |-> i]

validTelemetry(r) == \A value \in r.latency : value >= 0

validateEvidenceProvenance(e) == e.snapshot = Snapshot

validResultState(r) == \/ r.outcome = "completed" /\ r.text = "answer"
                       \/ r.outcome = "abstained"

\* What Execute hands to the processor: a result, an error, or the news that
\* the agent no longer serves the identity frozen in the run.
Execute(r) == IF r.status = "conflict" THEN "identity unavailable"
              ELSE IF /\ r.status = "ok"
                      /\ validEvidenceOrdering(r)
                      /\ validTelemetry(r)
                      /\ validResultState(r)
                      /\ \A i \in DOMAIN r.retrieved :
                            validateEvidenceProvenance(r.retrieved[i])
                   THEN "result" ELSE "error"

\* The markers, by their position in the answer, that name retrieved evidence.
ValidMarkers(ranks, n) == {i \in DOMAIN ranks : ranks[i] \in 1 .. n}

citedEvidence(markers, r) == [i \in markers |-> r.retrieved[r.ranks[i]]]

MaterializeCaseResult(r) ==
    LET markers == ValidMarkers(r.ranks, Cardinality(DOMAIN r.retrieved))
    IN [state |-> r.outcome, ranks |-> r.ranks, valid |-> markers,
        retrieved |-> r.retrieved, cited |-> citedEvidence(markers, r),
        latency |-> r.latency]

-----------------------------------------------------------------------------
(* Scorer v1.                                                              *)

Components == {"retrieval_coverage", "citation_coverage", "citation_validity",
               "citation_scope_validity", "expected_abstention_outcome",
               "execution_outcome", "latency_milliseconds", "semantic_claim_support"}

Measurements == {"latency_milliseconds"}

Failures == {"failed", "cancelled"}

scoredMetric(n, d) == [state |-> "scored", numerator |-> n, denominator |-> d]

UnscoredMetric(state) == [state |-> state, numerator |-> 0, denominator |-> 0]

notScoredMetrics == [m \in Components |-> UnscoredMetric("not_scored")]

\* The identity of a location leaves out its snapshot.
Units(evidence) == {e.unit : e \in Range(evidence)}

\* Mutant: a location that is found twice counts twice.
CountedCoverage(expected, actual) ==
    IF expected = {} THEN UnscoredMetric("not_applicable")
    ELSE scoredMetric(Cardinality({i \in DOMAIN actual : actual[i].unit \in expected}),
                      Cardinality(expected))

\* Unique expected locations, of which some were found.
coverageMetric(expected, actual) ==
    IF expected = {} THEN UnscoredMetric("not_applicable")
    ELSE scoredMetric(Cardinality(expected \cap Units(actual)), Cardinality(expected))

\* Validity and scope of citations have the same arithmetic.
citationMetric(actual) ==
    IF DOMAIN actual.ranks = {} THEN UnscoredMetric("not_applicable")
    ELSE scoredMetric(Cardinality(actual.valid), Cardinality(DOMAIN actual.ranks))

expectedAbstentionMetric(outcome, actual) ==
    IF outcome # "abstain" THEN UnscoredMetric("not_applicable")
    ELSE scoredMetric(IF actual.state = "abstained" THEN 1 ELSE 0, 1)

telemetryMetric(latency) ==
    IF latency = {} THEN UnscoredMetric("not_applicable")
    ELSE scoredMetric(CHOOSE value \in latency : TRUE, 1)

\* expected: [outcome, units] of the case.  Failures never get this far: the
\* processor and the store give them notScoredMetrics.
ScoreCaseV1(expected, actual) ==
    [retrieval_coverage          |-> coverageMetric(expected.units, actual.retrieved),
     citation_coverage           |-> coverageMetric(expected.units, actual.cited),
     citation_validity           |-> citationMetric(actual),
     citation_scope_validity     |-> citationMetric(actual),
     expected_abstention_outcome |-> expectedAbstentionMetric(expected.outcome, actual),
     execution_outcome           |-> scoredMetric(1, 1),
     latency_milliseconds        |-> telemetryMetric(actual.latency),
     semantic_claim_support      |-> UnscoredMetric("needs_human_review")]

-----------------------------------------------------------------------------
(* The store: validation of a terminal result, aggregates of a run.        *)

validateMetric(metric) ==
    IF metric.state = "scored" THEN metric.denominator > 0 /\ metric.numerator >= 0
    ELSE /\ metric.state \in {"not_applicable", "not_scored", "needs_human_review"}
         /\ metric.numerator = 0 /\ metric.denominator = 0

\* The complete set of metrics, each of them valid.
validateTerminalResult(metrics) ==
    /\ DOMAIN metrics = Components
    /\ \A m \in Components : validateMetric(metrics[m])

\* A ledger is a function from cases to [state, metrics].
With(ledger, m, state) == {c \in DOMAIN ledger : ledger[c].metrics[m].state = state}

Total(f, S) == FoldFunctionOnSet(LAMBDA x, y : x + y, 0, f, S)

Numerators(ledger, m, S) == Total([c \in S |-> ledger[c].metrics[m].numerator], S)

Denominators(ledger, m, S) == Total([c \in S |-> ledger[c].metrics[m].denominator], S)

aggregateMetricValue(ledger, m) ==
    LET scored == With(ledger, m, "scored")
    IN IF scored # {}
       THEN scoredMetric(Numerators(ledger, m, scored), Denominators(ledger, m, scored))
       ELSE IF With(ledger, m, "not_scored") # {} THEN UnscoredMetric("not_scored")
       ELSE IF With(ledger, m, "needs_human_review") # {}
            THEN UnscoredMetric("needs_human_review") ELSE UnscoredMetric("not_applicable")

Aggregates(ledger) == [m \in Components |-> aggregateMetricValue(ledger, m)]

-----------------------------------------------------------------------------
(* Comparison of two runs over their ledgers.                              *)

validateComparisonCase(row) ==
    /\ row.state \in {"completed", "abstained"} \cup Failures
    /\ validateTerminalResult(row.metrics)
    /\ row.state \in Failures => \A m \in Components : row.metrics[m].state # "scored"

PairedCases(left, right) == DOMAIN left \cap DOMAIN right

FailedOrCancelled(left, right) ==
    {c \in PairedCases(left, right) : {left[c].state, right[c].state} \cap Failures # {}}

\* Mutant: the metric of the other run need not be scored.
LeftScored(left, right, m) ==
    {c \in PairedCases(left, right) \ FailedOrCancelled(left, right) :
        left[c].metrics[m].state = "scored"}

\* The paired cases whose metric is scored in both runs.
JointlyScored(left, right, m) ==
    {c \in PairedCases(left, right) \ FailedOrCancelled(left, right) :
        left[c].metrics[m].state = "scored" /\ right[c].metrics[m].state = "scored"}

\* The value of a component on the left and on the right.
MetricDelta(left, right, m) ==
    LET S == JointlyScored(left, right, m)
    IN IF S = {} THEN <<UnscoredMetric("not_scored"), UnscoredMetric("not_scored")>>
       ELSE << scoredMetric(Numerators(left, m, S), Denominators(left, m, S)),
               scoredMetric(Numerators(right, m, S), Denominators(right, m, S)) >>

ComparisonTotals(left, right) ==
    [paired    |-> Cardinality(PairedCases(left, right)),
     leftOnly  |-> Cardinality(DOMAIN left \ DOMAIN right),
     rightOnly |-> Cardinality(DOMAIN right \ DOMAIN left),
     failed    |-> Cardinality(FailedOrCancelled(left, right))]
=============================================================================
