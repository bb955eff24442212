------------------------- MODULE MCEvaluationResults --------------------------
(* Instances of EvaluationResults for TLC.                                   *)
EXTENDS EvaluationResults, TLC

At(unit) == [snapshot |-> Snapshot, unit |-> unit]

Elsewhere == [snapshot |-> "another", unit |-> "u1"]

Response(outcome, ranks, retrieved, latency) ==
    [status |-> "ok", outcome |-> outcome, text |-> "answer", ranks |-> ranks,
     retrieved |-> retrieved, order |-> [i \in DOMAIN retrieved |-> i], latency |-> latency]

\* An answer that cites a location twice and one that is missing; an abstention;
\* an identity that is gone; evidence of another snapshot.
MCResponses ==
    { Response("completed", <<1, 3, 1>>, <<At("u1"), At("u3")>>, {}),
      Response("abstained", <<>>, <<At("u2")>>, {7}),
      [Response("completed", <<>>, <<>>, {}) EXCEPT !.status = "conflict"],
      Response("completed", <<1>>, <<Elsewhere>>, {}) }

UpToTwo(S) == {<<>>} \cup {<<x>> : x \in S} \cup (S \X S)

\* Every short answer with every short list of evidence, and every mistake.
MCAnswers ==
    MCResponses
      \cup {Response(outcome, ranks, retrieved, latency) :
               outcome \in {"completed", "abstained", "failed"}, ranks \in UpToTwo(0 .. 3),
               retrieved \in UpToTwo({At("u1"), At("u2"), At("u3"), Elsewhere}),
               latency \in {{}, {0}, {-1}}}
      \cup {[r EXCEPT !.order = <<2>>] : r \in MCResponses}
      \cup {[r EXCEPT !.text = "blank"] : r \in MCResponses}
      \cup {[r EXCEPT !.status = "unavailable"] : r \in MCResponses}

MCExpected == << [outcome |-> "answer", units |-> {"u1", "u2"}],
                 [outcome |-> "abstain", units |-> {"u2"}],
                 [outcome |-> "answer", units |-> {}] >>

\* An earlier run of two of the cases and one more, of which one failed.
MCEarlier ==
    LET scores == [c \in 1 .. 2 |-> ScoreCaseV1(MCExpected[c],
                     MaterializeCaseResult(Response("completed", <<1, 2>>, <<At("u1"), At("u3")>>, {3})))]
    IN (1 :> [state |-> "completed", metrics |-> scores[1]]) @@
       (2 :> [state |-> "completed", metrics |-> scores[2]]) @@
       (4 :> [state |-> "failed", metrics |-> notScoredMetrics])

WorkerSymmetry == Permutations(Workers)
=============================================================================
