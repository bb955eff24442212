------------------------- MODULE MCEvaluationDatasets -------------------------
(* Instances of EvaluationDatasets for TLC.                                  *)
EXTENDS EvaluationDatasets, TLC

Evidence(source) == <<[source |-> source, locator |-> "art-1"]>>

Case(id, language, pair, rank) ==
    [id |-> id, language |-> language, pair |-> pair, rank |-> rank,
     outcome |-> "answer", reason |-> None, evidence |-> Evidence("law")]

Request(corpus, dataset, directory) ==
    [corpus |-> corpus, dataset |-> dataset, directory |-> directory]

AssetOf(sources, cases) ==
    [request |-> Request("lgpd", "lgpd", "lgpd"), text |-> "strict JSON",
     dataset |-> "lgpd", status |-> "draft", languages |-> <<"en", "pt">>,
     sources |-> sources, cases |-> cases]

Abstains(case) == [case EXCEPT !.outcome = "abstain", !.reason = "r"]

\* Two sources and a pair for each of the two ranks, of which one abstains: it
\* may be published.
Complete == AssetOf(<<"law", "guide">>,
              << Case("a", "en", "b", 1), Case("b", "pt", "a", 1),
                 Abstains(Case("c", "en", "d", 2)),
                 [Abstains(Case("d", "pt", "c", 2)) EXCEPT !.evidence =
                     Evidence("law") \o <<[source |-> "guide", locator |-> "art-2"]>>] >>)

\* Two pairs without rank: it may be imported and never published.
Unranked == AssetOf(<<"law">>,
              << Case("a", "en", "b", None), Case("b", "pt", "a", None),
                 Case("c", "en", "d", None), Case("d", "pt", "c", None) >>)

\* A misprint changes one field of one case, or one field of the manifest or
\* the request (case 0).
CaseMisprints ==
    ({"id"} \X {"a", "b"}) \cup
    ({"pair"} \X {"a", "b", "c", "d", "e"}) \cup
    ({"language"} \X {"en", "pt", "fr"}) \cup
    ({"outcome"} \X {"answer", "abstain", "other"}) \cup
    ({"reason"} \X {None, "r", "other"}) \cup
    ({"rank"} \X {None, 0, 1, 2, 3}) \cup
    ({"evidence"} \X {<<>>, Evidence("other"), Evidence("law") \o Evidence("law")})

AssetMisprints ==
    ({"request"} \X {Request("lgpd", "housing", "lgpd"), Request("lgpd", "lgpd", "housing"),
                     Request("housing", "housing", "housing")}) \cup
    ({"text"} \X {"empty", "oversized", "trailing value", "unknown field",
                  "repeated field"}) \cup
    {<<"dataset", "housing">>, <<"status", "final">>,
     <<"languages", <<"en", "en">>>>, <<"sources", <<>>>>,
     <<"sources", <<"law", "guide", "law">>>>, <<"cases", <<>>>>,
     <<"cases", SubSeq(Complete.cases, 1, 3)>>}

\* Two datasets and everything that is nearly one of them.
CONSTANTS complete, unranked

Good(d) == IF d = complete THEN Complete ELSE Unranked

Misprints ==
    {d \in {complete, unranked} \X (1 .. 4) \X CaseMisprints :
        Good(d[1]).cases[d[2]][d[3][1]] # d[3][2]}
      \cup ({complete, unranked} \X {0} \X AssetMisprints)

MCDatasets == {complete, unranked} \cup Misprints

MCAsset ==
    [d \in MCDatasets |->
        IF d \in {complete, unranked} THEN Good(d)
        ELSE LET field == d[3][1]
                 value == d[3][2]
             IN IF d[2] = 0 THEN [Good(d[1]) EXCEPT ![field] = value]
                ELSE [Good(d[1]) EXCEPT !.cases[d[2]] = [@ EXCEPT ![field] = value]]]

\* The two datasets alone.
MCGoodDatasets == {complete, unranked}
MCGoodAsset == [d \in MCGoodDatasets |-> Good(d)]

MCSnapshots == {("s1" :> {"art-1", "art-2"}), ("s1" :> {"art-1"}) @@ ("s2" :> {"art-2"})}

ReviewerSymmetry == Permutations(Reviewers)
=============================================================================
