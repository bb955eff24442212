--------------------------- MODULE EvaluationAssets ---------------------------
(***************************************************************************)
(* What the import command accepts as an evaluation dataset: a manifest    *)
(* and a JSONL file with one case per line.  Cases come in reciprocal      *)
(* pairs, one case in English and one in Portuguese, and some pairs carry  *)
(* the rank of an opening suggestion.  The operators are the validators of *)
(* the importer, of the domain package and of the store, in the order in   *)
(* which they reject.                                                      *)
(*                                                                         *)
(* Abstractions.  An asset is a record of what the validators compare: the *)
(* request that names it, the form of its files (text), the manifest's     *)
(* dataset, status, languages and source aliases, and the cases.  A corpus *)
(* is named like the one dataset it owns.  Texts that need only be         *)
(* non-blank, titles, URLs and checksums are left out.                     *)
(***************************************************************************)
EXTENDS Integers, FiniteSets, Sequences, Functions

CONSTANTS MaxRank,      \* ranks of opening suggestions, 5 in the code
          None          \* an absent rank or reason code

ASSUME RankAssumption == MaxRank \in Nat \ {0} /\ None \notin Nat

Languages == {"en", "pt"}

-----------------------------------------------------------------------------
(* The request and the files.                                              *)

\* No dataset is redirected into another corpus or read from another's files.
matchesSupportedCorpus(request) == request.corpus = request.dataset

safeAssetPaths(request) == request.directory = request.corpus

matchesAssetFilenames(a) == a.request.dataset = a.dataset

readBounded(text) == text \notin {"empty", "oversized"}

\* One JSON value per record, no field unknown or repeated.
strictDecode(text) == text \notin {"trailing value", "unknown field", "repeated field"}

-----------------------------------------------------------------------------
(* The manifest and its sources.                                           *)

ValidManifest(a) == /\ a.status = "draft"
                    /\ Len(a.languages) = 2
                    /\ Range(a.languages) = Languages
                    /\ a.sources # <<>>

ValidSources(a) == IsInjective(a.sources)

-----------------------------------------------------------------------------
(* One case and its expected evidence.                                     *)

ValidOutcome(c) == \/ c.outcome = "answer" /\ c.reason = None
                   \/ c.outcome = "abstain" /\ c.reason # None

ValidCase(c) == /\ c.language \in Languages
                /\ c.id # c.pair
                /\ ValidOutcome(c)

\* Selectors are pairs of a declared alias and a canonical locator.
ValidEvidence(a, c) ==
    /\ c.evidence # <<>>
    /\ IsInjective(c.evidence)
    /\ \A e \in Range(c.evidence) : e.source \in Range(a.sources)

BuildCases(a) ==
    /\ \A i, j \in DOMAIN a.cases : a.cases[i].id = a.cases[j].id => i = j
    /\ \A i \in DOMAIN a.cases : ValidCase(a.cases[i]) /\ ValidEvidence(a, a.cases[i])

-----------------------------------------------------------------------------
(* Reciprocal pairs.                                                       *)

\* The case that case i names as its pair.
Names(cs, i, j) == cs[i].pair = cs[j].id

\* Mutant: the pair need not name the case in return.
OneSidedPairs(cs) ==
    /\ cs # <<>>
    /\ \A i \in DOMAIN cs : \E j \in DOMAIN cs :
          Names(cs, i, j) /\ cs[i].language # cs[j].language

ValidatePairedCases(cs) ==
    /\ cs # <<>>
    /\ \A i \in DOMAIN cs : \E j \in DOMAIN cs :
          Names(cs, i, j) /\ Names(cs, j, i) /\ cs[i].language # cs[j].language

ValidatePairedOutcomes(cs) ==
    \A i, j \in DOMAIN cs :
        Names(cs, i, j) => /\ cs[i].outcome = cs[j].outcome
                           /\ cs[i].reason = cs[j].reason

-----------------------------------------------------------------------------
(* Starter selections: the cases with a rank.                              *)

Starters(cs) == {i \in DOMAIN cs : cs[i].rank # None}

ValidateStarterSelection(cs, i) ==
    /\ cs[i].rank \in 1 .. MaxRank
    /\ \A j \in Starters(cs) : cs[j].rank = cs[i].rank /\ cs[j].language = cs[i].language
                                  => i = j

ValidateStarterSelections(cs) ==
    \A i \in Starters(cs) :
        /\ ValidateStarterSelection(cs, i)
        /\ \A j \in DOMAIN cs : Names(cs, i, j) => cs[j].rank = cs[i].rank

\* The ranks in use are 1 .. n, each with two cases.
ValidateStarterRanks(cs) ==
    \A i \in Starters(cs) : \A r \in 1 .. cs[i].rank :
        Cardinality({j \in Starters(cs) : cs[j].rank = r}) = 2

-----------------------------------------------------------------------------
(* The whole asset, as the importer and then the store validate it.        *)

Validate(a) == /\ matchesSupportedCorpus(a.request)
               /\ safeAssetPaths(a.request)
               /\ readBounded(a.text)
               /\ strictDecode(a.text)
               /\ ValidManifest(a)
               /\ matchesAssetFilenames(a)
               /\ ValidSources(a)
               /\ BuildCases(a)
               /\ ValidatePairedCases(a.cases)
               /\ ValidatePairedOutcomes(a.cases)
               /\ ValidateStarterSelections(a.cases)
               /\ ValidateStarterRanks(a.cases)

ValidateDatasetAsset(a) ==
    /\ ValidSources(a) /\ a.sources # <<>>
    /\ \A i \in DOMAIN a.cases : ValidCase(a.cases[i]) /\ ValidEvidence(a, a.cases[i])
    /\ ValidatePairedCases(a.cases)
    /\ ValidateStarterSelections(a.cases)

Accepted(a) == Validate(a) /\ ValidateDatasetAsset(a)

-----------------------------------------------------------------------------
(* What later operations ask of a stored dataset.                          *)

\* The trigger on available publications: every rank is taken twice.
CompleteStarters(cs) ==
    /\ Cardinality(Starters(cs)) = 2 * MaxRank
    /\ \A r \in 1 .. MaxRank : Cardinality({i \in Starters(cs) : cs[i].rank = r}) = 2

\* The validation of the starter cases when suggestions are projected.
ValidateStarterCases(cs) ==
    LET S     == Starters(cs)
        ranks == {cs[i].rank : i \in S}
    IN /\ S # {}
       /\ \A i \in S : ValidateStarterSelection(cs, i)
       /\ Cardinality(S) = 2 * Cardinality(ranks)
       /\ ranks = 1 .. Cardinality(ranks)
       /\ \A i \in S : \E j \in S : /\ Names(cs, i, j) /\ Names(cs, j, i)
                                    /\ cs[i].language # cs[j].language
                                    /\ cs[i].rank = cs[j].rank

EvidenceOf(cs, S) == UNION {Range(cs[i].evidence) : i \in S}

-----------------------------------------------------------------------------
(* Reference definition.                                                   *)

Couple(cs, i) == {j \in DOMAIN cs : cs[j].id \in {cs[i].id, cs[i].pair}}

\* The cases fall into disjoint couples of one case per language that agree
\* on outcome and rank, and the ranked couples are numbered 1 .. n.
WellPaired(cs) ==
    LET Couples == {Couple(cs, i) : i \in DOMAIN cs}
        ranks   == {cs[i].rank : i \in Starters(cs)}
    IN /\ \A p \in Couples :
             /\ Cardinality(p) = 2
             /\ {cs[i].language : i \in p} = Languages
             /\ \A i, j \in p : /\ cs[i].outcome = cs[j].outcome
                                /\ cs[i].reason = cs[j].reason
                                /\ cs[i].rank = cs[j].rank
       /\ \A p, q \in Couples : p = q \/ p \cap q = {}
       /\ ranks = 1 .. Cardinality(ranks)
       /\ \A r \in ranks : \E p \in Couples : {i \in Starters(cs) : cs[i].rank = r} = p
=============================================================================
