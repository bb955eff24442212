------------------------ MODULE OpeningSuggestionsProofs ------------------------
(***************************************************************************)
(* Proofs about OpeningSuggestions, for any datasets, snapshots, reviewers *)
(* and publishers.                                                         *)
(***************************************************************************)
EXTENDS OpeningSuggestions, EvaluationDatasetsProofs

-----------------------------------------------------------------------------
(* The inductive invariant.                                                *)

StartersResolve(d, s) == ResolvesCases(d, s, Starters(Cases(d)))

\* A call that found the evidence resolved still does, and one that appends has
\* the time of its transaction.
CallsAreChecked ==
    \A q \in Publishers : publisher[q] # None =>
        /\ publisher[q].dataset \in imported
        /\ publisher[q].pc \in {"resolved", "appending"}
              => StartersResolve(publisher[q].dataset, publisher[q].snapshot)
        /\ publisher[q].pc = "appending" => publisher[q].created \in 1 .. MaxClock

\* A snapshot with sets has a latest one, and every set is of an imported
\* dataset.
LatestSetExists ==
    \A x \in sets : /\ x.dataset \in imported
                    /\ \E y \in sets : /\ y.snapshot = x.snapshot
                                       /\ \A z \in sets : z.snapshot = x.snapshot
                                                            => z.created <= y.created

SInv == /\ DInv
        /\ TypeOK
        /\ CallsAreChecked
        /\ SetsAreCovered
        /\ LatestSetExists

-----------------------------------------------------------------------------
(* Facts that last.                                                        *)

\* What resolved and what was imported stays.
LEMMA CoverageLasts ==
    ASSUME DInv, DatasetNext
    PROVE  /\ imported \subseteq imported'
           /\ \A d, s, S : ResolvesCases(d, s, S) => ResolvesCases(d, s, S)'
           /\ \A d, s : SourcesInSnapshot(d, s) => SourcesInSnapshot(d, s)'
<1>1. imported \subseteq imported'
  BY DEF DatasetNext, Import, BindSource, ReviewBegins, AppendPublication, CheckPublication,
         CheckCompatibility, CreateRun, InspectReview, InspectSources, rows
<1>2. \A d, a : BoundTo(d, a) # {} => BoundTo(d, a)' = BoundTo(d, a)
  <2>1. CASE bindings' = bindings
    BY <2>1 DEF BoundTo
  <2>2. CASE bindings' # bindings
    <3>1. PICK d \in imported : \E alias \in AliasesOf(d), source \in Sources :
             BindSource(d, alias, source)
      BY <2>2 DEF DatasetNext, Import, ReviewBegins, AppendPublication, CheckPublication,
                  CheckCompatibility, CreateRun, InspectReview, InspectSources, rows
    <3>2. d \in Datasets
      BY DEF DInv, DatasetTypeOK
    <3> QED
      BY <3>1, <3>2, BindingLasts
  <2> QED
    BY <2>1, <2>2
<1>3. ASSUME NEW d, NEW s, NEW S, ResolvesCases(d, s, S)
      PROVE  ResolvesCases(d, s, S)'
  <2>1. ASSUME NEW e, Resolves(d, s, e)
        PROVE  Resolves(d, s, e)'
    BY <1>2, <2>1 DEF Resolves
  <2> QED
    BY <1>3, <2>1 DEF ResolvesCases
<1>4. ASSUME NEW d, NEW s, SourcesInSnapshot(d, s)
      PROVE  SourcesInSnapshot(d, s)'
  BY <1>2, <1>4 DEF SourcesInSnapshot
<1> QED
  BY <1>1, <1>3, <1>4

\* Calls, sets and the release do not decide what resolves.
LEMMA DatasetsStay ==
    ASSUME UNCHANGED rows
    PROVE  /\ UNCHANGED <<imported, bindings, publications, runs>>
           /\ \A d, s, S : ResolvesCases(d, s, S)' <=> ResolvesCases(d, s, S)
           /\ \A d, s : SourcesInSnapshot(d, s)' <=> SourcesInSnapshot(d, s)
  BY DEF rows, ResolvesCases, Resolves, SourcesInSnapshot, BoundTo

-----------------------------------------------------------------------------
(* The steps.                                                              *)

\* Datasets change and suggestions do not.
LEMMA DatasetsChange ==
    ASSUME SInv, DatasetNext, UNCHANGED <<active, publisher, sets>>
    PROVE  SInv'
<1>1. DInv'
  BY DatasetStep DEF SInv
<1>2. TypeOK'
  BY <1>1 DEF SInv, DInv, TypeOK
<1>3. CallsAreChecked'
  BY CoverageLasts DEF SInv, CallsAreChecked, StartersResolve
<1>4. SetsAreCovered'
  BY CoverageLasts DEF SInv, SetsAreCovered
<1>5. LatestSetExists'
  BY CoverageLasts DEF SInv, LatestSetExists
<1> QED
  BY <1>1, <1>2, <1>3, <1>4, <1>5 DEF SInv

\* One call of Publish goes on, with facts that hold, and may take a time.
LEMMA CallGoesOn ==
    ASSUME SInv, UNCHANGED <<rows, calls, active, sets>>,
           clock' \in 0 .. MaxClock, clock <= clock',
           NEW q \in Publishers, NEW new \in Publish \cup {None},
           publisher' = [publisher EXCEPT ![q] = new],
           new # None =>
              /\ new.dataset \in imported
              /\ new.pc \in {"resolved", "appending"}
                    => StartersResolve(new.dataset, new.snapshot)
              /\ new.pc = "appending" => new.created \in 1 .. MaxClock
    PROVE  SInv'
<1>1. DInv'
  BY Ticks DEF SInv
<1>2. /\ publisher' \in [Publishers -> Publish \cup {None}] /\ publisher'[q] = new
      /\ \A x \in Publishers \ {q} : publisher'[x] = publisher[x]
  BY DEF SInv, TypeOK
<1>3. TypeOK'
  BY <1>1, <1>2 DEF SInv, DInv, TypeOK
<1>4. CallsAreChecked'
  BY <1>2, DatasetsStay DEF SInv, CallsAreChecked, StartersResolve
<1>5. SetsAreCovered' /\ LatestSetExists'
  BY DatasetsStay DEF SInv, SetsAreCovered, LatestSetExists
<1> QED
  BY <1>1, <1>3, <1>4, <1>5 DEF SInv

\* A call that is checked once more goes on or ends.
LEMMA CallPasses ==
    ASSUME SInv, NEW q \in Publishers, publisher[q] # None, NEW check \in BOOLEAN,
           NEW next \in {"available", "resolved"}, Passes(q, check, next),
           UNCHANGED <<datasetVars, active, sets>>,
           check /\ next = "resolved"
              => StartersResolve(publisher[q].dataset, publisher[q].snapshot)
    PROVE  SInv'
<1>1. /\ clock' \in 0 .. MaxClock /\ clock <= clock'
      /\ UNCHANGED <<rows, calls, active, sets>>
  BY ClockAssumption DEF datasetVars, SInv, DInv, DatasetTypeOK
<1>2. /\ publisher[q] \in Publish /\ publisher[q].dataset \in imported
      /\ publisher \in [Publishers -> Publish \cup {None}]
  BY DEF SInv, TypeOK, CallsAreChecked
<1>3. CASE check
  <2>1. PICK new : new = [publisher[q] EXCEPT !.pc = next]
    OBVIOUS
  <2>2. /\ new \in Publish /\ new.pc = next
        /\ new.dataset = publisher[q].dataset /\ new.snapshot = publisher[q].snapshot
    BY <1>2, <2>1 DEF Publish
  <2>3. publisher' = [publisher EXCEPT ![q] = new]
    BY <1>2, <1>3, <2>1 DEF Passes
  <2> QED
    BY <1>1, <1>2, <1>3, <2>2, <2>3, CallGoesOn
<1>4. CASE ~ check
  <2>1. publisher' = [publisher EXCEPT ![q] = None]
    BY <1>2, <1>4 DEF Passes
  <2> QED
    BY <1>1, <2>1, CallGoesOn
<1> QED
  BY <1>3, <1>4

LEMMA CallBegins ==
    ASSUME SInv, NEW q \in Publishers, NEW d \in imported, NEW s \in Snapshots,
           Begins(q, d, s)
    PROVE  SInv'
<1>1. PICK new : new = [pc |-> "current", dataset |-> d, snapshot |-> s, created |-> 0]
  OBVIOUS
<1>2. new \in Publish /\ new.pc = "current" /\ new.dataset = d
  BY <1>1, ClockAssumption DEF Publish, SInv, DInv, DatasetTypeOK
<1>3. /\ clock' \in 0 .. MaxClock /\ clock <= clock'
      /\ UNCHANGED <<rows, calls, active, sets>>
      /\ publisher' = [publisher EXCEPT ![q] = new]
  BY <1>1, ClockAssumption DEF Begins, datasetVars, SInv, DInv, DatasetTypeOK
<1> QED
  BY <1>2, <1>3, CallGoesOn

LEMMA TransactionBegins ==
    ASSUME SInv, NEW q \in Publishers, BeginsAppend(q)
    PROVE  SInv'
<1>1. /\ publisher[q] \in Publish /\ publisher[q].dataset \in imported
      /\ StartersResolve(publisher[q].dataset, publisher[q].snapshot)
      /\ publisher \in [Publishers -> Publish \cup {None}]
  BY DEF BeginsAppend, At, SInv, TypeOK, CallsAreChecked
<1>2. /\ clock' = clock + 1 /\ clock' \in 1 .. MaxClock /\ clock <= clock'
      /\ UNCHANGED <<rows, calls, active, sets>>
  BY ClockAssumption DEF BeginsAppend, Now, SInv, DInv, DatasetTypeOK
<1>3. clock' \in 0 .. MaxClock
  BY <1>2, ClockAssumption
<1>4. CASE active = publisher[q].snapshot
  <2>1. PICK new : new = [publisher[q] EXCEPT !.pc = "appending", !.created = clock + 1]
    OBVIOUS
  <2>2. /\ new \in Publish /\ new.created \in 1 .. MaxClock
        /\ new.dataset = publisher[q].dataset /\ new.snapshot = publisher[q].snapshot
    BY <1>1, <1>2, <1>3, <2>1 DEF Publish
  <2>3. publisher' = [publisher EXCEPT ![q] = new]
    BY <1>1, <1>4, <2>1 DEF BeginsAppend, Now
  <2> QED
    BY <1>1, <1>2, <1>3, <2>2, <2>3, CallGoesOn
<1>5. CASE active # publisher[q].snapshot
  <2>1. publisher' = [publisher EXCEPT ![q] = None]
    BY <1>1, <1>5 DEF BeginsAppend
  <2> QED
    BY <1>2, <1>3, <2>1, CallGoesOn
<1> QED
  BY <1>4, <1>5

\* What a call appends, if it appends.
LEMMA ProjectionAppended ==
    ASSUME SInv, NEW q \in Publishers, AppendProjection(q)
    PROVE  \E new \in SuggestionSet :
              /\ new.dataset \in imported
              /\ StartersResolve(new.dataset, new.snapshot)
              /\ \/ sets' = sets
                 \/ /\ sets' = sets \cup {new}
                    /\ new.snapshot = active
                    /\ SetTrigger(new.dataset, new.snapshot)
              /\ publisher' = [publisher EXCEPT ![q] = None]
              /\ UNCHANGED <<datasetVars, active>>
<1>1. PICK w : w = publisher[q]
  OBVIOUS
<1>2. /\ w \in Publish /\ w.dataset \in imported /\ w.created \in 1 .. MaxClock
      /\ StartersResolve(w.dataset, w.snapshot)
  BY <1>1 DEF AppendProjection, At, SInv, TypeOK, CallsAreChecked
<1>3. PICK new : new = [dataset |-> w.dataset, snapshot |-> w.snapshot, created |-> w.created]
  OBVIOUS
<1>4. /\ new \in SuggestionSet /\ new.dataset = w.dataset /\ new.snapshot = w.snapshot
  BY <1>2, <1>3 DEF SuggestionSet, Publish
<1>5. \/ sets' = sets
      \/ sets' = sets \cup {new} /\ new.snapshot = active
         /\ SetTrigger(new.dataset, new.snapshot)
  BY <1>1, <1>3, <1>4 DEF AppendProjection, ReleaseStands
<1> QED
  BY <1>2, <1>4, <1>5 DEF AppendProjection

LEMMA ProjectionCommits ==
    ASSUME SInv, NEW q \in Publishers, AppendProjection(q)
    PROVE  SInv'
<1>1. PICK new \in SuggestionSet :
         /\ new.dataset \in imported
         /\ StartersResolve(new.dataset, new.snapshot)
         /\ \/ sets' = sets
            \/ sets' = sets \cup {new} /\ SetTrigger(new.dataset, new.snapshot)
         /\ publisher' = [publisher EXCEPT ![q] = None]
         /\ UNCHANGED <<datasetVars, active>>
  BY ProjectionAppended
<1>2. DInv' /\ UNCHANGED rows
  BY <1>1, DatasetStutter DEF SInv, datasetVars
<1>3. /\ publisher' \in [Publishers -> Publish \cup {None}] /\ publisher'[q] = None
      /\ \A x \in Publishers \ {q} : publisher'[x] = publisher[x]
  BY <1>1 DEF SInv, TypeOK
<1>4. TypeOK'
  BY <1>1, <1>2, <1>3 DEF SInv, DInv, TypeOK
<1>5. CallsAreChecked'
  BY <1>2, <1>3, DatasetsStay DEF SInv, CallsAreChecked, StartersResolve
<1>6. SetsAreCovered'
  <2>1. SetTrigger(new.dataset, new.snapshot) =>
           /\ CompleteStarters(Cases(new.dataset))
           /\ SourcesInSnapshot(new.dataset, new.snapshot)
    BY DEF SetTrigger
  <2> QED
    BY <1>1, <1>2, <2>1, DatasetsStay DEF SInv, SetsAreCovered, StartersResolve
<1>7. LatestSetExists'
  <2>1. CASE sets' = sets
    BY <1>2, <2>1, DatasetsStay DEF SInv, LatestSetExists
  <2>2. CASE sets' = sets \cup {new}
    <3> SUFFICES ASSUME NEW x \in sets'
                 PROVE  \E y \in sets' : /\ y.snapshot = x.snapshot
                                         /\ \A z \in sets' : z.snapshot = x.snapshot
                                                              => z.created <= y.created
      BY <1>1, <1>2, <2>2, DatasetsStay DEF SInv, LatestSetExists
    <3>1. \A z \in sets' : z.created \in Int
      BY <1>4 DEF TypeOK, SuggestionSet
    <3>2. CASE \E y \in sets : y.snapshot = x.snapshot
      <4>1. PICK y \in sets : /\ y.snapshot = x.snapshot
                             /\ \A z \in sets : z.snapshot = x.snapshot
                                                 => z.created <= y.created
        BY <3>2 DEF SInv, LatestSetExists
      <4>2. CASE new.snapshot # x.snapshot \/ new.created <= y.created
        BY <2>2, <4>1, <4>2
      <4>3. CASE new.snapshot = x.snapshot /\ ~ (new.created <= y.created)
        <5>1. \A z \in sets : z.snapshot = x.snapshot => z.created <= new.created
          BY <2>2, <3>1, <4>1, <4>3
        <5> QED
          BY <2>2, <3>1, <4>3, <5>1
      <4> QED
        BY <4>2, <4>3
    <3>3. CASE ~ \E y \in sets : y.snapshot = x.snapshot
      BY <2>2, <3>1, <3>3
    <3> QED
      BY <3>2, <3>3
  <2> QED
    BY <1>1, <2>1, <2>2
<1> QED
  BY <1>2, <1>4, <1>5, <1>6, <1>7 DEF SInv

LEMMA ReleaseMoves ==
    ASSUME SInv, UNCHANGED <<datasetVars, publisher, sets>>, active' \in Snapshots
    PROVE  SInv'
<1>1. DInv' /\ UNCHANGED rows
  BY DatasetStutter DEF SInv, datasetVars
<1>2. TypeOK'
  BY <1>1 DEF SInv, DInv, TypeOK
<1>3. CallsAreChecked' /\ SetsAreCovered' /\ LatestSetExists'
  BY <1>1, DatasetsStay DEF SInv, CallsAreChecked, SetsAreCovered, LatestSetExists,
                            StartersResolve
<1> QED
  BY <1>1, <1>2, <1>3 DEF SInv

-----------------------------------------------------------------------------
(* Invariance.                                                             *)

LEMMA SuggestionsStart == Init => SInv
<1> SUFFICES ASSUME Init PROVE SInv
  OBVIOUS
<1>1. DInv
  BY DatasetStarts DEF Init
<1> QED
  BY <1>1 DEF Init, SInv, DInv, TypeOK, CallsAreChecked, SetsAreCovered, LatestSetExists

LEMMA SuggestionStep == ASSUME SInv, [Next]_vars PROVE SInv'
<1>1. CASE DatasetNext /\ UNCHANGED <<active, publisher, sets>>
  BY <1>1, DatasetsChange
<1>2. ASSUME NEW q \in Publishers, NEW d \in imported, NEW s \in Snapshots, Begins(q, d, s)
      PROVE  SInv'
  BY <1>2, CallBegins
<1>3. ASSUME NEW q \in Publishers, FindsAvailable(q)
      PROVE  SInv'
  <2>1. (Effective(publisher[q].dataset) = "available") \in BOOLEAN
    OBVIOUS
  <2> QED
    BY <1>3, <2>1, CallPasses DEF FindsAvailable, At
<1>4. ASSUME NEW q \in Publishers, FindsResolved(q)
      PROVE  SInv'
  <2>1. PICK check \in BOOLEAN :
           check = Projectable(publisher[q].dataset, publisher[q].snapshot)
    BY DEF Projectable, ValidateStarterCases, ResolvesCases
  <2>2. check => StartersResolve(publisher[q].dataset, publisher[q].snapshot)
    BY <2>1 DEF Projectable, StartersResolve
  <2>3. publisher[q] # None /\ UNCHANGED <<datasetVars, active, sets>>
    BY <1>4 DEF FindsResolved, At
  <2>4. Passes(q, check, "resolved")
    BY <1>4, <2>1 DEF FindsResolved, Passes
  <2> QED
    BY <2>2, <2>3, <2>4, CallPasses
<1>5. ASSUME NEW q \in Publishers, BeginsAppend(q) PROVE SInv'
  BY <1>5, TransactionBegins
<1>6. ASSUME NEW q \in Publishers, AppendProjection(q) PROVE SInv'
  BY <1>6, ProjectionCommits
<1>7. ASSUME NEW s \in Snapshots, Activate(s) PROVE SInv'
  BY <1>7, ReleaseMoves DEF Activate
<1>8. CASE UNCHANGED vars
  BY <1>8, ReleaseMoves DEF vars, SInv, TypeOK
<1> QED
  BY <1>1, <1>2, <1>3, <1>4, <1>5, <1>6, <1>7, <1>8 DEF Next, SuggestionNext

\* Datasets, calls, projections and the release keep the invariant.
THEOREM SuggestionInvariance == Spec => []SInv
  BY SuggestionsStart, SuggestionStep, PTL DEF Spec

-----------------------------------------------------------------------------
(* The properties of the run.                                              *)

\* Rows and calls always have the values of their columns and variables.
THEOREM SuggestionTypes == Spec => []TypeOK
<1>1. SInv => TypeOK
  BY DEF SInv
<1> QED
  BY <1>1, SuggestionInvariance, PTL

\* A set keeps all its evidence in its snapshot for ever.
THEOREM Covered == Spec => []SetsAreCovered
<1>1. SInv => SetsAreCovered
  BY DEF SInv
<1> QED
  BY <1>1, SuggestionInvariance, PTL

\* Sets are only added, for the active snapshot and an available dataset.
THEOREM Projections == Spec => ProjectionsFollowTheRelease
<1>1. SInv /\ [Next]_vars
        => [/\ sets \subseteq sets'
            /\ \A x \in sets' \ sets : /\ x.snapshot = active /\ active' = active
                                       /\ Effective(x.dataset) = "available"]_vars
  <2> SUFFICES ASSUME SInv, [Next]_vars, sets' # sets
               PROVE  /\ sets \subseteq sets'
                      /\ \A x \in sets' \ sets : /\ x.snapshot = active /\ active' = active
                                                 /\ Effective(x.dataset) = "available"
    OBVIOUS
  <2>1. PICK q \in Publishers : AppendProjection(q)
    BY DEF Next, SuggestionNext, Begins, FindsAvailable, FindsResolved, BeginsAppend,
           Activate, vars
  <2> QED
    BY <2>1, ProjectionAppended DEF SetTrigger
<1> QED
  BY <1>1, SuggestionInvariance, PTL DEF Spec, ProjectionsFollowTheRelease

\* Readers are shown complete suggestions with evidence in the active snapshot.
THEOREM ShownToReaders == Spec => []ShownIsCovered
<1>1. SInv => ShownIsCovered
  <2> SUFFICES ASSUME SInv, Shown # {}
               PROVE  /\ {<<Cases(LatestSet.dataset)[i].rank,
                            Cases(LatestSet.dataset)[i].language>> : i \in Shown}
                            = (1 .. MaxRank) \X Languages
                      /\ ResolvesCases(LatestSet.dataset, active, Shown)
    BY DEF ShownIsCovered
  <2>1. OfActive # {} /\ Shown = Starters(Cases(LatestSet.dataset))
    BY DEF Shown
  <2>2. PICK x : x = LatestSet
    OBVIOUS
  <2>3. x \in sets /\ x.snapshot = active
    <3>1. \E y \in OfActive : \A z \in OfActive : z.created <= y.created
      BY <2>1 DEF OfActive, SInv, LatestSetExists
    <3>2. LatestSet \in OfActive
      BY <3>1 DEF LatestSet
    <3> QED
      BY <2>2, <3>2 DEF OfActive
  <2>4. /\ CompleteStarters(Cases(x.dataset))
        /\ ResolvesCases(x.dataset, x.snapshot, Starters(Cases(x.dataset)))
        /\ x.dataset \in imported
    BY <2>3 DEF SInv, SetsAreCovered, LatestSetExists
  <2>5. Accepted(Asset[x.dataset]) /\ Cases(x.dataset) = Asset[x.dataset].cases
    BY <2>4 DEF SInv, DInv, Importable, Cases
  <2>6. {<<Cases(x.dataset)[i].rank, Cases(x.dataset)[i].language>> :
            i \in Starters(Cases(x.dataset))} = (1 .. MaxRank) \X Languages
    BY <2>4, <2>5, StartersCover
  <2> QED
    BY <2>1, <2>2, <2>3, <2>4, <2>6
<1> QED
  BY <1>1, SuggestionInvariance, PTL
=============================================================================
