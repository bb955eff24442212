------------------------ MODULE EvaluationDatasetsProofs ------------------------
(***************************************************************************)
(* Proofs about EvaluationDatasets, for any assets, sources, snapshots and *)
(* callers, and any number of ranks and readings of the clock.             *)
(***************************************************************************)
EXTENDS EvaluationDatasets, FiniteSetTheorems, TLAPS

-----------------------------------------------------------------------------
(* The validators of EvaluationAssets accept only assets that meet the     *)
(* reference definition, whatever an asset contains.                       *)

\* Ranks that leave no gap are numbered from one.
LEMMA GaplessRanks ==
    ASSUME NEW n \in Nat, NEW R \in SUBSET (1 .. n), \A r \in R : 1 .. r \subseteq R
    PROVE  R = 1 .. Cardinality(R)
<1>1. IsFiniteSet(1 .. n) /\ IsFiniteSet(R) /\ Cardinality(R) \in Nat
  <2>1. IsFiniteSet(1 .. n)
    BY FS_Interval
  <2>2. IsFiniteSet(R)
    BY <2>1, FS_Subset
  <2> QED
    BY <2>1, <2>2, FS_CardinalityType
<1>2. ASSUME NEW r \in R
      PROVE  r \in 1 .. Cardinality(R)
  <2>1. Cardinality(1 .. r) = r
    BY FS_Interval
  <2>2. Cardinality(1 .. r) <= Cardinality(R)
    BY <1>1, FS_Subset
  <2> QED
    BY <1>1, <2>1, <2>2
<1>3. IsFiniteSet(1 .. Cardinality(R)) /\ Cardinality(1 .. Cardinality(R)) = Cardinality(R)
  BY <1>1, FS_Interval
<1> QED
  BY <1>2, <1>3, FS_Subset

\* Two different members are two.
LEMMA TwoMembers == ASSUME NEW x, NEW y, x # y PROVE Cardinality({x, y}) = 2
<1>1. IsFiniteSet({x}) /\ Cardinality({x}) = 1
  BY FS_Singleton
<1>2. Cardinality({x} \cup {y}) = 2
  BY <1>1, FS_AddElement
<1>3. {x} \cup {y} = {x, y}
  OBVIOUS
<1> QED
  BY <1>2, <1>3

\* Whatever importer and store accept is well paired: the validators, which
\* look at one case, one pair and one rank at a time, leave no other asset.
THEOREM AcceptedIsPaired == ASSUME NEW a, Accepted(a) PROVE WellPaired(a.cases)
<1>1. PICK cs : cs = a.cases
  OBVIOUS
<1> DEFINE Couples == {Couple(cs, i) : i \in DOMAIN cs}
           ranks   == {cs[i].rank : i \in Starters(cs)}
           Of(r)   == {i \in Starters(cs) : cs[i].rank = r}
<1>2. \A i, j \in DOMAIN cs : cs[i].id = cs[j].id => i = j
  BY <1>1 DEF Accepted, Validate, BuildCases
<1>3. \A i \in DOMAIN cs : cs[i].language \in Languages /\ cs[i].id # cs[i].pair
  BY <1>1 DEF Accepted, Validate, BuildCases, ValidCase
<1>4. \A i \in DOMAIN cs : \E j \in DOMAIN cs :
         Names(cs, i, j) /\ Names(cs, j, i) /\ cs[i].language # cs[j].language
  BY <1>1 DEF Accepted, Validate, ValidatePairedCases
<1>5. \A i, j \in DOMAIN cs :
         Names(cs, i, j) => cs[i].outcome = cs[j].outcome /\ cs[i].reason = cs[j].reason
  BY <1>1 DEF Accepted, Validate, ValidatePairedOutcomes
<1>6. \A i \in Starters(cs) :
         /\ i \in DOMAIN cs /\ cs[i].rank \in 1 .. MaxRank
         /\ \A j \in Starters(cs) : cs[j].rank = cs[i].rank /\ cs[j].language = cs[i].language
                                      => i = j
         /\ \A j \in DOMAIN cs : Names(cs, i, j) => cs[j].rank = cs[i].rank
  BY <1>1 DEF Accepted, Validate, ValidateStarterSelections, ValidateStarterSelection, Starters
<1>7. \A i \in Starters(cs) : \A r \in 1 .. cs[i].rank : Cardinality(Of(r)) = 2
  BY <1>1 DEF Accepted, Validate, ValidateStarterRanks
<1>8. ASSUME NEW i \in DOMAIN cs
      PROVE  \E j \in DOMAIN cs :
                /\ Couple(cs, i) = {i, j} /\ Couple(cs, j) = {i, j} /\ i # j
                /\ {cs[i].language, cs[j].language} = Languages
                /\ cs[i].outcome = cs[j].outcome /\ cs[i].reason = cs[j].reason
                /\ cs[i].rank = cs[j].rank
  <2>1. PICK j \in DOMAIN cs :
           Names(cs, i, j) /\ Names(cs, j, i) /\ cs[i].language # cs[j].language
    BY <1>4
  <2>2. Couple(cs, i) = {i, j} /\ Couple(cs, j) = {i, j}
    BY <1>2, <2>1 DEF Couple, Names
  <2>3. {cs[i].language, cs[j].language} = Languages
    BY <1>3, <2>1 DEF Languages
  <2>4. cs[i].rank = cs[j].rank
    BY <1>6, <2>1 DEF Starters
  <2> QED
    BY <1>5, <2>1, <2>2, <2>3, <2>4
<1>9. ASSUME NEW p \in Couples
      PROVE  /\ Cardinality(p) = 2
             /\ {cs[i].language : i \in p} = Languages
             /\ \A i, j \in p : /\ cs[i].outcome = cs[j].outcome
                                /\ cs[i].reason = cs[j].reason
                                /\ cs[i].rank = cs[j].rank
  <2>1. PICK i \in DOMAIN cs : p = Couple(cs, i)
    OBVIOUS
  <2>2. PICK j \in DOMAIN cs :
           /\ p = {i, j} /\ i # j
           /\ {cs[i].language, cs[j].language} = Languages
           /\ cs[i].outcome = cs[j].outcome /\ cs[i].reason = cs[j].reason
           /\ cs[i].rank = cs[j].rank
    BY <1>8, <2>1
  <2>3. Cardinality(p) = 2
    BY <2>2, TwoMembers
  <2>4. {cs[x].language : x \in p} = {cs[i].language, cs[j].language}
    BY <2>2
  <2> QED
    BY <2>2, <2>3, <2>4
<1>10. ASSUME NEW p \in Couples, NEW q \in Couples, p \cap q # {}
       PROVE  p = q
  <2>1. \A i \in DOMAIN cs : \A x \in Couple(cs, i) :
           x \in DOMAIN cs /\ Couple(cs, x) = Couple(cs, i)
    <3> TAKE i \in DOMAIN cs
    <3>1. PICK j \in DOMAIN cs : Couple(cs, i) = {i, j} /\ Couple(cs, j) = {i, j}
      BY <1>8
    <3> QED
      BY <3>1
  <2>2. PICK x : x \in p /\ x \in q
    BY <1>10
  <2> QED
    BY <2>1, <2>2
<1>11. ranks = 1 .. Cardinality(ranks)
  <2>1. ranks \subseteq 1 .. MaxRank
    BY <1>6
  <2>2. ASSUME NEW i \in Starters(cs), NEW r \in 1 .. cs[i].rank
        PROVE  r \in ranks
    <3>1. Cardinality(Of(r)) = 2
      BY <1>7
    <3>2. Of(r) # {}
      BY <3>1, FS_EmptySet
    <3> QED
      BY <3>2
  <2> HIDE DEF ranks
  <2>3. \A r \in ranks : 1 .. r \subseteq ranks
    BY <2>2 DEF ranks
  <2> QED
    BY <2>1, <2>3, GaplessRanks, RankAssumption
<1>12. ASSUME NEW r \in ranks
       PROVE  \E p \in Couples : Of(r) = p
  <2>1. PICK i \in Starters(cs) : cs[i].rank = r
    OBVIOUS
  <2>2. PICK j \in DOMAIN cs :
           /\ Couple(cs, i) = {i, j}
           /\ {cs[i].language, cs[j].language} = Languages
           /\ cs[i].rank = cs[j].rank
    BY <1>6, <1>8
  <2>3. i \in Of(r) /\ j \in Of(r)
    BY <1>6, <2>1, <2>2 DEF Starters
  <2>4. ASSUME NEW k \in Of(r)
        PROVE  k \in {i, j}
    <3>1. cs[k].language \in {cs[i].language, cs[j].language}
      BY <1>3, <1>6, <2>2
    <3>2. \A x \in Of(r) : cs[x].language = cs[k].language => x = k
      BY <1>6
    <3> QED
      BY <2>3, <3>1, <3>2
  <2>5. Of(r) = {i, j}
    BY <2>3, <2>4
  <2> QED
    BY <1>6, <2>2, <2>5
<1>13. \A p, q \in Couples : p = q \/ p \cap q = {}
  BY <1>10
<1>14. WellPaired(cs)
  BY <1>9, <1>11, <1>12, <1>13, Zenon DEF WellPaired
<1> QED
  BY <1>1, <1>14

\* The starters of an accepted asset that are complete are one question for
\* every rank in every language.
THEOREM StartersCover ==
    ASSUME NEW a, Accepted(a), CompleteStarters(a.cases)
    PROVE  {<<a.cases[i].rank, a.cases[i].language>> : i \in Starters(a.cases)}
              = (1 .. MaxRank) \X Languages
<1>1. PICK cs : cs = a.cases
  OBVIOUS
<1>2. \A i \in Starters(cs) :
         /\ i \in DOMAIN cs /\ cs[i].rank \in 1 .. MaxRank /\ cs[i].language \in Languages
         /\ \A j \in DOMAIN cs : Names(cs, i, j) => cs[j].rank = cs[i].rank
  BY <1>1 DEF Accepted, Validate, ValidateStarterSelections, ValidateStarterSelection,
              BuildCases, ValidCase, Starters
<1>3. \A i \in DOMAIN cs : \E j \in DOMAIN cs :
         Names(cs, i, j) /\ Names(cs, j, i) /\ cs[i].language # cs[j].language
  BY <1>1 DEF Accepted, Validate, ValidatePairedCases
<1>4. \A i \in DOMAIN cs : cs[i].language \in Languages
  BY <1>1 DEF Accepted, Validate, BuildCases, ValidCase
<1>5. ASSUME NEW r \in 1 .. MaxRank, NEW l \in Languages
      PROVE  \E i \in Starters(cs) : cs[i].rank = r /\ cs[i].language = l
  <2>1. PICK S : S = {i \in Starters(cs) : cs[i].rank = r}
    OBVIOUS
  <2>2. Cardinality(S) = 2
    BY <1>1, <2>1 DEF CompleteStarters
  <2>3. PICK i \in Starters(cs) : cs[i].rank = r
    <3>1. S # {}
      BY <2>2, FS_EmptySet
    <3> QED
      BY <2>1, <3>1
  <2>4. PICK j \in DOMAIN cs : Names(cs, i, j) /\ cs[i].language # cs[j].language
    BY <1>2, <1>3
  <2>5. cs[j].rank = r /\ j \in Starters(cs)
    BY <1>2, <2>3, <2>4 DEF Starters
  <2> QED
    BY <1>4, <1>2, <2>3, <2>4, <2>5 DEF Languages
<1> QED
  BY <1>1, <1>2, <1>5

-----------------------------------------------------------------------------
(* The inductive invariant.                                                *)

\* An alias is bound once.
BindingsAreUnique ==
    \A b, c \in bindings : b.dataset = c.dataset /\ b.alias = c.alias => b = c

\* No two reviews, stored or pending, have the same time, and none is later
\* than the clock.
TimesAreUnique ==
    /\ \A p, q \in publications : p.at = q.at => p = q
    /\ \A p \in publications : p.at <= clock
    /\ \A r \in Reviewers : reviewer[r] # None =>
          /\ reviewer[r].at <= clock
          /\ \A p \in publications : p.at # reviewer[r].at
          /\ \A x \in Reviewers \ {r} :
                reviewer[x] # None => reviewer[x].at # reviewer[r].at

\* A dataset with reviews has a latest one.
LatestExists ==
    \A p \in publications : \E q \in PublicationsOf(p.dataset) :
        \A x \in PublicationsOf(p.dataset) : x.at <= q.at

WasAvailable(d) == \E p \in publications : p.dataset = d /\ p.state = "available"

\* A call that passed a check found what it asked for, and what it found lasts.
StartsAreChecked ==
    \A k \in Starts : start[k].pc # "idle" =>
        /\ start[k].dataset \in Datasets /\ start[k].snapshot \in Snapshots
        /\ WasAvailable(start[k].dataset)
        /\ start[k].pc = "compatible" => Compatible(start[k].dataset, start[k].snapshot)

InspectedIsBound ==
    \A i \in Inspectors : inspection[i] # None /\ inspection[i].state = "available"
                            => FullyBound(inspection[i].dataset)

DInv == /\ DatasetTypeOK
        /\ imported \subseteq Importable
        /\ BindingsAreUnique
        /\ TimesAreUnique
        /\ LatestExists
        /\ AvailableIsServable
        /\ StartsAreChecked
        /\ RunsAreResolvable
        /\ InspectedIsBound

-----------------------------------------------------------------------------
(* What the helpers return.                                                *)

\* The latest of records with different times.
LEMMA ChoiceOfLatest ==
    ASSUME NEW S, NEW p \in S, \A q \in S : q.at \in Int /\ q.at <= p.at,
           \A q \in S : q.at = p.at => q = p
    PROVE  (CHOOSE x \in S : \A q \in S : q.at <= x.at) = p
<1> DEFINE c == CHOOSE x \in S : \A q \in S : q.at <= x.at
<1>1. c \in S /\ \A q \in S : q.at <= c.at
  OBVIOUS
<1>2. c.at = p.at
  BY <1>1
<1> QED
  BY <1>1, <1>2

LEMMA LatestIs ==
    ASSUME DatasetTypeOK, TimesAreUnique, NEW d, NEW p \in PublicationsOf(d),
           \A q \in PublicationsOf(d) : q.at <= p.at
    PROVE  Latest(d) = p
<1>1. \A q \in PublicationsOf(d) : q.at \in Int /\ (q.at = p.at => q = p)
  BY DEF PublicationsOf, DatasetTypeOK, Publication, TimesAreUnique
<1> QED
  BY <1>1, ChoiceOfLatest DEF Latest

LEMMA LatestIsStored ==
    ASSUME DatasetTypeOK, TimesAreUnique, LatestExists, NEW d, PublicationsOf(d) # {}
    PROVE  /\ Latest(d) \in PublicationsOf(d)
           /\ \A q \in PublicationsOf(d) : q.at <= Latest(d).at
<1>1. PICK p \in PublicationsOf(d) : \A x \in PublicationsOf(d) : x.at <= p.at
  <2>1. PICK y \in publications : y.dataset = d
    BY DEF PublicationsOf
  <2> QED
    BY <2>1 DEF LatestExists
<1>2. Latest(d) = p
  BY <1>1, LatestIs
<1> QED
  BY <1>1, <1>2

\* What controls availability is a state of the lifecycle.
LEMMA EffectiveState ==
    ASSUME DatasetTypeOK, TimesAreUnique, LatestExists, NEW d
    PROVE  /\ Effective(d) \in PublicationState \cup {"none"}
           /\ Effective(d) = "available" => WasAvailable(d)
<1>1. CASE PublicationsOf(d) = {}
  BY <1>1 DEF Effective
<1>2. CASE PublicationsOf(d) # {}
  <2>1. Latest(d) \in publications /\ Latest(d).dataset = d
    BY <1>2, LatestIsStored DEF PublicationsOf
  <2>2. Effective(d) = Latest(d).state /\ Latest(d).state \in PublicationState
    BY <1>2, <2>1 DEF Effective, DatasetTypeOK, Publication
  <2> QED
    BY <2>1, <2>2 DEF WasAvailable
<1> QED
  BY <1>1, <1>2

\* An available dataset is bound.
LEMMA AvailableIsBound ==
    ASSUME AvailableIsServable, NEW d, WasAvailable(d)
    PROVE  FullyBound(d)
  BY DEF AvailableIsServable, WasAvailable

-----------------------------------------------------------------------------
(* Facts that last.                                                        *)

\* A call or the clock goes on and the rows stay.
RowsStay == UNCHANGED rows

LEMMA RowsDecide ==
    ASSUME RowsStay
    PROVE  /\ \A d : FullyBound(d)' <=> FullyBound(d)
           /\ \A d : WasAvailable(d)' <=> WasAvailable(d)
           /\ \A d, s : Compatible(d, s)' <=> Compatible(d, s)
           /\ BindingsAreUnique => BindingsAreUnique'
           /\ LatestExists => LatestExists'
           /\ AvailableIsServable => AvailableIsServable'
           /\ RunsAreResolvable => RunsAreResolvable'
  BY DEF RowsStay, rows, FullyBound, BoundAliases, WasAvailable, Compatible,
         SourcesInSnapshot, ResolvesCases, Resolves, BoundTo, BindingsAreUnique,
         LatestExists, PublicationsOf, AvailableIsServable, RunsAreResolvable

\* Bindings are added for aliases that have none, so what was bound stays.
LEMMA BindingLasts ==
    ASSUME DInv, NEW d \in Datasets, NEW alias \in AliasesOf(d), NEW source \in Sources,
           BindSource(d, alias, source)
    PROVE  /\ bindings' = bindings \cup {[dataset |-> d, alias |-> alias, source |-> source]}
           /\ \A x, a : BoundTo(x, a) # {} => BoundTo(x, a)' = BoundTo(x, a)
           /\ \A x : FullyBound(x) => FullyBound(x)'
           /\ \A x, s : Compatible(x, s) => Compatible(x, s)'
           /\ BindingsAreUnique'
<1> DEFINE new == [dataset |-> d, alias |-> alias, source |-> source]
<1>1. \A b \in bindings : ~ (b.dataset = d /\ b.alias = alias)
  BY DEF BindSource, Unbound, BoundAliases
<1>2. bindings' = bindings \cup {new}
  BY <1>1 DEF BindSource
<1>3. ASSUME NEW x, NEW a, BoundTo(x, a) # {}
      PROVE  BoundTo(x, a)' = BoundTo(x, a)
  <2>1. PICK bound \in bindings : bound.dataset = x /\ bound.alias = a
    BY <1>3 DEF BoundTo
  <2>2. ~ (new.dataset = x /\ new.alias = a)
    BY <1>1, <2>1
  <2>3. {b \in bindings' : b.dataset = x /\ b.alias = a}
           = {b \in bindings : b.dataset = x /\ b.alias = a}
    BY <1>2, <2>2
  <2> QED
    BY <2>3 DEF BoundTo
<1>4. \A x : FullyBound(x) => FullyBound(x)'
  BY <1>2 DEF FullyBound, BoundAliases
<1>5. ASSUME NEW x, NEW s, Compatible(x, s)
      PROVE  Compatible(x, s)'
  <2>1. SourcesInSnapshot(x, s)'
    BY <1>3, <1>5 DEF Compatible, SourcesInSnapshot
  <2>2. ASSUME NEW e, Resolves(x, s, e)
        PROVE  Resolves(x, s, e)'
    BY <1>3, <2>2 DEF Resolves
  <2>3. ResolvesCases(x, s, DOMAIN Cases(x))'
    BY <1>5, <2>2 DEF Compatible, ResolvesCases
  <2> QED
    BY <2>1, <2>3 DEF Compatible
<1>6. BindingsAreUnique'
  BY <1>1, <1>2 DEF DInv, BindingsAreUnique
<1> QED
  BY <1>2, <1>3, <1>4, <1>5, <1>6

-----------------------------------------------------------------------------
(* The steps.                                                              *)

\* Time passes, or nothing happens.
LEMMA Ticks ==
    ASSUME DInv, UNCHANGED <<rows, calls>>, clock' \in 0 .. MaxClock, clock <= clock'
    PROVE  DInv'
<1>1. RowsStay /\ UNCHANGED <<imported, bindings, publications, runs>>
              /\ UNCHANGED <<reviewer, start, inspection>>
  BY DEF RowsStay, rows, calls
<1>2. DatasetTypeOK'
  BY <1>1 DEF DInv, DatasetTypeOK
<1>3. TimesAreUnique'
  <2>1. /\ \A p \in publications : p.at \in Int
        /\ \A r \in Reviewers : reviewer[r] # None => reviewer[r].at \in Int
        /\ clock \in Int
    BY DEF DInv, DatasetTypeOK, Publication, Review
  <2> QED
    BY <1>1, <2>1 DEF DInv, TimesAreUnique
<1>4. StartsAreChecked'
  BY <1>1, RowsDecide DEF DInv, StartsAreChecked
<1>5. InspectedIsBound'
  BY <1>1, RowsDecide DEF DInv, InspectedIsBound
<1> QED
  BY <1>1, <1>2, <1>3, <1>4, <1>5, RowsDecide DEF DInv

LEMMA Imports ==
    ASSUME DInv, NEW d \in Importable, Import(d)
    PROVE  DInv'
<1>1. /\ imported' = imported \cup {d}
      /\ UNCHANGED <<bindings, publications, runs, clock, reviewer, start, inspection>>
  BY DEF Import, calls
<1>2. DatasetTypeOK' /\ imported' \subseteq Importable
  BY <1>1 DEF DInv, DatasetTypeOK, Importable
<1>3. /\ \A x : FullyBound(x)' <=> FullyBound(x)
      /\ \A x : WasAvailable(x)' <=> WasAvailable(x)
      /\ \A x, s : Compatible(x, s)' <=> Compatible(x, s)
  BY <1>1 DEF FullyBound, BoundAliases, WasAvailable, Compatible, SourcesInSnapshot,
              ResolvesCases, Resolves, BoundTo
<1>4. BindingsAreUnique' /\ TimesAreUnique' /\ LatestExists'
  BY <1>1 DEF DInv, BindingsAreUnique, TimesAreUnique, LatestExists, PublicationsOf
<1>5. AvailableIsServable' /\ RunsAreResolvable'
  <2>1. AvailableIsServable'
    BY <1>1 DEF DInv, AvailableIsServable, FullyBound, BoundAliases, BoundTo
  <2>2. RunsAreResolvable'
    BY <1>1 DEF DInv, RunsAreResolvable, SourcesInSnapshot, BoundTo, ResolvesCases, Resolves
  <2> QED
    BY <2>1, <2>2
<1>6. StartsAreChecked' /\ InspectedIsBound'
  BY <1>1, <1>3 DEF DInv, StartsAreChecked, InspectedIsBound
<1> QED
  BY <1>2, <1>4, <1>5, <1>6 DEF DInv

LEMMA Binds ==
    ASSUME DInv, NEW d \in Datasets, NEW alias \in AliasesOf(d), NEW source \in Sources,
           BindSource(d, alias, source)
    PROVE  DInv'
<1>1. UNCHANGED <<imported, publications, runs, clock, reviewer, start, inspection>>
  BY DEF BindSource, calls
<1>2. DatasetTypeOK' /\ imported' \subseteq Importable
  <2>1. [dataset |-> d, alias |-> alias, source |-> source] \in Binding
    BY DEF Binding, Aliases
  <2> QED
    BY <1>1, <2>1, BindingLasts DEF DInv, DatasetTypeOK
<1>3. BindingsAreUnique'
  BY BindingLasts
<1>4. TimesAreUnique' /\ LatestExists'
  BY <1>1 DEF DInv, TimesAreUnique, LatestExists, PublicationsOf
<1>5. \A x : WasAvailable(x)' <=> WasAvailable(x)
  BY <1>1 DEF WasAvailable
<1>6. AvailableIsServable'
  <2> SUFFICES ASSUME NEW p \in publications, p.state = "available"
               PROVE  /\ FullyBound(p.dataset)'
                      /\ CompleteStarters(Cases(p.dataset))
                      /\ \A a \in AliasesOf(p.dataset) :
                            \E x \in Sources : BoundTo(p.dataset, a)' = {x}
    BY <1>1 DEF AvailableIsServable
  <2>1. /\ FullyBound(p.dataset)
        /\ CompleteStarters(Cases(p.dataset))
        /\ \A a \in AliasesOf(p.dataset) : \E x \in Sources : BoundTo(p.dataset, a) = {x}
    BY DEF DInv, AvailableIsServable
  <2>2. \A a \in AliasesOf(p.dataset) : BoundTo(p.dataset, a)' = BoundTo(p.dataset, a)
    BY <2>1, BindingLasts
  <2> QED
    BY <2>1, <2>2, BindingLasts
<1>7. StartsAreChecked'
  BY <1>1, <1>5, BindingLasts DEF DInv, StartsAreChecked
<1>8. RunsAreResolvable'
  BY <1>1, BindingLasts DEF DInv, RunsAreResolvable, Compatible
<1>9. InspectedIsBound'
  BY <1>1, BindingLasts DEF DInv, InspectedIsBound
<1> QED
  BY <1>2, <1>3, <1>4, <1>6, <1>7, <1>8, <1>9 DEF DInv

LEMMA Reviews ==
    ASSUME DInv, NEW r \in Reviewers, NEW d \in Datasets, NEW next \in PublicationState,
           ReviewBegins(r, d, next)
    PROVE  DInv'
<1> DEFINE new == [dataset |-> d, state |-> next, at |-> clock + 1]
<1>1. /\ RowsStay /\ UNCHANGED <<imported, bindings, publications, runs>>
      /\ UNCHANGED <<start, inspection>>
      /\ clock < MaxClock /\ clock' = clock + 1
      /\ reviewer' = [reviewer EXCEPT ![r] = new]
  BY DEF ReviewBegins, RowsStay, rows, Now
<1>2. /\ clock \in Nat /\ MaxClock \in Nat
      /\ \A p \in publications : p.at \in Nat
      /\ \A x \in Reviewers : reviewer[x] # None => reviewer[x].at \in Nat
      /\ reviewer \in [Reviewers -> Review]
  BY ClockAssumption DEF DInv, DatasetTypeOK, Publication, Review
<1>3. new \in Publication /\ clock' \in 0 .. MaxClock
  BY <1>1, <1>2 DEF Publication
<1>4. /\ reviewer' \in [Reviewers -> Review] /\ reviewer'[r] = new
      /\ \A x \in Reviewers \ {r} : reviewer'[x] = reviewer[x]
  BY <1>1, <1>2, <1>3 DEF Review
<1>5. DatasetTypeOK' /\ imported' \subseteq Importable
  BY <1>1, <1>3, <1>4 DEF DInv, DatasetTypeOK
<1>6. TimesAreUnique'
  <2>1. \A p \in publications : p.at < new.at
    BY <1>2 DEF DInv, TimesAreUnique
  <2>2. \A x \in Reviewers \ {r} : reviewer[x] # None => reviewer[x].at < new.at
    BY <1>2 DEF DInv, TimesAreUnique
  <2>3. ASSUME NEW x \in Reviewers, reviewer'[x] # None
        PROVE  /\ reviewer'[x].at <= clock'
               /\ \A p \in publications : p.at # reviewer'[x].at
               /\ \A y \in Reviewers \ {x} :
                     reviewer'[y] # None => reviewer'[y].at # reviewer'[x].at
    <3>1. CASE x = r
      BY <1>1, <1>2, <1>4, <2>1, <2>2, <3>1
    <3>2. CASE x # r
      BY <1>1, <1>2, <1>4, <2>2, <2>3, <3>2 DEF DInv, TimesAreUnique
    <3> QED
      BY <3>1, <3>2
  <2>4. /\ \A p, q \in publications' : p.at = q.at => p = q
        /\ \A p \in publications' : p.at <= clock'
    BY <1>1, <1>2 DEF DInv, TimesAreUnique
  <2> QED
    BY <1>1, <2>3, <2>4 DEF TimesAreUnique
<1>7. StartsAreChecked' /\ InspectedIsBound'
  BY <1>1, RowsDecide DEF DInv, StartsAreChecked, InspectedIsBound
<1> QED
  BY <1>1, <1>5, <1>6, <1>7, RowsDecide DEF DInv

\* What a review stores, if it stores it.
LEMMA Appended ==
    ASSUME DInv, NEW r \in Reviewers, AppendPublication(r)
    PROVE  /\ reviewer[r] \in Publication
           /\ publications' = publications
                \/ /\ publications' = publications \cup {reviewer[r]}
                   /\ Appendable(reviewer[r].dataset, reviewer[r].state)
           /\ UNCHANGED <<imported, bindings, runs, clock, start, inspection>>
           /\ reviewer' = [reviewer EXCEPT ![r] = None]
<1>1. reviewer[r] \in Publication
  BY DEF AppendPublication, DInv, DatasetTypeOK, Review
<1>2. CASE Appendable(reviewer[r].dataset, reviewer[r].state)
  BY <1>1, <1>2 DEF AppendPublication
<1>3. CASE ~ Appendable(reviewer[r].dataset, reviewer[r].state)
  BY <1>1, <1>3 DEF AppendPublication
<1> QED
  BY <1>1, <1>2, <1>3

\* A review that is stored is the latest of its dataset or leaves the latest.
LEMMA AppendedTimes ==
    ASSUME DInv, NEW r \in Reviewers, NEW new \in Publication, reviewer[r] = new,
           AppendPublication(r), publications' = publications \cup {new}
    PROVE  /\ TimesAreUnique' /\ LatestExists'
           /\ \A x : x # new.dataset => Effective(x)' = Effective(x)
           /\ Effective(new.dataset)' \in {new.state, Effective(new.dataset)}
<1> DEFINE d == new.dataset
<1>1. /\ UNCHANGED clock
      /\ reviewer' = [reviewer EXCEPT ![r] = None]
      /\ reviewer[r] # None
  BY DEF AppendPublication
<1>2. /\ \A p \in publications' : p \in Publication /\ p.at \in Int
      /\ reviewer \in [Reviewers -> Review]
  BY DEF DInv, DatasetTypeOK, Publication
<1>3. /\ reviewer'[r] = None
      /\ \A x \in Reviewers \ {r} : reviewer'[x] = reviewer[x]
  BY <1>1, <1>2
<1>4. TimesAreUnique'
  BY <1>1, <1>3 DEF DInv, TimesAreUnique
<1>5. DatasetTypeOK'
  BY <1>2, Appended, <1>1, <1>3 DEF DInv, DatasetTypeOK, Review
<1>6. /\ PublicationsOf(d)' = PublicationsOf(d) \cup {new}
      /\ \A x : x # d => PublicationsOf(x)' = PublicationsOf(x)
  BY DEF PublicationsOf
<1>7. \E q \in PublicationsOf(d)' :
         /\ \A x \in PublicationsOf(d)' : x.at <= q.at
         /\ q = new \/ (PublicationsOf(d) # {} /\ q = Latest(d))
  <2>1. CASE PublicationsOf(d) = {}
    BY <1>2, <1>6, <2>1
  <2>2. CASE PublicationsOf(d) # {}
    <3>1. /\ Latest(d) \in PublicationsOf(d)
          /\ \A x \in PublicationsOf(d) : x.at <= Latest(d).at
      BY <2>2, LatestIsStored DEF DInv
    <3>2. /\ \A x \in PublicationsOf(d) : x.at \in Int
          /\ new.at \in Int
      BY <1>2 DEF PublicationsOf
    <3>3. CASE new.at <= Latest(d).at
      BY <1>6, <2>2, <3>1, <3>2, <3>3
    <3>4. CASE ~ (new.at <= Latest(d).at)
      <4>1. \A x \in PublicationsOf(d)' : x.at <= new.at
        BY <1>6, <3>1, <3>2, <3>4
      <4> QED
        BY <1>6, <4>1
    <3> QED
      BY <3>3, <3>4
  <2> QED
    BY <2>1, <2>2
<1>8. LatestExists'
  <2> SUFFICES ASSUME NEW p \in publications'
               PROVE  \E q \in PublicationsOf(p.dataset)' :
                         \A x \in PublicationsOf(p.dataset)' : x.at <= q.at
    BY DEF LatestExists
  <2>1. CASE p.dataset = d
    BY <1>7, <2>1
  <2>2. CASE p.dataset # d
    BY <1>6, <2>2 DEF DInv, LatestExists
  <2> QED
    BY <2>1, <2>2
<1>9. ASSUME NEW x, x # d
      PROVE  Effective(x)' = Effective(x)
  <2>1. PublicationsOf(x)' = PublicationsOf(x)
    BY <1>6, <1>9
  <2>2. CASE PublicationsOf(x) = {}
    BY <2>1, <2>2 DEF Effective
  <2>3. CASE PublicationsOf(x) # {}
    <3>1. /\ Latest(x) \in PublicationsOf(x)'
          /\ \A q \in PublicationsOf(x)' : q.at <= Latest(x).at
      BY <2>1, <2>3, LatestIsStored DEF DInv
    <3>2. \A q \in PublicationsOf(x)' : q.at \in Int /\ (q.at = Latest(x).at => q = Latest(x))
      BY <1>2, <1>4, <3>1 DEF PublicationsOf, TimesAreUnique
    <3>3. Latest(x)' = Latest(x)
      BY <3>1, <3>2, ChoiceOfLatest DEF Latest
    <3> QED
      BY <2>1, <2>3, <3>3 DEF Effective
  <2> QED
    BY <2>2, <2>3
<1>10. Effective(d)' \in {new.state, Effective(d)}
  <2>1. PICK q \in PublicationsOf(d)' :
           /\ \A x \in PublicationsOf(d)' : x.at <= q.at
           /\ q = new \/ (PublicationsOf(d) # {} /\ q = Latest(d))
    BY <1>7
  <2>2. /\ \A x \in PublicationsOf(d)' : x.at \in Int /\ x.at <= q.at
        /\ \A x \in PublicationsOf(d)' : x.at = q.at => x = q
    BY <1>2, <1>4, <2>1 DEF PublicationsOf, TimesAreUnique
  <2>3. Latest(d)' = q
    BY <2>2, ChoiceOfLatest DEF Latest
  <2> QED
    BY <2>1, <2>3 DEF Effective
<1> QED
  BY <1>4, <1>8, <1>9, <1>10

LEMMA Appends ==
    ASSUME DInv, NEW r \in Reviewers, AppendPublication(r)
    PROVE  DInv'
<1> DEFINE new == reviewer[r]
<1>1. /\ new \in Publication
      /\ UNCHANGED <<imported, bindings, runs, clock, start, inspection>>
      /\ reviewer' = [reviewer EXCEPT ![r] = None]
  BY Appended
<1>2. publications \subseteq publications' /\ publications' \subseteq publications \cup {new}
  BY Appended
<1>3. DatasetTypeOK' /\ imported' \subseteq Importable
  BY <1>1, <1>2 DEF DInv, DatasetTypeOK, Review
<1>4. /\ \A x : FullyBound(x)' <=> FullyBound(x)
      /\ \A x, a : BoundTo(x, a)' = BoundTo(x, a)
      /\ \A x, s : Compatible(x, s)' <=> Compatible(x, s)
      /\ \A x : WasAvailable(x) => WasAvailable(x)'
  BY <1>1, <1>2 DEF FullyBound, BoundAliases, WasAvailable, Compatible, SourcesInSnapshot,
              ResolvesCases, Resolves, BoundTo
<1>5. BindingsAreUnique'
  BY <1>1 DEF DInv, BindingsAreUnique
<1>6. TimesAreUnique' /\ LatestExists'
  <2>1. CASE publications' = publications
    <3>1. TimesAreUnique'
      BY <1>1, <2>1 DEF DInv, DatasetTypeOK, TimesAreUnique
    <3>2. LatestExists'
      BY <2>1 DEF DInv, LatestExists, PublicationsOf
    <3> QED
      BY <3>1, <3>2
  <2>2. CASE publications' = publications \cup {new}
    BY <1>1, <2>2, AppendedTimes
  <2> QED
    BY <2>1, <2>2, Appended
<1>7. AvailableIsServable'
  <2> SUFFICES ASSUME NEW p \in publications', p.state = "available"
               PROVE  /\ FullyBound(p.dataset)
                      /\ CompleteStarters(Cases(p.dataset))
                      /\ \A a \in AliasesOf(p.dataset) :
                            \E x \in Sources : BoundTo(p.dataset, a) = {x}
    BY <1>4 DEF AvailableIsServable
  <2>1. CASE p \in publications
    BY <2>1 DEF DInv, AvailableIsServable
  <2>2. CASE p \notin publications
    <3>1. p = new /\ Appendable(p.dataset, p.state)
      BY <2>2, Appended
    <3>2. FullyBound(p.dataset) /\ CompleteStarters(Cases(p.dataset))
      BY <3>1 DEF Appendable, PublicationTrigger
    <3>3. ASSUME NEW a \in AliasesOf(p.dataset)
          PROVE  \E x \in Sources : BoundTo(p.dataset, a) = {x}
      <4>1. PICK b \in bindings : b.dataset = p.dataset /\ b.alias = a
        BY <3>2 DEF FullyBound, BoundAliases
      <4>2. b.source \in Sources
        BY DEF DInv, DatasetTypeOK, Binding
      <4>3. BoundTo(p.dataset, a) = {b.source}
        BY <4>1 DEF BoundTo, DInv, BindingsAreUnique
      <4> QED
        BY <4>2, <4>3
    <3> QED
      BY <3>2, <3>3
  <2> QED
    BY <2>1, <2>2
<1>8. StartsAreChecked'
  BY <1>1, <1>4 DEF DInv, StartsAreChecked
<1>9. RunsAreResolvable'
  BY <1>1, <1>2 DEF DInv, RunsAreResolvable, SourcesInSnapshot, ResolvesCases, Resolves,
                    BoundTo
<1>10. InspectedIsBound'
  BY <1>1, <1>4 DEF DInv, InspectedIsBound
<1> QED
  BY <1>3, <1>5, <1>6, <1>7, <1>8, <1>9, <1>10 DEF DInv

\* A call of Start or of an inspection goes on.
LEMMA CallsGoOn ==
    ASSUME DInv, RowsStay, UNCHANGED <<clock, reviewer>>,
           start' \in [Starts -> Start], inspection' \in [Inspectors -> Inspection],
           StartsAreChecked', InspectedIsBound'
    PROVE  DInv'
<1>1. UNCHANGED <<imported, bindings, publications, runs>>
  BY DEF RowsStay, rows
<1>2. DatasetTypeOK' /\ TimesAreUnique' /\ imported' \subseteq Importable
  BY <1>1 DEF DInv, DatasetTypeOK, TimesAreUnique
<1> QED
  BY <1>2, RowsDecide DEF DInv

\* One call of Start goes on, with facts that hold.
LEMMA StartGoesOn ==
    ASSUME DInv, RowsStay, UNCHANGED <<clock, reviewer, inspection>>,
           NEW k \in Starts, NEW new \in Start, start' = [start EXCEPT ![k] = new],
           new.pc # "idle" =>
              /\ new.dataset \in Datasets /\ new.snapshot \in Snapshots
              /\ WasAvailable(new.dataset)
              /\ new.pc = "compatible" => Compatible(new.dataset, new.snapshot)
    PROVE  DInv'
<1>1. /\ start' \in [Starts -> Start] /\ start'[k] = new
      /\ \A x \in Starts \ {k} : start'[x] = start[x]
  BY DEF DInv, DatasetTypeOK
<1>2. StartsAreChecked'
  BY <1>1, RowsDecide DEF DInv, StartsAreChecked
<1>3. InspectedIsBound'
  BY RowsDecide DEF DInv, InspectedIsBound
<1>4. inspection' \in [Inspectors -> Inspection]
  BY DEF DInv, DatasetTypeOK
<1> QED
  BY <1>1, <1>2, <1>3, <1>4, CallsGoOn

LEMMA StartProceeds ==
    ASSUME DInv, NEW k \in Starts,
           \/ \E d \in imported, s \in Snapshots : CheckPublication(k, d, s)
           \/ CheckCompatibility(k)
           \/ CreateRun(k)
    PROVE  DInv'
<1>0. start \in [Starts -> Start] /\ start[k] \in Start
  BY DEF DInv, DatasetTypeOK
<1>1. ASSUME NEW d \in imported, NEW s \in Snapshots, CheckPublication(k, d, s)
      PROVE  DInv'
  <2>1. WasAvailable(d) /\ d \in Datasets
    BY <1>1, EffectiveState DEF CheckPublication, DInv, DatasetTypeOK
  <2>2. [pc |-> "available", dataset |-> d, snapshot |-> s] \in Start
    BY <2>1 DEF Start
  <2> QED
    BY <1>1, <2>1, <2>2, StartGoesOn DEF CheckPublication, RowsStay
<1>2. CASE CheckCompatibility(k)
  <2> DEFINE w == start[k]
  <2>1. /\ w.dataset \in Datasets /\ w.snapshot \in Snapshots /\ WasAvailable(w.dataset)
    BY <1>2 DEF CheckCompatibility, DInv, StartsAreChecked
  <2>2. NoStart \in Start /\ NoStart.pc = "idle"
    BY DEF NoStart, Start
  <2>3. CASE Compatible(w.dataset, w.snapshot)
    <3>1. PICK new : new = [w EXCEPT !.pc = "compatible"]
      OBVIOUS
    <3>2. /\ new \in Start /\ new.dataset = w.dataset /\ new.snapshot = w.snapshot
          /\ start' = [start EXCEPT ![k] = new]
      BY <1>0, <1>2, <2>3, <3>1 DEF CheckCompatibility, Start
    <3> QED
      BY <1>2, <2>1, <2>3, <3>2, StartGoesOn DEF CheckCompatibility, RowsStay
  <2>4. CASE ~ Compatible(w.dataset, w.snapshot)
    <3>1. start' = [start EXCEPT ![k] = NoStart]
      BY <1>0, <1>2, <2>4 DEF CheckCompatibility
    <3> QED
      BY <1>2, <2>2, <3>1, StartGoesOn DEF CheckCompatibility, RowsStay
  <2> QED
    BY <2>3, <2>4
<1>3. CASE CreateRun(k)
  <2>1. PICK new : new = [dataset |-> start[k].dataset, snapshot |-> start[k].snapshot]
    OBVIOUS
  <2>2. /\ new \in Run
        /\ WasAvailable(new.dataset) /\ Compatible(new.dataset, new.snapshot)
        /\ runs' = runs \cup {new}
        /\ start' = [start EXCEPT ![k] = NoStart]
        /\ UNCHANGED <<imported, bindings, publications, clock, reviewer, inspection>>
    BY <1>3, <2>1 DEF CreateRun, DInv, StartsAreChecked, Run
  <2>3. NoStart \in Start /\ NoStart.pc = "idle"
    BY DEF NoStart, Start
  <2>4. /\ start' \in [Starts -> Start] /\ start'[k] = NoStart
        /\ \A x \in Starts \ {k} : start'[x] = start[x]
    BY <1>0, <2>2, <2>3
  <2>5. /\ \A x : FullyBound(x)' <=> FullyBound(x)
        /\ \A x : WasAvailable(x)' <=> WasAvailable(x)
        /\ \A x, s : Compatible(x, s)' <=> Compatible(x, s)
    BY <2>2 DEF FullyBound, BoundAliases, WasAvailable, Compatible, SourcesInSnapshot,
                ResolvesCases, Resolves, BoundTo
  <2>6. DatasetTypeOK' /\ imported' \subseteq Importable
    BY <2>2, <2>4 DEF DInv, DatasetTypeOK
  <2>7. BindingsAreUnique' /\ TimesAreUnique' /\ LatestExists'
    BY <2>2 DEF DInv, BindingsAreUnique, TimesAreUnique, LatestExists, PublicationsOf
  <2>8. AvailableIsServable'
    BY <2>2 DEF DInv, AvailableIsServable, FullyBound, BoundAliases, BoundTo
  <2>9. RunsAreResolvable'
    <3> SUFFICES ASSUME NEW x \in runs'
                 PROVE  WasAvailable(x.dataset) /\ Compatible(x.dataset, x.snapshot)
      BY <2>5 DEF RunsAreResolvable, WasAvailable, Compatible
    <3> QED
      BY <2>2 DEF DInv, RunsAreResolvable, WasAvailable, Compatible
  <2>10. StartsAreChecked' /\ InspectedIsBound'
    BY <2>2, <2>3, <2>4, <2>5 DEF DInv, StartsAreChecked, InspectedIsBound
  <2> QED
    BY <2>6, <2>7, <2>8, <2>9, <2>10 DEF DInv
<1> QED
  BY <1>1, <1>2, <1>3

LEMMA InspectionProceeds ==
    ASSUME DInv, NEW i \in Inspectors,
           \/ \E d \in imported : InspectReview(i, d)
           \/ InspectSources(i)
    PROVE  DInv'
<1>1. PICK new \in Inspection :
         /\ RowsStay /\ UNCHANGED <<clock, reviewer, start>>
         /\ inspection' = [inspection EXCEPT ![i] = new]
         /\ new # None /\ new.state = "available" => FullyBound(new.dataset)
  <2>1. ASSUME NEW d \in imported, InspectReview(i, d)
        PROVE  \E new \in Inspection :
                  /\ RowsStay /\ UNCHANGED <<clock, reviewer, start>>
                  /\ inspection' = [inspection EXCEPT ![i] = new]
                  /\ new # None /\ new.state = "available" => FullyBound(new.dataset)
    <3> DEFINE new == [dataset |-> d, state |-> Effective(d)]
    <3>1. Effective(d) = "available" => FullyBound(d)
      BY EffectiveState, AvailableIsBound DEF DInv
    <3>2. new \in Inspection
      BY EffectiveState DEF DInv, DatasetTypeOK, Inspection
    <3> QED
      BY <2>1, <3>1, <3>2 DEF InspectReview, RowsStay
  <2>2. CASE InspectSources(i)
    BY <2>2 DEF InspectSources, RowsStay, Inspection
  <2> QED
    BY <2>1, <2>2
<1>2. /\ inspection' \in [Inspectors -> Inspection] /\ inspection'[i] = new
      /\ \A x \in Inspectors \ {i} : inspection'[x] = inspection[x]
  BY <1>1 DEF DInv, DatasetTypeOK
<1>3. InspectedIsBound'
  BY <1>1, <1>2, RowsDecide DEF DInv, InspectedIsBound
<1>4. StartsAreChecked' /\ start' \in [Starts -> Start]
  BY <1>1, RowsDecide DEF DInv, StartsAreChecked, DatasetTypeOK
<1> QED
  BY <1>1, <1>2, <1>3, <1>4, CallsGoOn

-----------------------------------------------------------------------------
(* Invariance.                                                             *)

LEMMA DatasetStarts == DatasetInit => DInv
<1> SUFFICES ASSUME DatasetInit PROVE DInv
  OBVIOUS
<1>1. NoStart \in Start /\ None \in Review /\ None \in Inspection /\ 0 \in 0 .. MaxClock
  BY ClockAssumption DEF NoStart, Start, Review, Inspection
<1>2. DatasetTypeOK
  BY <1>1 DEF DatasetInit, DatasetTypeOK
<1>3. StartsAreChecked
  BY DEF DatasetInit, StartsAreChecked, NoStart
<1> QED
  BY <1>2, <1>3 DEF DatasetInit, DInv, BindingsAreUnique, TimesAreUnique, LatestExists,
                    AvailableIsServable, RunsAreResolvable, InspectedIsBound

LEMMA DatasetStep == ASSUME DInv, DatasetNext PROVE DInv'
<1>1. imported \subseteq Datasets
  BY DEF DInv, DatasetTypeOK
<1>2. ASSUME NEW d \in Importable, Import(d) PROVE DInv'
  BY <1>2, Imports
<1>3. ASSUME NEW d \in imported, NEW alias \in AliasesOf(d), NEW source \in Sources,
             BindSource(d, alias, source)
      PROVE  DInv'
  BY <1>1, <1>3, Binds
<1>4. ASSUME NEW d \in imported, NEW r \in Reviewers, NEW next \in PublicationState,
             ReviewBegins(r, d, next)
      PROVE  DInv'
  BY <1>1, <1>4, Reviews
<1>5. ASSUME NEW k \in Starts,
             \/ \E d \in imported, s \in Snapshots : CheckPublication(k, d, s)
             \/ CheckCompatibility(k) \/ CreateRun(k)
      PROVE  DInv'
  BY <1>5, StartProceeds
<1>6. ASSUME NEW i \in Inspectors,
             (\E d \in imported : InspectReview(i, d)) \/ InspectSources(i)
      PROVE  DInv'
  BY <1>6, InspectionProceeds
<1>7. ASSUME NEW r \in Reviewers, AppendPublication(r) PROVE DInv'
  BY <1>7, Appends
<1> QED
  BY <1>2, <1>3, <1>4, <1>5, <1>6, <1>7 DEF DatasetNext

LEMMA DatasetStutter == ASSUME DInv, UNCHANGED datasetVars PROVE DInv'
<1>1. UNCHANGED <<rows, calls, clock>>
  BY DEF datasetVars
<1>2. clock \in 0 .. MaxClock
  BY DEF DInv, DatasetTypeOK
<1> QED
  BY <1>1, <1>2, ClockAssumption, Ticks

\* Bindings, reviews, calls and inspections keep the invariant.
THEOREM DatasetInvariance == DatasetSpec => []DInv
<1>1. DInv /\ [DatasetNext]_datasetVars => DInv'
  BY DatasetStep, DatasetStutter
<1> QED
  BY <1>1, DatasetStarts, PTL DEF DatasetSpec

-----------------------------------------------------------------------------
(* The properties of the runs.                                             *)

\* Rows and calls always have the values of their columns and variables.
THEOREM DatasetTypes == DatasetSpec => []DatasetTypeOK
<1>1. DInv => DatasetTypeOK
  BY DEF DInv
<1> QED
  BY <1>1, DatasetInvariance, PTL

\* Only couples of cases are ever stored, however the validators split the
\* question.
THEOREM Imported == DatasetSpec => []ImportedIsPaired
<1>1. DInv => ImportedIsPaired
  <2> SUFFICES ASSUME DInv, NEW d \in imported PROVE d \in PairedDatasets
    BY DEF ImportedIsPaired
  <2>1. d \in Datasets /\ Accepted(Asset[d])
    BY DEF DInv, Importable
  <2>2. WellPaired(Cases(d))
    BY <2>1, AcceptedIsPaired DEF Cases
  <2> QED
    BY <2>1, <2>2 DEF PairedDatasets
<1> QED
  BY <1>1, DatasetInvariance, PTL

\* What was available once is bound for ever.
THEOREM Available == DatasetSpec => []AvailableIsServable
<1>1. DInv => AvailableIsServable
  BY DEF DInv
<1> QED
  BY <1>1, DatasetInvariance, PTL

\* Every run was made with a published dataset and resolves in its snapshot.
THEOREM Runs == DatasetSpec => []RunsAreResolvable
<1>1. DInv => RunsAreResolvable
  BY DEF DInv
<1> QED
  BY <1>1, DatasetInvariance, PTL

\* An inspection that found a dataset available finds its sources.
THEOREM Inspections == DatasetSpec => InspectionIsConsistent
<1>1. DInv /\ [DatasetNext]_datasetVars
        => [\A i \in Inspectors : InspectSources(i) /\ inspection[i].state = "available"
                                    => FullyBound(inspection[i].dataset)]_datasetVars
  BY DEF DInv, InspectedIsBound, InspectSources
<1> QED
  BY <1>1, DatasetInvariance, PTL DEF DatasetSpec, InspectionIsConsistent

\* The steps of the tables are steps of the review lifecycle or change no
\* state: a record that is committed late either follows the state in force or
\* is older than it and changes nothing.
THEOREM DatasetRefinement == DatasetSpec => ImplementsLifecycle
<1> DEFINE state == [d \in Importable |-> Effective(d)]
<1>1. DatasetInit => Lifecycle!Init
  BY DEF DatasetInit, Lifecycle!Init, Effective, PublicationsOf
<1>2. DInv /\ [DatasetNext]_datasetVars => [Lifecycle!Next]_state
  <2> SUFFICES ASSUME DInv, [DatasetNext]_datasetVars
               PROVE  state' = state \/ Lifecycle!Next
    OBVIOUS
  <2>1. CASE publications' = publications
    <3>1. \A d : PublicationsOf(d)' = PublicationsOf(d)
      BY <2>1 DEF PublicationsOf
    <3>2. \A d : Effective(d)' = Effective(d)
      BY <2>1 DEF Effective, Latest, PublicationsOf
    <3> QED
      BY <3>2
  <2>2. CASE publications' # publications
    <3>1. PICK r \in Reviewers : AppendPublication(r)
      BY <2>2 DEF DatasetNext, datasetVars, rows, Import, BindSource, ReviewBegins,
                  CheckPublication, CheckCompatibility, CreateRun, InspectReview,
                  InspectSources
    <3>2. PICK new \in Publication : new = reviewer[r]
      BY <3>1, Appended
    <3>3. publications' = publications \cup {new} /\ Appendable(new.dataset, new.state)
      BY <2>2, <3>1, <3>2, Appended
    <3>4. /\ \A x : x # new.dataset => Effective(x)' = Effective(x)
          /\ Effective(new.dataset)' \in {new.state, Effective(new.dataset)}
      BY <3>1, <3>2, <3>3, AppendedTimes
    <3>5. new.state \in PublicationState
      BY DEF Publication
    <3>6. \/ Effective(new.dataset) = "none"
          \/ ValidatePublicationTransition(Effective(new.dataset), new.state)
      BY <3>3 DEF Appendable, MayFollow, Effective
    <3>7. CASE Effective(new.dataset)' = Effective(new.dataset)
      BY <3>4, <3>7
    <3>8. CASE /\ Effective(new.dataset)' # Effective(new.dataset)
               /\ new.dataset \in Importable
      <4>1. state' = [state EXCEPT ![new.dataset] = new.state]
        BY <3>4, <3>8
      <4>2. state'[new.dataset] # state[new.dataset]
        BY <3>8
      <4>3. Lifecycle!Review(new.dataset, new.state)
        BY <3>6, <3>8, <4>1 DEF Lifecycle!Review, Lifecycle!ValidTransition,
                                ValidatePublicationTransition
      <4>4. new.state \in Lifecycle!State
        BY <3>5 DEF Lifecycle!State, PublicationState
      <4> QED
        BY <3>8, <4>2, <4>3, <4>4 DEF Lifecycle!Next
    <3>9. CASE new.dataset \notin Importable
      BY <3>4, <3>9
    <3> QED
      BY <3>7, <3>8, <3>9
  <2> QED
    BY <2>1, <2>2
<1> QED
  BY <1>1, <1>2, DatasetInvariance, PTL DEF DatasetSpec, ImplementsLifecycle, Lifecycle!Spec
=============================================================================
