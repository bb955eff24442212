-------------------------- MODULE SnapshotReleaseProofs --------------------------
(***************************************************************************)
(* Proofs about SnapshotRelease, for any set of sources, documents and     *)
(* coordinators and any number of moves of the release.                    *)
(***************************************************************************)
EXTENDS SnapshotRelease, TLAPS

\* A coordinator staged against this version or an earlier one, so a move of
\* the release outdates every candidate but the one that moved it.
ExpectedIsPast == \A c \in Coordinators :
    coordinator[c].pc # "idle" => coordinator[c].expected <= release.version

\* Between the Neo4j transaction and the ready row the projection stands.
ProjectionStands == \A c \in Coordinators :
    coordinator[c].pc = "projected" => GraphProjected(coordinator[c].snapshot)

\* Without a release row no snapshot is active.
NoRowNoSnapshot == release.version = 0 => release.snapshot = NoSnapshot

\* The inductive invariant.
IInv == /\ TypeOK
        /\ CandidateIsCurrent
        /\ ReadyIsProjected
        /\ ExpectedIsPast
        /\ ProjectionStands
        /\ NoRowNoSnapshot

-----------------------------------------------------------------------------
(* What the helpers of the specification return.                           *)

LEMMA Replaced ==
    ASSUME NEW m \in Snapshots, NEW s \in Sources, NEW d \in Documents
    PROVE  /\ replaceMember(m, s, d) \in Snapshots
           /\ replaceMember(m, s, d) # NoSnapshot
<1>1. replaceMember(m, s, d) \in Snapshots
  BY DEF replaceMember, Snapshots
<1>2. replaceMember(m, s, d)[s] = d
  BY DEF replaceMember, Snapshots
<1>3. NoSnapshot[s] = None
  BY DEF NoSnapshot
<1>4. d # None
  BY AbsentAssumption
<1> QED
  BY <1>1, <1>2, <1>3, <1>4

\* A move of the release: a legal row, one version on.
LEMMA Moved ==
    ASSUME TypeOK, NEW m \in Snapshots, Move(m)
    PROVE  /\ release' \in ReleaseRow
           /\ release'.version = release.version + 1
           /\ release'.snapshot = m
           /\ release.version \in Nat
<1>1. release.version \in 0 .. MaxVersion
  BY DEF TypeOK, ReleaseRow
<1> QED
  BY <1>1, VersionAssumption DEF Move, NextVersion, ReleaseRow

\* One coordinator takes a new state and no other does.
LEMMA OneCoordinator ==
    ASSUME TypeOK, NEW c \in Coordinators, NEW k \in CoordinatorState,
           coordinator' = [coordinator EXCEPT ![c] = k]
    PROVE  /\ coordinator' \in [Coordinators -> CoordinatorState]
           /\ coordinator'[c] = k
           /\ \A x \in Coordinators \ {c} : coordinator'[x] = coordinator[x]
  BY DEF TypeOK

LEMMA IdleState == Idle \in CoordinatorState
<1>1. NoSnapshot \in Snapshots
  BY DEF NoSnapshot, Snapshots
<1>2. 0 \in 0 .. MaxVersion
  BY VersionAssumption
<1>3. {} \in Manifests /\ {} \in SUBSET Manifests
  BY DEF Manifests
<1> QED
  BY <1>1, <1>2, <1>3 DEF Idle, CoordinatorState

\* What c works on stays the same from one point of publish() to the next.
Proceeds(c, from, to) ==
    \E k \in CoordinatorState :
        /\ coordinator[c].pc = from /\ k.pc = to
        /\ k.source = coordinator[c].source /\ k.document = coordinator[c].document
        /\ k.snapshot = coordinator[c].snapshot /\ k.expected = coordinator[c].expected
        /\ coordinator' = [coordinator EXCEPT ![c] = k]

LEMMA Proceeded ==
    ASSUME TypeOK, NEW c \in Coordinators, NEW from, NEW to, Proceeds(c, from, to)
    PROVE  /\ coordinator' \in [Coordinators -> CoordinatorState]
           /\ coordinator[c].pc = from /\ coordinator'[c].pc = to
           /\ coordinator'[c].source = coordinator[c].source
           /\ coordinator'[c].document = coordinator[c].document
           /\ coordinator'[c].snapshot = coordinator[c].snapshot
           /\ coordinator'[c].expected = coordinator[c].expected
           /\ \A x \in Coordinators \ {c} : coordinator'[x] = coordinator[x]
  BY OneCoordinator DEF Proceeds

LEMMA Advanced ==
    ASSUME TypeOK, NEW c \in Coordinators, NEW from, NEW to \in {"built"} \cup Building,
           Advance(c, from, to)
    PROVE  Proceeds(c, from, to) /\ coordinator'[c].manifest = coordinator[c].manifest
<1> DEFINE k == [coordinator[c] EXCEPT !.pc = to]
<1>1. coordinator[c] \in CoordinatorState
  BY DEF TypeOK
<1>2. k \in CoordinatorState
  BY <1>1 DEF CoordinatorState
<1>3. coordinator[c].pc = from /\ coordinator' = [coordinator EXCEPT ![c] = k]
  BY DEF Advance
<1>4. /\ k.pc = to /\ k.source = coordinator[c].source
      /\ k.document = coordinator[c].document /\ k.snapshot = coordinator[c].snapshot
      /\ k.expected = coordinator[c].expected /\ k.manifest = coordinator[c].manifest
  BY <1>1 DEF CoordinatorState
<1> HIDE DEF k
<1>5. coordinator'[c] = k
  BY <1>2, <1>3, OneCoordinator
<1> QED
  BY <1>2, <1>3, <1>4, <1>5 DEF Proceeds

\* The builder has read its graph, and learned its id.
LEMMA Loaded ==
    ASSUME TypeOK, NEW c \in Coordinators, Load(c)
    PROVE  Proceeds(c, "staged", "loaded")
<1> DEFINE g == GraphManifest(coordinator[c].snapshot)
           k == [coordinator[c] EXCEPT !.pc = "loaded", !.manifest = g]
<1>1. coordinator[c] \in CoordinatorState
  BY DEF TypeOK
<1>2. g \in Manifests
  BY DEF GraphManifest, Manifests
<1>3. coordinator[c].pc = "staged" /\ coordinator' = [coordinator EXCEPT ![c] = k]
  BY DEF Load
<1> HIDE DEF g
<1>4. k \in CoordinatorState
  BY <1>1, <1>2 DEF CoordinatorState, Building
<1>5. /\ k.pc = "loaded" /\ k.source = coordinator[c].source
      /\ k.document = coordinator[c].document /\ k.snapshot = coordinator[c].snapshot
      /\ k.expected = coordinator[c].expected
  BY <1>1 DEF CoordinatorState
<1> QED
  BY <1>3, <1>4, <1>5 DEF Proceeds

\* The graph is built, or was before.
LEMMA BuiltFacts ==
    ASSUME TypeOK, NEW c \in Coordinators, NEW from, Built(c, from)
    PROVE  Proceeds(c, from, "built")
<1> DEFINE k == [coordinator[c] EXCEPT !.pc = "built", !.manifest = {}]
<1>1. coordinator[c] \in CoordinatorState
  BY DEF TypeOK
<1>2. k \in CoordinatorState
  BY <1>1 DEF CoordinatorState, Manifests
<1>3. coordinator[c].pc = from /\ coordinator' = [coordinator EXCEPT ![c] = k]
  BY DEF Built
<1>4. /\ k.pc = "built" /\ k.source = coordinator[c].source
      /\ k.document = coordinator[c].document /\ k.snapshot = coordinator[c].snapshot
      /\ k.expected = coordinator[c].expected
  BY <1>1 DEF CoordinatorState
<1> QED
  BY <1>2, <1>3, <1>4 DEF Proceeds

\* The transaction of Neo4j starts, or is committed.
LEMMA Replacing ==
    ASSUME TypeOK, NEW c \in Coordinators, NEW from, NEW to \in Building,
           NEW old \in SUBSET Manifests, coordinator[c].pc = from,
           coordinator' = [coordinator EXCEPT ![c] =
              [@ EXCEPT !.pc = to, !.superseded = old]]
    PROVE  Proceeds(c, from, to) /\ coordinator'[c].manifest = coordinator[c].manifest
<1> DEFINE k == [coordinator[c] EXCEPT !.pc = to, !.superseded = old]
<1>1. coordinator[c] \in CoordinatorState
  BY DEF TypeOK
<1>2. k \in CoordinatorState
  BY <1>1 DEF CoordinatorState
<1>3. coordinator' = [coordinator EXCEPT ![c] = k]
  OBVIOUS
<1>4. /\ k.pc = to /\ k.source = coordinator[c].source
      /\ k.document = coordinator[c].document /\ k.snapshot = coordinator[c].snapshot
      /\ k.expected = coordinator[c].expected /\ k.manifest = coordinator[c].manifest
  BY <1>1 DEF CoordinatorState
<1> HIDE DEF k
<1>5. coordinator'[c] = k
  BY <1>2, <1>3, OneCoordinator
<1> QED
  BY <1>2, <1>3, <1>4, <1>5 DEF Proceeds

LEMMA ReplaceSteps ==
    ASSUME TypeOK, NEW c \in Coordinators
    PROVE  /\ BeginReplace(c) => /\ Proceeds(c, "building", "replacing")
                                 /\ coordinator'[c].manifest = coordinator[c].manifest
           /\ ReplaceRelease(c) => /\ Proceeds(c, "replacing", "projected")
                                   /\ coordinator'[c].manifest = coordinator[c].manifest
<1> DEFINE old == {g \in Manifests : <<coordinator[c].snapshot, g>> \in projected}
<1>1. old \in SUBSET Manifests /\ {} \in SUBSET Manifests
  OBVIOUS
<1>2. ASSUME BeginReplace(c)
      PROVE  /\ coordinator[c].pc = "building"
             /\ coordinator' = [coordinator EXCEPT ![c] =
                   [@ EXCEPT !.pc = "replacing", !.superseded = old]]
  BY <1>2 DEF BeginReplace
<1> HIDE DEF old
<1>3. ASSUME BeginReplace(c)
      PROVE  /\ Proceeds(c, "building", "replacing")
             /\ coordinator'[c].manifest = coordinator[c].manifest
  BY <1>1, <1>2, <1>3, Replacing DEF Building
<1>4. ASSUME ReplaceRelease(c)
      PROVE  /\ Proceeds(c, "replacing", "projected")
             /\ coordinator'[c].manifest = coordinator[c].manifest
  BY <1>1, <1>4, Replacing DEF ReplaceRelease, Building
<1> QED
  BY <1>3, <1>4

LEMMA GraphReleaseType ==
    ASSUME TypeOK, NEW c \in Coordinators
    PROVE  /\ GraphRelease(c) \in GraphReleases
           /\ coordinator[c].snapshot \in Snapshots /\ coordinator[c].manifest \in Manifests
BY DEF TypeOK, CoordinatorState, GraphRelease, GraphReleases

\* The commit of Neo4j leaves every snapshot that had a projection with one,
\* and the builder's as well.
LEMMA ReplacedFacts ==
    ASSUME TypeOK, NEW c \in Coordinators, ReplaceRelease(c)
    PROVE  /\ projected' \in SUBSET GraphReleases
           /\ GraphProjected(coordinator[c].snapshot)'
           /\ \A m \in Snapshots : GraphProjected(m) => GraphProjected(m)'
<1> DEFINE own == coordinator[c].snapshot
           g == coordinator[c].manifest
<1>1. projected' = (projected \ ({own} \X coordinator[c].superseded)) \cup {<<own, g>>}
  BY DEF ReplaceRelease, Projected, Superseded, GraphRelease
<1>2. own \in Snapshots /\ g \in Manifests /\ <<own, g>> \in GraphReleases
  BY GraphReleaseType DEF GraphRelease
<1>3. projected' \in SUBSET GraphReleases
  BY <1>1, <1>2 DEF TypeOK
<1>4. \E h \in Manifests : <<own, h>> \in projected'
  BY <1>1, <1>2
<1>5. ASSUME NEW m \in Snapshots, NEW h \in Manifests, <<m, h>> \in projected, m # own
      PROVE  <<m, h>> \in projected'
  BY <1>1, <1>5
<1>6. coordinator'[c].snapshot = own
  BY ReplaceSteps, Proceeded
<1> QED
  BY <1>3, <1>4, <1>5, <1>6 DEF GraphProjected

-----------------------------------------------------------------------------
(* The steps, by what they change.                                         *)

\* A curator's step: a snapshot, written now or before, becomes active.
LEMMA CuratorMoves ==
    ASSUME IInv, NEW m \in Snapshots, Move(m),
           snapshots' \in SUBSET Snapshots, snapshots \cup {m} \subseteq snapshots',
           UNCHANGED <<artifacts, graph, projected, coordinator>>
    PROVE  IInv'
<1>1. /\ release' \in ReleaseRow
      /\ release'.version = release.version + 1
      /\ release'.snapshot = m
      /\ release.version \in Nat
  BY Moved DEF IInv
<1>2. \A c \in Coordinators : coordinator[c] \in CoordinatorState
  BY DEF IInv, TypeOK
<1>3. TypeOK'
  BY <1>1 DEF IInv, TypeOK
<1>4. \A c \in Coordinators : coordinator[c].expected \in Int
  BY <1>2 DEF CoordinatorState
<1>5. \A c \in Coordinators : coordinator[c].pc # "idle" =>
          coordinator[c].expected < release'.version
  BY <1>1, <1>4 DEF IInv, ExpectedIsPast
<1>6. CandidateIsCurrent'
  BY <1>1, <1>4, <1>5 DEF CandidateIsCurrent
<1>7. ExpectedIsPast'
  BY <1>1, <1>4, <1>5 DEF ExpectedIsPast
<1>8. ReadyIsProjected' /\ ProjectionStands'
  BY DEF IInv, ReadyIsProjected, ProjectionStands, GraphReady, GraphProjected
<1>9. NoRowNoSnapshot'
  BY <1>1 DEF NoRowNoSnapshot
<1> QED
  BY <1>3, <1>6, <1>7, <1>8, <1>9 DEF IInv

\* Artifacts are added to a document: no row of the release changes.
LEMMA Republishes ==
    ASSUME IInv, NEW e \in Extractions, NEW s \in Sources, NEW d \in Documents,
           Republish(e, s, d)
    PROVE  IInv'
<1>1. artifacts' \in [Extractions -> Enriched]
  BY DEF Republish, IInv, TypeOK, Enriched
<1>2. UNCHANGED <<snapshots, release, graph, projected, coordinator>>
  BY DEF Republish
<1>3. TypeOK'
  BY <1>1, <1>2 DEF IInv, TypeOK
<1> QED
  BY <1>2, <1>3 DEF IInv, CandidateIsCurrent, ReadyIsProjected, ExpectedIsPast,
     ProjectionStands, NoRowNoSnapshot, GraphReady, GraphProjected

\* A coordinator gives up or ends.
LEMMA CoordinatorEnds ==
    ASSUME IInv, NEW c \in Coordinators,
           coordinator' = [coordinator EXCEPT ![c] = Idle],
           graph' \in [GraphReleases -> GraphStatus],
           \A r \in GraphReleases : graph'[r] = "ready" => graph[r] = "ready",
           UNCHANGED <<artifacts, snapshots, release, projected>>
    PROVE  IInv'
<1>1. /\ coordinator' \in [Coordinators -> CoordinatorState]
      /\ coordinator'[c].pc = "idle"
      /\ \A x \in Coordinators \ {c} : coordinator'[x] = coordinator[x]
  BY OneCoordinator, IdleState DEF IInv, Idle
<1>2. TypeOK'
  BY <1>1 DEF IInv, TypeOK
<1>3. CandidateIsCurrent' /\ ExpectedIsPast'
  BY <1>1 DEF IInv, CandidateIsCurrent, ExpectedIsPast
<1>4. \A m \in Snapshots : GraphReady(m)' => GraphReady(m)
  BY DEF GraphReady, GraphReleases
<1>5. ReadyIsProjected'
  BY <1>4 DEF IInv, ReadyIsProjected, GraphProjected
<1>6. ProjectionStands' /\ NoRowNoSnapshot'
  BY <1>1 DEF IInv, ProjectionStands, NoRowNoSnapshot, GraphProjected
<1> QED
  BY <1>2, <1>3, <1>5, <1>6 DEF IInv

\* A coordinator advances in its build; tables of the graph may change.
LEMMA BuilderAdvances ==
    ASSUME IInv, NEW c \in Coordinators, NEW from \in Building,
           NEW to \in {"built"} \cup Building, Proceeds(c, from, to),
           UNCHANGED <<artifacts, snapshots, release>>,
           graph' \in [GraphReleases -> GraphStatus], projected' \in SUBSET GraphReleases,
           \A m \in Snapshots : GraphProjected(m) => GraphProjected(m)',
           to = "projected" => GraphProjected(coordinator[c].snapshot)',
           \A m \in Snapshots : GraphReady(m)' => GraphReady(m) \/ GraphProjected(m)
    PROVE  IInv'
<1>1. /\ coordinator' \in [Coordinators -> CoordinatorState]
      /\ coordinator[c].pc = from /\ coordinator'[c].pc = to
      /\ coordinator'[c].source = coordinator[c].source
      /\ coordinator'[c].document = coordinator[c].document
      /\ coordinator'[c].snapshot = coordinator[c].snapshot
      /\ coordinator'[c].expected = coordinator[c].expected
      /\ \A x \in Coordinators \ {c} : coordinator'[x] = coordinator[x]
  BY Proceeded DEF IInv
<1>2. coordinator[c].pc # "idle"
  BY <1>1 DEF Building
<1>3. TypeOK'
  BY <1>1, <1>2 DEF IInv, TypeOK
<1>4. CandidateIsCurrent'
  BY <1>1, <1>2 DEF IInv, CandidateIsCurrent
<1>5. ExpectedIsPast'
  BY <1>1, <1>2 DEF IInv, ExpectedIsPast
<1>6. ProjectionStands'
  <2> SUFFICES ASSUME NEW x \in Coordinators, coordinator'[x].pc = "projected"
               PROVE  GraphProjected(coordinator[x].snapshot)'
    BY DEF ProjectionStands
  <2>1. coordinator[x].snapshot \in Snapshots /\ coordinator'[x].snapshot = coordinator[x].snapshot
    BY <1>1, GraphReleaseType DEF IInv
  <2>2. CASE x = c
    BY <1>1, <2>2
  <2>3. CASE x # c
    <3>1. GraphProjected(coordinator[x].snapshot)
      BY <1>1, <2>3 DEF IInv, ProjectionStands
    <3>2. \E g \in Manifests : <<coordinator[x].snapshot, g>> \in projected'
      BY <2>1, <3>1 DEF GraphProjected
    <3> QED
      BY <2>1, <3>2 DEF GraphProjected
  <2> QED
    BY <2>2, <2>3
<1>7. ReadyIsProjected'
  BY DEF IInv, ReadyIsProjected
<1>8. NoRowNoSnapshot'
  BY DEF IInv, NoRowNoSnapshot
<1> QED
  BY <1>3, <1>4, <1>5, <1>6, <1>7, <1>8 DEF IInv

\* Staging puts a fresh candidate in the hands of a coordinator.
LEMMA Stages ==
    ASSUME IInv, NEW c \in Coordinators, NEW s \in Sources, NEW d \in Documents,
           Stage(c, s, d)
    PROVE  IInv'
<1> DEFINE m == replaceMember(release.snapshot, s, d)
           k == [pc |-> "staged", source |-> s, document |-> d,
                 snapshot |-> m, expected |-> release.version,
                 manifest |-> {}, superseded |-> {}]
<1>1. release \in ReleaseRow
  BY DEF IInv, TypeOK
<1>2. m \in Snapshots
  BY <1>1, Replaced DEF ReleaseRow
<1>3. k \in CoordinatorState
  BY <1>1, <1>2 DEF CoordinatorState, Building, ReleaseRow, Manifests
<1>4. /\ k.pc = "staged" /\ k.source = s /\ k.document = d
      /\ k.snapshot = m /\ k.expected = release.version
  OBVIOUS
<1>5. /\ coordinator' = [coordinator EXCEPT ![c] = k]
      /\ snapshots' = snapshots \cup {m}
      /\ UNCHANGED <<artifacts, release, graph, projected>>
  BY DEF Stage, Inserted
<1> HIDE DEF k, m
<1>6. /\ coordinator' \in [Coordinators -> CoordinatorState]
      /\ coordinator'[c] = k
      /\ \A x \in Coordinators \ {c} : coordinator'[x] = coordinator[x]
  BY <1>3, <1>5, OneCoordinator DEF IInv
<1>7. TypeOK'
  BY <1>2, <1>4, <1>5, <1>6 DEF IInv, TypeOK
<1>8. CandidateIsCurrent'
  BY <1>4, <1>5, <1>6 DEF IInv, CandidateIsCurrent, m
<1>9. ExpectedIsPast'
  <2>1. release.version \in Int
    BY <1>1 DEF ReleaseRow
  <2> QED
    BY <1>4, <1>5, <1>6, <2>1 DEF IInv, ExpectedIsPast
<1>10. ProjectionStands'
  BY <1>4, <1>5, <1>6 DEF IInv, ProjectionStands, GraphProjected
<1>11. ReadyIsProjected' /\ NoRowNoSnapshot'
  BY <1>5 DEF IInv, ReadyIsProjected, NoRowNoSnapshot, GraphReady, GraphProjected
<1> QED
  BY <1>7, <1>8, <1>9, <1>10, <1>11 DEF IInv

\* Each step of the builder is an advance or the end of a failed build.
LEMMA Builds ==
    ASSUME IInv, NEW c \in Coordinators, Build(c)
    PROVE  IInv'
<1> DEFINE r == GraphRelease(c)
<1>1. /\ graph \in [GraphReleases -> GraphStatus] /\ projected \in SUBSET GraphReleases
      /\ r \in GraphReleases /\ TypeOK
  BY GraphReleaseType DEF IInv, TypeOK
<1>2. CASE Load(c) \/ Reuse(c) \/ Miss(c) \/ BeginReplace(c)
  <2>1. /\ UNCHANGED <<artifacts, snapshots, release, graph, projected>>
        /\ \A m \in Snapshots : (GraphReady(m)' <=> GraphReady(m))
                                  /\ (GraphProjected(m)' <=> GraphProjected(m))
    BY <1>2 DEF Load, Reuse, Miss, BeginReplace, GraphReady, GraphProjected
  <2>2. \E from \in Building, to \in {"built", "loaded", "missing", "replacing"} :
            Proceeds(c, from, to)
    <3>1. CASE Load(c)
      BY <1>1, <3>1, Loaded DEF Building
    <3>2. CASE Reuse(c)
      BY <1>1, <3>2, BuiltFacts DEF Reuse, Building
    <3>3. CASE Miss(c)
      BY <1>1, <3>3, Advanced DEF Miss, Building
    <3>4. CASE BeginReplace(c)
      BY <1>1, <3>4, ReplaceSteps DEF Building
    <3> QED
      BY <1>2, <3>1, <3>2, <3>3, <3>4
  <2>3. PICK from \in Building, to \in {"built", "loaded", "missing", "replacing"} :
            Proceeds(c, from, to)
    BY <2>2
  <2> QED
    BY <1>1, <2>1, <2>3, BuilderAdvances DEF Building
<1>3. CASE RecordBuilding(c)
  <2>1. /\ graph' = [graph EXCEPT ![r] = "building"]
        /\ UNCHANGED <<artifacts, snapshots, release, projected>>
        /\ Proceeds(c, "missing", "building")
    BY <1>1, <1>3, Advanced DEF RecordBuilding, SetGraph, Building
  <2>2. graph' \in [GraphReleases -> GraphStatus]
    BY <1>1, <2>1 DEF GraphStatus
  <2>3. \A x \in GraphReleases : graph'[x] = "ready" => graph[x] = "ready"
    BY <1>1, <2>1
  <2>4. \A m \in Snapshots : GraphReady(m)' => GraphReady(m)
    BY <2>3 DEF GraphReady, GraphReleases
  <2>5. \A m \in Snapshots : GraphProjected(m)' <=> GraphProjected(m)
    BY <2>1 DEF GraphProjected
  <2> QED
    BY <1>1, <2>1, <2>2, <2>4, <2>5, BuilderAdvances DEF Building
<1>4. CASE ReplaceRelease(c)
  <2>1. UNCHANGED <<artifacts, snapshots, release, graph>>
    BY <1>4 DEF ReplaceRelease
  <2>2. Proceeds(c, "replacing", "projected")
    BY <1>1, <1>4, ReplaceSteps
  <2>3. \A m \in Snapshots : GraphReady(m)' <=> GraphReady(m)
    BY <2>1 DEF GraphReady
  <2> QED
    BY <1>1, <1>4, <2>1, <2>2, <2>3, ReplacedFacts, BuilderAdvances DEF Building
<1>5. CASE RecordReady(c)
  <2>1. /\ graph' = [graph EXCEPT ![r] = "ready"]
        /\ UNCHANGED <<artifacts, snapshots, release, projected>>
        /\ Proceeds(c, "projected", "built")
    BY <1>1, <1>5, BuiltFacts DEF RecordReady, SetGraph
  <2>2. graph' \in [GraphReleases -> GraphStatus]
    BY <1>1, <2>1 DEF GraphStatus
  <2>3. GraphProjected(coordinator[c].snapshot)
    BY <1>5 DEF IInv, ProjectionStands, RecordReady, Built
  <2>4. \A m \in Snapshots : GraphReady(m)' => GraphReady(m) \/ m = coordinator[c].snapshot
    <3> SUFFICES ASSUME NEW m \in Snapshots, NEW g \in Manifests, graph'[<<m, g>>] = "ready",
                        m # coordinator[c].snapshot
                 PROVE  graph[<<m, g>>] = "ready"
      BY DEF GraphReady
    <3>1. <<m, g>> \in GraphReleases /\ <<m, g>> # r
      BY DEF GraphReleases, GraphRelease
    <3> QED
      BY <1>1, <2>1, <3>1
  <2>5. \A m \in Snapshots : GraphProjected(m)' <=> GraphProjected(m)
    BY <2>1 DEF GraphProjected
  <2> QED
    BY <1>1, <2>1, <2>2, <2>3, <2>4, <2>5, BuilderAdvances DEF Building
<1>6. CASE RecordFailed(c)
  <2>1. \/ graph' = [graph EXCEPT ![r] = "failed"]
        \/ graph' = graph
    BY <1>6 DEF RecordFailed, SetGraph
  <2>2. graph' \in [GraphReleases -> GraphStatus]
    BY <1>1, <2>1 DEF GraphStatus
  <2>3. \A x \in GraphReleases : graph'[x] = "ready" => graph[x] = "ready"
    BY <1>1, <2>1
  <2>4. /\ coordinator' = [coordinator EXCEPT ![c] = Idle]
        /\ UNCHANGED <<artifacts, snapshots, release, projected>>
    BY <1>6 DEF RecordFailed
  <2> QED
    BY <2>2, <2>3, <2>4, CoordinatorEnds
<1> QED
  BY <1>2, <1>3, <1>4, <1>5, <1>6 DEF Build

\* Activation moves the release, or finds its candidate active, and ends.
LEMMA Activates ==
    ASSUME IInv, NEW c \in Coordinators, Activate(c)
    PROVE  IInv'
<1> DEFINE m == coordinator[c].snapshot
<1>1. m \in Snapshots /\ m \in snapshots
  BY DEF IInv, TypeOK, CoordinatorState, Activate
<1>2. /\ coordinator' = [coordinator EXCEPT ![c] = Idle]
      /\ UNCHANGED <<artifacts, snapshots, graph, projected>>
  BY DEF Activate
<1>3. CASE UNCHANGED release
  BY <1>2, <1>3, CoordinatorEnds DEF IInv, TypeOK
<1>4. CASE Move(m)
  <2>1. /\ release' \in ReleaseRow
        /\ release'.version = release.version + 1
        /\ release'.snapshot = m
        /\ release.version \in Nat
    BY <1>1, <1>4, Moved DEF IInv
  <2>2. /\ coordinator' \in [Coordinators -> CoordinatorState]
        /\ coordinator'[c].pc = "idle"
        /\ \A x \in Coordinators \ {c} : coordinator'[x] = coordinator[x]
    BY <1>2, OneCoordinator, IdleState DEF IInv, Idle
  <2>3. TypeOK'
    BY <1>1, <1>2, <2>1, <2>2 DEF IInv, TypeOK
  <2>4. \A x \in Coordinators : coordinator[x].expected \in Int
    BY DEF IInv, TypeOK, CoordinatorState
  <2>5. \A x \in Coordinators : coordinator'[x].pc # "idle" =>
            coordinator'[x].expected < release'.version
    BY <2>1, <2>2, <2>4 DEF IInv, ExpectedIsPast
  <2>6. \A x \in Coordinators : coordinator'[x].pc # "idle" =>
            coordinator'[x].expected \in Int
    BY <2>2, <2>4
  <2>7. CandidateIsCurrent' /\ ExpectedIsPast'
    BY <2>1, <2>5, <2>6 DEF CandidateIsCurrent, ExpectedIsPast
  <2>8. ReadyIsProjected' /\ ProjectionStands'
    BY <1>2, <2>2 DEF IInv, ReadyIsProjected, ProjectionStands, GraphReady, GraphProjected
  <2>9. NoRowNoSnapshot'
    BY <2>1 DEF NoRowNoSnapshot
  <2> QED
    BY <2>3, <2>7, <2>8, <2>9 DEF IInv
<1> QED
  BY <1>3, <1>4 DEF Activate, Activated

-----------------------------------------------------------------------------
(* The invariant.                                                          *)

LEMMA InitIInv == Init => IInv
<1> SUFFICES ASSUME Init PROVE IInv
  OBVIOUS
<1>1. NoSnapshot \in Snapshots
  BY DEF NoSnapshot, Snapshots
<1>2. release \in ReleaseRow /\ release.version = 0 /\ release.snapshot = NoSnapshot
  BY <1>1, VersionAssumption DEF Init, NoRelease, ReleaseRow
<1>3. \A c \in Coordinators : coordinator[c] = Idle /\ coordinator[c].pc = "idle"
  BY DEF Init, Idle
<1>4. TypeOK
  BY <1>2, <1>3, IdleState DEF Init, TypeOK, GraphStatus, Enriched
<1>5. \A m \in Snapshots : ~ GraphReady(m)
  BY DEF Init, GraphReady, GraphReleases
<1> QED
  BY <1>2, <1>3, <1>4, <1>5
  DEF Init, IInv, CandidateIsCurrent, ReadyIsProjected, ExpectedIsPast,
      ProjectionStands, NoRowNoSnapshot

LEMMA StepIInv == IInv /\ [Next]_vars => IInv'
<1> SUFFICES ASSUME IInv, [Next]_vars PROVE IInv'
  OBVIOUS
<1>1. ASSUME NEW s \in Sources, NEW d \in Documents, Publish(s, d) PROVE IInv'
  <2> DEFINE m == replaceMember(release.snapshot, s, d)
  <2>1. release.snapshot \in Snapshots /\ snapshots \in SUBSET Snapshots
    BY DEF IInv, TypeOK, ReleaseRow
  <2>2. m \in Snapshots
    BY <2>1, Replaced
  <2>3. /\ snapshots' = snapshots \cup {m} /\ Move(m)
        /\ UNCHANGED <<artifacts, graph, projected, coordinator>>
    BY <1>1 DEF Publish, Inserted
  <2> HIDE DEF m
  <2>4. snapshots' \in SUBSET Snapshots /\ snapshots \cup {m} \subseteq snapshots'
    BY <2>1, <2>2, <2>3
  <2> QED
    BY <2>2, <2>3, <2>4, CuratorMoves
<1>2. ASSUME NEW m \in Snapshots, Initialize(m) PROVE IInv'
  <2>1. snapshots' = snapshots \cup {m} /\ Move(m) /\ UNCHANGED <<artifacts, graph, projected, coordinator>>
    BY <1>2 DEF Initialize, Inserted
  <2>2. snapshots' \in SUBSET Snapshots /\ snapshots \cup {m} \subseteq snapshots'
    BY <2>1 DEF IInv, TypeOK
  <2> QED
    BY <2>1, <2>2, CuratorMoves
<1>3. ASSUME NEW m \in Snapshots, Choose(m) PROVE IInv'
  <2>1. /\ m \in snapshots /\ Move(m)
        /\ UNCHANGED <<artifacts, snapshots, graph, projected, coordinator>>
    BY <1>3 DEF Choose
  <2>2. snapshots' \in SUBSET Snapshots /\ snapshots \cup {m} \subseteq snapshots'
    BY <2>1 DEF IInv, TypeOK
  <2> QED
    BY <2>1, <2>2, CuratorMoves
<1>4. ASSUME NEW c \in Coordinators, Crash(c) PROVE IInv'
  BY <1>4, CoordinatorEnds DEF Crash, IInv, TypeOK
<1>5. CASE UNCHANGED vars
  BY <1>5 DEF vars, IInv, TypeOK, CandidateIsCurrent, ReadyIsProjected,
      ExpectedIsPast, ProjectionStands, NoRowNoSnapshot, GraphReady, GraphProjected
<1> QED
  BY <1>1, <1>2, <1>3, <1>4, <1>5, Republishes, Stages, Builds, Activates
  DEF Next, Ingest, Curate

\* The inductive invariant holds in every reachable state, whoever stages,
\* builds, publishes, activates, fails or crashes in whatever order.
THEOREM Invariance == Spec => []IInv
<1>1. Init => IInv
  BY InitIInv
<1>2. IInv /\ [Next]_vars => IInv'
  BY StepIInv
<1> QED
  BY <1>1, <1>2, PTL DEF Spec

-----------------------------------------------------------------------------
(* The results.                                                            *)

\* Rows and processes keep the values of their columns and variables, and
\* the release always names a snapshot that exists.
THEOREM TypeCorrect == Spec => []TypeOK
<1>1. IInv => TypeOK
  BY DEF IInv
<1> QED
  BY <1>1, Invariance, PTL

\* A candidate whose expected version is still current differs from the
\* active snapshot in its own member only.
THEOREM CandidatesAreCurrent == Spec => []CandidateIsCurrent
<1>1. IInv => CandidateIsCurrent
  BY DEF IInv
<1> QED
  BY <1>1, Invariance, PTL

\* A snapshot with a ready graph release has a complete projection in Neo4j,
\* of that release or of a later one that replaced it.
THEOREM ReadyGraphsAreProjected == Spec => []ReadyIsProjected
<1>1. IInv => ReadyIsProjected
  BY DEF IInv
<1> QED
  BY <1>1, Invariance, PTL

\* No worker's activation loses the update of another worker or curator.
THEOREM NoUpdateIsLost == Spec => NoLostUpdate
<1>1. ASSUME IInv, [Next]_vars, NEW c \in Coordinators,
             coordinator'[c] # coordinator[c], release' # release
      PROVE  release'.snapshot = replaceMember(release.snapshot, coordinator[c].source,
                                               coordinator[c].document)
  <2>1. PICK x \in Coordinators : Activate(x)
    BY <1>1 DEF Next, Ingest, Curate, vars, Republish, Publish, Initialize, Choose, Stage,
        Build, Load, Reuse, Miss, RecordBuilding, BeginReplace, ReplaceRelease, RecordReady,
        RecordFailed, Crash
  <2>2. x = c
    BY <1>1, <2>1 DEF Activate, IInv, TypeOK
  <2>3. /\ coordinator[c].pc = "built"
        /\ coordinator[c].expected = release.version
        /\ Move(coordinator[c].snapshot)
    BY <1>1, <2>1, <2>2 DEF Activate, Activated, CurrentVersion
  <2>4. coordinator[c].snapshot =
           replaceMember(release.snapshot, coordinator[c].source, coordinator[c].document)
    BY <1>1, <2>3 DEF IInv, CandidateIsCurrent
  <2>5. release'.snapshot = coordinator[c].snapshot
    BY <2>3 DEF Move
  <2> QED
    BY <2>4, <2>5
<1>2. IInv /\ [Next]_vars =>
        [\A c \in Coordinators :
            coordinator'[c] # coordinator[c] /\ release' # release
              => release'.snapshot =
                    replaceMember(release.snapshot, coordinator[c].source,
                                  coordinator[c].document)]_vars
  BY <1>1
<1> QED
  BY <1>2, Invariance, PTL DEF Spec, NoLostUpdate

\* The version grows exactly when the active snapshot becomes another.
THEOREM VersionsNameSnapshots == Spec => VersionNamesSnapshot
<1> DEFINE Grows == /\ release'.version >= release.version
                    /\ release'.version = release.version
                          <=> release'.snapshot = release.snapshot
<1>1. ASSUME IInv, [Next]_vars PROVE Grows
  <2>1. release \in ReleaseRow /\ release.version \in Nat
    BY <1>1, VersionAssumption DEF IInv, TypeOK, ReleaseRow
  <2>2. CASE UNCHANGED release
    BY <2>1, <2>2
  <2>3. ASSUME NEW m \in Snapshots, Move(m), m # release.snapshot PROVE Grows
    BY <1>1, <2>1, <2>3, Moved DEF IInv
  <2>4. ASSUME NEW s \in Sources, NEW d \in Documents, Publish(s, d) PROVE Grows
    <3> DEFINE m == replaceMember(release.snapshot, s, d)
    <3>1. m \in Snapshots
      BY <2>1, Replaced DEF ReleaseRow
    <3>2. Move(m) /\ m # release.snapshot
      BY <1>1, <2>4 DEF Publish, IInv, TypeOK
    <3> HIDE DEF m, Grows
    <3> QED
      BY <3>1, <3>2, <2>3
  <2>5. ASSUME NEW m \in Snapshots, Initialize(m) PROVE Grows
    <3>1. Move(m) /\ m # release.snapshot
      BY <1>1, <2>5 DEF Initialize, IInv, NoRowNoSnapshot
    <3> HIDE DEF Grows
    <3> QED
      BY <3>1, <2>3
  <2>6. ASSUME NEW m \in Snapshots, Choose(m) PROVE Grows
    <3>1. Move(m) /\ m # release.snapshot
      BY <2>6 DEF Choose
    <3> HIDE DEF Grows
    <3> QED
      BY <3>1, <2>3
  <2>7. ASSUME NEW c \in Coordinators, Activate(c), release' # release PROVE Grows
    <3> DEFINE m == coordinator[c].snapshot
    <3>1. /\ coordinator[c].pc = "built" /\ coordinator[c].expected = release.version
          /\ Move(m) /\ (release.version = 0 \/ release.snapshot # m)
      BY <2>7 DEF Activate, Activated, CurrentVersion
    <3>2. m = replaceMember(release.snapshot, coordinator[c].source, coordinator[c].document)
      BY <1>1, <3>1 DEF IInv, CandidateIsCurrent
    <3>3. m \in Snapshots /\ m # NoSnapshot
      BY <1>1, <2>1, <3>1, <3>2, Replaced DEF IInv, TypeOK, ReleaseRow
    <3>4. m # release.snapshot
      BY <1>1, <3>1, <3>3 DEF IInv, NoRowNoSnapshot
    <3> HIDE DEF m, Grows
    <3> QED
      BY <3>1, <3>3, <3>4, <2>3
  <2>8. \/ UNCHANGED release
        \/ \E s \in Sources, d \in Documents : Publish(s, d)
        \/ \E m \in Snapshots : Initialize(m) \/ Choose(m)
        \/ \E c \in Coordinators : Activate(c)
    BY <1>1 DEF Next, Ingest, Curate, vars, Republish, Stage, Build, Load, Reuse, Miss,
        RecordBuilding, BeginReplace, ReplaceRelease, RecordReady, RecordFailed, Crash
  <2> HIDE DEF Grows
  <2> QED
    BY <2>2, <2>4, <2>5, <2>6, <2>7, <2>8
<1> QED
  BY <1>1, Invariance, PTL DEF Spec, VersionNamesSnapshot

-----------------------------------------------------------------------------
(* The graph that is ready, when no graph release is built twice at once.  *)

\* c found no ready release and has not left the builder.
BuildsAnew(c) == coordinator[c].pc \in {"missing", "building", "replacing", "projected"}

\* At most one coordinator builds a graph release at a time.
BuildsAreApart ==
    \A c, d \in Coordinators :
        BuildsAnew(c) /\ BuildsAnew(d) /\ GraphRelease(c) = GraphRelease(d) => c = d

\* What is being built is not ready.
BuildsUnready == \A c \in Coordinators : BuildsAnew(c) => graph[GraphRelease(c)] # "ready"

\* The row of a graph release is written by a coordinator that builds it.
LEMMA GraphWriters ==
    ASSUME IInv, [Next]_vars, NEW r \in GraphReleases, graph'[r] # graph[r]
    PROVE  \E c \in Coordinators :
              /\ BuildsAnew(c) /\ GraphRelease(c) = r
              /\ graph'[r] = "ready" => coordinator'[c].pc = "built"
<1>1. graph \in [GraphReleases -> GraphStatus] /\ TypeOK
  BY DEF IInv, TypeOK
<1>2. \E c \in Coordinators : RecordBuilding(c) \/ RecordReady(c) \/ RecordFailed(c)
  BY DEF Next, Ingest, Curate, vars, Republish, Publish, Initialize, Choose, Stage, Build, Load,
      Reuse, Miss, BeginReplace, ReplaceRelease, Activate, Crash
<1>3. PICK c \in Coordinators : RecordBuilding(c) \/ RecordReady(c) \/ RecordFailed(c)
  BY <1>2
<1>4. CASE RecordBuilding(c)
  BY <1>1, <1>4 DEF RecordBuilding, SetGraph, Advance, BuildsAnew
<1>5. CASE RecordReady(c)
  <2>1. coordinator[c].pc = "projected" /\ coordinator'[c].pc = "built"
    BY <1>1, <1>5, BuiltFacts, Proceeded DEF RecordReady
  <2> QED
    BY <1>1, <1>5, <2>1 DEF RecordReady, SetGraph, BuildsAnew
<1>6. CASE RecordFailed(c)
  BY <1>1, <1>6 DEF RecordFailed, SetGraph, BuildsAnew
<1> QED
  BY <1>3, <1>4, <1>5, <1>6

\* A coordinator that builds has just missed the release, or built before.
LEMMA BuildersGoOn ==
    ASSUME IInv, [Next]_vars, NEW c \in Coordinators, BuildsAnew(c)'
    PROVE  \/ BuildsAnew(c) /\ GraphRelease(c)' = GraphRelease(c)
           \/ graph'[GraphRelease(c)'] # "ready"
<1>1. TypeOK /\ coordinator \in [Coordinators -> CoordinatorState]
  BY DEF IInv, TypeOK
<1> SUFFICES ASSUME coordinator'[c] # coordinator[c]
             PROVE  \/ BuildsAnew(c) /\ GraphRelease(c)' = GraphRelease(c)
                    \/ graph'[GraphRelease(c)'] # "ready"
  BY DEF BuildsAnew, GraphRelease
<1>2. PICK x \in Coordinators :
          \/ \E s \in Sources, d \in Documents : Stage(x, s, d)
          \/ Build(x) \/ Activate(x) \/ Crash(x)
  BY DEF Next, Ingest, Curate, vars, Republish, Publish, Initialize, Choose
<1>3. CASE \E s \in Sources, d \in Documents : Stage(x, s, d)
  BY <1>1, <1>3 DEF Stage, BuildsAnew
<1>4. CASE Activate(x) \/ Crash(x) \/ RecordFailed(x)
  BY <1>1, <1>4 DEF Activate, Crash, RecordFailed, Idle, BuildsAnew
<1>5. CASE Miss(x)
  <2>1. /\ coordinator'[x].snapshot = coordinator[x].snapshot
        /\ coordinator'[x].manifest = coordinator[x].manifest
        /\ \A y \in Coordinators \ {x} : coordinator'[y] = coordinator[y]
    BY <1>1, <1>5, Advanced, Proceeded DEF Miss, Building
  <2>2. x = c
    BY <2>1
  <2> QED
    BY <1>5, <2>1, <2>2 DEF Miss, GraphRelease
<1>6. CASE Load(x) \/ Reuse(x) \/ RecordReady(x)
  <2>1. /\ coordinator'[x].pc \in {"loaded", "built"}
        /\ \A y \in Coordinators \ {x} : coordinator'[y] = coordinator[y]
    BY <1>1, <1>6, Loaded, BuiltFacts, Proceeded DEF Reuse, RecordReady
  <2> QED
    BY <2>1 DEF BuildsAnew
<1>7. CASE RecordBuilding(x) \/ BeginReplace(x) \/ ReplaceRelease(x)
  <2>1. \E from \in {"missing", "building", "replacing"}, to \in Building :
            Proceeds(x, from, to) /\ coordinator'[x].manifest = coordinator[x].manifest
    <3>1. CASE RecordBuilding(x)
      BY <1>1, <3>1, Advanced DEF RecordBuilding, Building
    <3>2. CASE BeginReplace(x) \/ ReplaceRelease(x)
      BY <1>1, <3>2, ReplaceSteps DEF Building
    <3> QED
      BY <1>7, <3>1, <3>2
  <2>2. /\ coordinator[x].pc \in {"missing", "building", "replacing"}
        /\ coordinator'[x].snapshot = coordinator[x].snapshot
        /\ coordinator'[x].manifest = coordinator[x].manifest
        /\ \A y \in Coordinators \ {x} : coordinator'[y] = coordinator[y]
    BY <1>1, <2>1, Proceeded
  <2>3. x = c
    BY <2>2
  <2> QED
    BY <2>2, <2>3 DEF BuildsAnew, GraphRelease
<1> QED
  BY <1>2, <1>3, <1>4, <1>5, <1>6, <1>7 DEF Build

LEMMA StepBuildsUnready ==
    ASSUME IInv, BuildsAreApart, BuildsUnready, [Next]_vars
    PROVE  BuildsUnready'
<1> SUFFICES ASSUME NEW c \in Coordinators, BuildsAnew(c)', graph'[GraphRelease(c)'] = "ready"
             PROVE  FALSE
  BY DEF BuildsUnready
<1> DEFINE r == GraphRelease(c)
<1>1. BuildsAnew(c) /\ GraphRelease(c)' = r
  BY BuildersGoOn
<1>2. r \in GraphReleases
  BY GraphReleaseType DEF IInv
<1>3. graph[r] # "ready" /\ graph'[r] = "ready"
  BY <1>1 DEF BuildsUnready
<1>4. PICK x \in Coordinators : /\ BuildsAnew(x) /\ GraphRelease(x) = r
                               /\ coordinator'[x].pc = "built"
  BY <1>2, <1>3, GraphWriters
<1>5. x = c
  BY <1>1, <1>4 DEF BuildsAreApart
<1> QED
  BY <1>4, <1>5 DEF BuildsAnew

\* The active snapshot keeps a ready graph release whenever no release of it is
\* built by two coordinators at once, also when republished documents give it
\* further releases: a second build of the same release is all that takes the
\* ready one back.
THEOREM SingleBuildsKeepTheGraph == Spec /\ []BuildsAreApart => ReadyGraphIsKept
<1>1. Init => BuildsUnready
  BY DEF Init, BuildsUnready, BuildsAnew, Idle
<1>2. ASSUME IInv, BuildsUnready, [Next]_vars, UNCHANGED release, GraphReady(release.snapshot)
      PROVE  GraphReady(release.snapshot)'
  <2>1. release.snapshot \in Snapshots
    BY <1>2 DEF IInv, TypeOK, ReleaseRow
  <2>2. PICK g \in Manifests : graph[<<release.snapshot, g>>] = "ready"
    BY <1>2 DEF GraphReady
  <2>3. <<release.snapshot, g>> \in GraphReleases
    BY <2>1 DEF GraphReleases
  <2>4. graph'[<<release.snapshot, g>>] = "ready"
    BY <1>2, <2>2, <2>3, GraphWriters DEF BuildsUnready
  <2> QED
    BY <1>2, <2>4 DEF GraphReady
<1>3. IInv /\ BuildsUnready /\ [Next]_vars =>
        [UNCHANGED release /\ GraphReady(release.snapshot) => GraphReady(release.snapshot)']_vars
  BY <1>2
<1> QED
  BY <1>1, <1>3, StepBuildsUnready, Invariance, PTL DEF Spec, ReadyGraphIsKept

\* A deployment with one ingestion worker never takes a ready graph back.
THEOREM OneCoordinatorKeepsTheGraph ==
    ASSUME \A c, d \in Coordinators : c = d
    PROVE  Spec => ReadyGraphIsKept
<1>1. BuildsAreApart
  BY DEF BuildsAreApart
<1> QED
  BY <1>1, SingleBuildsKeepTheGraph, PTL
=============================================================================
