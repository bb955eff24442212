---------------------------- MODULE SnapshotRelease ----------------------------
(***************************************************************************)
(* The evidence release of one corpus: immutable snapshots, the single row *)
(* of corpus_snapshot_releases that names the active one, and the graph    *)
(* releases of each snapshot.  The release moves by optimistic version.    *)
(* Ingestion workers move it through their release coordinator, which      *)
(* stages a candidate, builds its graph in Neo4j and activates it, in      *)
(* separate transactions of three stores; curators publish and activate    *)
(* through the API; a command initializes the first release.               *)
(*                                                                         *)
(* Abstractions.  A snapshot is its manifest: the document it holds of     *)
(* each source, which is also its key, (corpus, manifest_sha256).  Every   *)
(* document offered is published and its chunks are ready.  The semantic   *)
(* artifacts of a document only grow, by those each extraction of it adds; *)
(* a graph manifest is the extractions that have added to the members when *)
(* the builder reads them, and a graph release a snapshot with a manifest. *)
(* A transaction that holds the lock on the release row is one step; while *)
(* there is no row to lock, the keys of the two tables reject the later of *)
(* two transactions.  The write transaction of Neo4j is its first read and *)
(* its commit: two that delete the same nodes are ordered by the locks on  *)
(* them.  A call whose answer is lost is the call followed by Crash.       *)
(***************************************************************************)
EXTENDS Integers

CONSTANTS Sources,        \* sources of the corpus
          Documents,      \* published document versions a source may have
          Extractions,    \* extractions that add artifacts to a document that exists
          Coordinators,   \* ingestion workers in their release stage
          None            \* no document, no source

CONSTANT  MaxVersion      \* bound: the release moves at most this often

ASSUME VersionAssumption == MaxVersion \in Nat
ASSUME AbsentAssumption  == None \notin Sources \cup Documents

VARIABLES
    artifacts,   \* [Extractions -> Enriched]: the document whose artifacts it added to
    snapshots,   \* SUBSET Snapshots: the corpus_snapshots table
    release,     \* ReleaseRow: the row of corpus_snapshot_releases
    graph,       \* [GraphReleases -> GraphStatus]: the graph_releases table
    projected,   \* SUBSET GraphReleases: what Neo4j holds, each complete
    coordinator  \* [Coordinators -> CoordinatorState]

vars == <<artifacts, snapshots, release, graph, projected, coordinator>>

-----------------------------------------------------------------------------
(* Types.                                                                  *)

\* The members of a snapshot, keyed by source.
Snapshots == [Sources -> Documents \cup {None}]

NoSnapshot == [s \in Sources |-> None]

\* Version 0 stands for a corpus without a release row.
ReleaseRow == [snapshot : Snapshots, version : 0 .. MaxVersion]
NoRelease  == [snapshot |-> NoSnapshot, version |-> 0]

\* A document of a source.
Enriched == Sources \X Documents \cup {None}

\* The artifacts of the members, beyond those of their first extraction.
Manifests == SUBSET Extractions

\* The id of a graph release is a digest of its snapshot and its manifest.
GraphReleases == Snapshots \X Manifests
GraphStatus   == {"none", "building", "ready", "failed"}

Building == {"staged", "loaded", "missing", "building", "replacing", "projected"}

\* expected: the release version Stage observed.  manifest: of the graph the
\* builder has read.  superseded: the manifests of the releases its Neo4j
\* transaction deletes.
CoordinatorState ==
    [pc : {"idle", "built"} \cup Building, source : Sources \cup {None},
     document : Documents \cup {None}, snapshot : Snapshots, expected : 0 .. MaxVersion,
     manifest : Manifests, superseded : SUBSET Manifests]

Idle == [pc |-> "idle", source |-> None, document |-> None, snapshot |-> NoSnapshot,
         expected |-> 0, manifest |-> {}, superseded |-> {}]

Init == /\ artifacts   = [e \in Extractions |-> None]
        /\ snapshots   = {}
        /\ release     = NoRelease
        /\ graph       = [r \in GraphReleases |-> "none"]
        /\ projected   = {}
        /\ coordinator = [c \in Coordinators |-> Idle]

-----------------------------------------------------------------------------
(* The release row.                                                        *)

replaceMember(m, s, d) == [m EXCEPT ![s] = d]

\* Mutant: an existing release moves without its snapshot being written.
NotInserted(m) == snapshots

Inserted(m) == snapshots \cup {m}

\* Mutant: every release is inserted as the first.
FirstVersion == 1

NextVersion == release.version + 1

\* Snapshot m becomes the active one.
Move(m) == /\ release.version < MaxVersion
           /\ release' = [snapshot |-> m, version |-> NextVersion]

\* Mutant: the version is not compared.
AnyVersion(expected) == TRUE

CurrentVersion(expected) == release.version = expected

\* Some graph release of the snapshot is ready, whichever its manifest.
GraphReady(m) == \E g \in Manifests : graph[<<m, g>>] = "ready"

\* Mutant: a snapshot that is active already is activated again.
ActivatedAgain(m) == Move(m)

\* Activate of a snapshot that is active already commits and moves nothing.
Activated(m) == \/ /\ release.version > 0 /\ release.snapshot = m
                   /\ UNCHANGED release
                \/ /\ release.version = 0 \/ release.snapshot # m
                   /\ Move(m)

-----------------------------------------------------------------------------
(* Curators and the initialization command.                                *)

\* A candidate that has been a snapshot before is refused as stale, and one
\* that is the active snapshot moves nothing; the graph is not looked at.
Publish(s, d) == LET m == replaceMember(release.snapshot, s, d)
                 IN  /\ release.version > 0
                     /\ m \notin snapshots
                     /\ snapshots' = Inserted(m)
                     /\ Move(m)
                     /\ UNCHANGED <<artifacts, graph, projected, coordinator>>

\* m: the latest ready document of each source.
Initialize(m) == /\ release.version = 0
                 /\ m # NoSnapshot
                 /\ m \notin snapshots
                 /\ snapshots' = Inserted(m)
                 /\ Move(m)
                 /\ UNCHANGED <<artifacts, graph, projected, coordinator>>

\* A curator chooses a snapshot under the current version; it may be older
\* than the active one.
Choose(m) == /\ m \in snapshots
             /\ GraphReady(m)
             /\ release.snapshot # m
             /\ Move(m)
             /\ UNCHANGED <<artifacts, snapshots, graph, projected, coordinator>>

-----------------------------------------------------------------------------
(* Publication of document d of source s by an ingestion worker, when the  *)
(* document exists already: what another extraction has found is added to  *)
(* it, also while releases of its snapshots are built.                     *)

Republish(e, s, d) == /\ artifacts[e] = None
                      /\ artifacts' = [artifacts EXCEPT ![e] = <<s, d>>]
                      /\ UNCHANGED <<snapshots, release, graph, projected, coordinator>>

-----------------------------------------------------------------------------
(* The release coordinator of a worker that has published document d of    *)
(* source s.                                                               *)

Stage(c, s, d) ==
    LET m == replaceMember(release.snapshot, s, d)
    IN  /\ coordinator[c].pc = "idle"
        /\ snapshots' = Inserted(m)
        /\ coordinator' = [coordinator EXCEPT ![c] =
              [pc |-> "staged", source |-> s, document |-> d, snapshot |-> m,
               expected |-> release.version, manifest |-> {}, superseded |-> {}]]
        /\ UNCHANGED <<artifacts, release, graph, projected>>

\* c goes from one point of publish() to the next.
Advance(c, from, to) == /\ coordinator[c].pc = from
                        /\ coordinator' = [coordinator EXCEPT ![c] = [@ EXCEPT !.pc = to]]

GraphManifest(m) == {e \in Extractions : \E s \in Sources : artifacts[e] = <<s, m[s]>>}

\* The builder reads the artifacts of the members, which makes the id ...
Load(c) == /\ coordinator[c].pc = "staged"
           /\ coordinator' = [coordinator EXCEPT ![c] =
                 [@ EXCEPT !.pc = "loaded", !.manifest = GraphManifest(coordinator[c].snapshot)]]
           /\ UNCHANGED <<artifacts, snapshots, release, graph, projected>>

GraphRelease(c) == <<coordinator[c].snapshot, coordinator[c].manifest>>

\* The id is not needed any longer.
Built(c, from) == /\ coordinator[c].pc = from
                  /\ coordinator' = [coordinator EXCEPT ![c] =
                        [@ EXCEPT !.pc = "built", !.manifest = {}]]

\* ... looks for a ready release of that id in a second transaction ...
Reuse(c) == /\ graph[GraphRelease(c)] = "ready"
            /\ Built(c, "loaded")
            /\ UNCHANGED <<artifacts, snapshots, release, graph, projected>>

Miss(c) == /\ graph[GraphRelease(c)] # "ready"
           /\ Advance(c, "loaded", "missing")
           /\ UNCHANGED <<artifacts, snapshots, release, graph, projected>>

SetGraph(c, status) == graph' = [graph EXCEPT ![GraphRelease(c)] = status]

\* ... and records that it builds in a third, whatever the row says by then.
RecordBuilding(c) == /\ Advance(c, "missing", "building")
                     /\ SetGraph(c, "building")
                     /\ UNCHANGED <<artifacts, snapshots, release, projected>>

\* The write transaction of Neo4j starts with the releases of the snapshot.
BeginReplace(c) ==
    /\ coordinator[c].pc = "building"
    /\ coordinator' = [coordinator EXCEPT ![c] =
          [@ EXCEPT !.pc = "replacing",
                    !.superseded = {g \in Manifests : <<coordinator[c].snapshot, g>> \in projected}]]
    /\ UNCHANGED <<artifacts, snapshots, release, graph, projected>>

Superseded(c) == {coordinator[c].snapshot} \X coordinator[c].superseded

\* Mutant: the releases are deleted after the new one is written.
DeletedLast(c) == (projected \cup {GraphRelease(c)}) \ Superseded(c)

Projected(c) == (projected \ Superseded(c)) \cup {GraphRelease(c)}

\* Its commit deletes those, and writes the release that was read.
ReplaceRelease(c) ==
    /\ coordinator[c].pc = "replacing"
    /\ projected' = Projected(c)
    /\ coordinator' = [coordinator EXCEPT ![c] = [@ EXCEPT !.pc = "projected", !.superseded = {}]]
    /\ UNCHANGED <<artifacts, snapshots, release, graph>>

RecordReady(c) == /\ graph[GraphRelease(c)] = "building"
                  /\ Built(c, "projected")
                  /\ SetGraph(c, "ready")
                  /\ UNCHANGED <<artifacts, snapshots, release, projected>>

\* Neo4j or PostgreSQL fails, or the row is no longer building: the row fails
\* only if it is building by then, and the error leaves the coordinator.
RecordFailed(c) == /\ coordinator[c].pc \in {"building", "replacing", "projected"}
                   /\ IF graph[GraphRelease(c)] = "building" THEN SetGraph(c, "failed")
                                                             ELSE UNCHANGED graph
                   /\ coordinator' = [coordinator EXCEPT ![c] = Idle]
                   /\ UNCHANGED <<artifacts, snapshots, release, projected>>

Activate(c) == LET m == coordinator[c].snapshot
               IN  /\ coordinator[c].pc = "built"
                   /\ CurrentVersion(coordinator[c].expected)
                   /\ m \in snapshots
                   /\ GraphReady(m)
                   /\ Activated(m)
                   /\ coordinator' = [coordinator EXCEPT ![c] = Idle]
                   /\ UNCHANGED <<artifacts, snapshots, graph, projected>>

\* The API answers that the release is stale or the graph is not ready, a
\* call fails or is not answered, or the process dies: the worker gives up.
Crash(c) == /\ coordinator[c].pc # "idle"
            /\ coordinator' = [coordinator EXCEPT ![c] = Idle]
            /\ UNCHANGED <<artifacts, snapshots, release, graph, projected>>

Build(c) == Load(c) \/ Reuse(c) \/ Miss(c) \/ RecordBuilding(c) \/ BeginReplace(c)
              \/ ReplaceRelease(c) \/ RecordReady(c) \/ RecordFailed(c)

\* Ingestion: publications of documents and the releases that follow them.
Ingest == \/ \E e \in Extractions, s \in Sources, d \in Documents : Republish(e, s, d)
          \/ \E c \in Coordinators :
                \/ \E s \in Sources, d \in Documents : Stage(c, s, d)
                \/ Build(c)
                \/ Activate(c)
                \/ Crash(c)

Curate == \/ \E s \in Sources, d \in Documents : Publish(s, d)
          \/ \E m \in Snapshots : Initialize(m) \/ Choose(m)

Next == Ingest \/ Curate

Spec == Init /\ [][Next]_vars

\* A corpus that only ingestion releases.
IngestionSpec == Init /\ [][Ingest]_vars

-----------------------------------------------------------------------------
(* Properties.                                                             *)

\* Rows and processes have the values of their columns and variables, the
\* active snapshot exists, and a busy coordinator has a staged candidate.
TypeOK == /\ artifacts \in [Extractions -> Enriched]
          /\ snapshots \in SUBSET Snapshots
          /\ release \in ReleaseRow
          /\ graph \in [GraphReleases -> GraphStatus]
          /\ projected \in SUBSET GraphReleases
          /\ coordinator \in [Coordinators -> CoordinatorState]
          /\ release.version > 0 => release.snapshot \in snapshots
          /\ \A c \in Coordinators : coordinator[c].pc # "idle" =>
                /\ coordinator[c].source \in Sources
                /\ coordinator[c].document \in Documents
                /\ coordinator[c].snapshot \in snapshots

\* Neo4j holds a graph release of the snapshot.
GraphProjected(m) == \E g \in Manifests : <<m, g>> \in projected

\* While the release still has the version a coordinator staged against, its
\* candidate is the active snapshot with that one member replaced, however
\* long the build took and whatever others published meanwhile.
CandidateIsCurrent ==
    \A c \in Coordinators :
        coordinator[c].pc # "idle" /\ coordinator[c].expected = release.version
          => coordinator[c].snapshot =
                replaceMember(release.snapshot, coordinator[c].source, coordinator[c].document)

\* A snapshot with a graph release that PostgreSQL calls ready has a complete
\* projection in Neo4j, though builders of several manifests delete each
\* other's releases and crash between the two stores.  It may be another
\* release of the snapshot than the ready one, whose projection is deleted
\* when the next is built while its row stays ready.
ReadyIsProjected == \A m \in Snapshots : GraphReady(m) => GraphProjected(m)

\* A worker that moves the release replaces the member of its own source and
\* no other: the update of a concurrent worker or curator is never lost.
NoLostUpdate ==
    [][\A c \in Coordinators :
          coordinator'[c] # coordinator[c] /\ release' # release
            => release'.snapshot =
                  replaceMember(release.snapshot, coordinator[c].source,
                                coordinator[c].document)]_vars

\* A version names one snapshot: the version grows exactly when the active
\* snapshot becomes another, so a caller that presents the current version
\* has seen the current snapshot.
VersionNamesSnapshot ==
    [][/\ release'.version >= release.version
       /\ release'.version = release.version <=> release'.snapshot = release.snapshot]_vars

-----------------------------------------------------------------------------
(* What the documents say and the code does not do.                        *)

\* "A ready graph release is the only graph state that online graph or hybrid
\* retrieval may query" (specs/008-graphrag-hybrid-retrieval/data-model.md:41).
\* Retrieval takes what Neo4j holds of the active snapshot, and a builder that
\* missed a release before it was ready takes its row back to building.
QueriedGraphIsReady ==
    \A g \in Manifests :
        release.version > 0 /\ <<release.snapshot, g>> \in projected
          => graph[<<release.snapshot, g>>] = "ready"

-----------------------------------------------------------------------------
(* What the code does when no graph release is built twice at once.        *)

\* The active snapshot keeps a ready graph until another becomes active.
ReadyGraphIsKept ==
    [][UNCHANGED release /\ GraphReady(release.snapshot) => GraphReady(release.snapshot)']_vars
=============================================================================
