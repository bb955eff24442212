--------------------------- MODULE IngestionRelease ---------------------------
(***************************************************************************)
(* The ingestion workers of IngestionQueue with the release coordinators   *)
(* of SnapshotRelease that they call between the publication of a document *)
(* and the completion of its row.  Neither knows of the other: the         *)
(* coordinator never looks at the lease, and the queue never at the        *)
(* release.                                                                *)
(*                                                                         *)
(* All sources belong to one corpus, whose curators do nothing here.       *)
(***************************************************************************)
EXTENDS IngestionQueue

CONSTANT Extractions     \* extractions that add artifacts to a document that exists
CONSTANT MaxVersion      \* bound: the release moves at most this often

ASSUME BoundAssumption == MaxVersion \in Nat

VARIABLES artifacts, snapshots, release, graph, projected, coordinator,  \* of SnapshotRelease
          attempt  \* [Workers -> Attempt]: what a process knows of its claim

Corpus == INSTANCE SnapshotRelease WITH Coordinators <- Workers

corpusVars == <<artifacts, snapshots, release, graph, projected, coordinator>>

allVars == <<vars, corpusVars, attempt>>

\* source: as claimed.  release: how far publish() of the coordinator is.
Attempt == [source : Sources \cup {None},
            release : {"none", "running", "activated", "failed"}]

NoAttempt == [source |-> None, release |-> "none"]

ReleaseInit == Init /\ Corpus!Init /\ attempt = [k \in Workers |-> NoAttempt]

-----------------------------------------------------------------------------
(* The queue.                                                              *)

Take(k) == /\ Claim(k)
           /\ attempt' = [attempt EXCEPT ![k] =
                 [source |-> work'[worker'[k].work].source, release |-> "none"]]
           /\ UNCHANGED corpusVars

\* Mutant: the row is completed whatever became of the release.
Returned(k) == attempt[k].release # "running"

Succeeded(k) == attempt[k].release = "activated"

\* An exception of publish() is one of its stage.
Raised(k) == worker[k].pc = "releasing" => attempt[k].release \in {"none", "failed"}

\* The other steps of a worker; a claim that has failed is only a row.
Carry(k) == /\ \/ FinishStages(k)
               \/ Publish(k)
               \/ LeaseUnavailable(k)
               \/ Release(k) /\ Succeeded(k)
               \/ StageError(k) /\ Raised(k)
               \/ Complete(k)
               \/ Fail(k)
               \/ Abandon(k)
            /\ attempt' = IF worker'[k].pc \in {"idle", "failing"}
                          THEN [attempt EXCEPT ![k] = NoAttempt] ELSE attempt
            /\ UNCHANGED corpusVars

\* Publication of a document that its source has already, in which the
\* extraction of this claim has found more than the ones before.
Enrich(k) == /\ Publish(k)
             /\ worker[k].document \in documents[attempt[k].source]
             /\ \E e \in Extractions :
                   Corpus!Republish(e, attempt[k].source, worker[k].document)
             /\ UNCHANGED attempt

\* A process takes its coordinator with it.
Dies(k) == /\ Crash(k)
           /\ attempt' = [attempt EXCEPT ![k] = NoAttempt]
           /\ coordinator' = [coordinator EXCEPT ![k] = Corpus!Idle]
           /\ UNCHANGED <<artifacts, snapshots, release, graph, projected>>

-----------------------------------------------------------------------------
(* GraphReleaseCoordinator.publish.                                        *)

\* Mutant: the graph release comes before the canonical publication.
BeforePublication(k) == worker[k].pc = "publishing"

AfterPublication(k) == worker[k].pc = "releasing"

Stage(k) == /\ AfterPublication(k)
            /\ attempt[k].release = "none"
            /\ Corpus!Stage(k, attempt[k].source, worker[k].document)
            /\ attempt' = [attempt EXCEPT ![k].release = "running"]
            /\ UNCHANGED vars

\* Mutant: the error of the builder is swallowed.
Swallowed(k) == attempt

\* The error of the builder is that of the coordinator.
Caught(k) == IF coordinator'[k].pc = "idle"
             THEN [attempt EXCEPT ![k].release = "failed"] ELSE attempt

Build(k) == /\ Corpus!Build(k)
            /\ attempt' = Caught(k)
            /\ UNCHANGED vars

\* The answer of the API reaches the worker, or it is lost.
Activate(k) == /\ Corpus!Activate(k)
               /\ \E outcome \in {"activated", "failed"} :
                     attempt' = [attempt EXCEPT ![k].release = outcome]
               /\ UNCHANGED vars

\* The API refuses the candidate, or a call fails.
GiveUp(k) == /\ Corpus!Crash(k)
             /\ attempt' = [attempt EXCEPT ![k].release = "failed"]
             /\ UNCHANGED vars

ReleaseNext ==
    \/ /\ Command \/ Tick \/ \E k \in Workers : Restart(k)
       /\ UNCHANGED <<corpusVars, attempt>>
    \/ \E k \in Workers :
          \/ Take(k) \/ Carry(k) \/ Enrich(k) \/ Dies(k)
          \/ Stage(k) \/ Build(k) \/ Activate(k) \/ GiveUp(k)

ReleaseSpec == ReleaseInit /\ [][ReleaseNext]_allVars

-----------------------------------------------------------------------------
(* Properties.                                                             *)

\* A coordinator is busy exactly while its worker waits for its release, with
\* the source that was claimed and the document that was published.
AttemptsAgree ==
    /\ attempt \in [Workers -> Attempt]
    /\ \A k \in Workers :
          LET c == coordinator[k]
          IN  /\ c.pc # "idle" <=> attempt[k].release = "running"
              /\ c.pc # "idle" => /\ worker[k].pc = "releasing"
                                  /\ c.source = attempt[k].source
                                  /\ c.document = worker[k].document

\* Every member of a snapshot was published for its source under a lease,
\* although a worker goes on to stage, build and activate when its lease is
\* lost and its row has been recovered, settled and used for another source.
SnapshotsArePublished ==
    \A m \in snapshots, s \in Sources : m[s] \in documents[s] \cup {None}

\* The latest ready document of a source is a member of a snapshot of its
\* corpus: no source is called ready before its evidence was released, in
\* whichever order workers lose leases, conflict, fail and try again.
ReadyWasReleased ==
    \A s \in Sources : source[s].ready # None => \E m \in snapshots : m[s] = source[s].ready

-----------------------------------------------------------------------------
(* What the documents say and the code does not do.                        *)

\* "Guarantee that a successful ingestion exposes vector and graph retrieval
\* together" (release/coordinator.py:53): of a source that is ready, the
\* active snapshot holds the ready document.  A worker that lost its lease
\* before it staged replaces the document of the worker that took over, for
\* the release only asks whether the snapshot is current.
ReadyIsActive ==
    \A s \in Sources : source[s].status = "ready" => release.snapshot[s] = source[s].ready
=============================================================================
