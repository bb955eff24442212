------------------------ MODULE IngestionReleaseProofs ------------------------
(***************************************************************************)
(* Proofs about IngestionRelease for any sets of sources, rows, workers    *)
(* and documents, any lease duration and any number of moves.  The         *)
(* composition implements both of its parts, so their theorems hold of it; *)
(* its own invariants need what ties a claim to its coordinator.           *)
(***************************************************************************)
EXTENDS IngestionRelease, IngestionQueueProofs

CorpusProofs == INSTANCE SnapshotReleaseProofs WITH Coordinators <- Workers

\* The stages in which a process counts on its claim.
Working == {"stages", "publishing", "releasing", "completing"}

\* What a process knows of its claim: the source of its row, as long as it
\* holds the lease, and how far the document it published has come.
ClaimIsKnown(k) ==
    /\ worker[k].pc \in Working => attempt[k].source \in Sources
    /\ attempt[k].release # "none" => worker[k].pc \in {"releasing", "completing"}
    /\ worker[k].pc = "completing" => attempt[k].release = "activated"
    /\ \A w \in Works : worker[k].pc \in Working /\ UnderLease(k, w)
                           => work[w].source = attempt[k].source
    /\ worker[k].pc \in {"releasing", "completing"}
          => worker[k].document \in documents[attempt[k].source]
    /\ attempt[k].release = "activated"
          => \E m \in snapshots : m[attempt[k].source] = worker[k].document

\* A busy coordinator works on the claim of its worker, and its candidate
\* holds the document.
CoordinatorServes(k) ==
    /\ coordinator[k].pc = "idle" => coordinator[k] = Corpus!Idle
    /\ coordinator[k].pc # "idle" <=> attempt[k].release = "running"
    /\ coordinator[k].pc # "idle" =>
          /\ worker[k].pc = "releasing"
          /\ coordinator[k].source = attempt[k].source
          /\ coordinator[k].document = worker[k].document
          /\ coordinator[k].snapshot[attempt[k].source] = worker[k].document

ClaimsInv == /\ attempt \in [Workers -> Attempt]
             /\ \A k \in Workers : ClaimIsKnown(k) /\ CoordinatorServes(k)

\* The inductive invariant.
RInv == /\ IInv
        /\ CorpusProofs!IInv
        /\ ClaimsInv
        /\ SnapshotsArePublished
        /\ ReadyWasReleased

USE DEF Stages, Lifecycle!SourceRow, Lifecycle!SourceStatus, Lifecycle!Failures,
        WorkRow, WorkerState, Pending, Leased, Active

-----------------------------------------------------------------------------
(* The two parts.                                                          *)

\* Every step is one of the queue, or none.
LEMMA QueueSteps == [ReleaseNext]_allVars => [Next]_vars
<1> SUFFICES ASSUME ReleaseNext PROVE [Next]_vars
  BY DEF allVars, vars
<1>1. CASE Command \/ Tick \/ \E k \in Workers : Restart(k)
  BY <1>1 DEF Next
<1>2. ASSUME NEW k \in Workers, Take(k) \/ Carry(k) \/ Enrich(k) \/ Dies(k) PROVE [Next]_vars
  BY <1>2 DEF Take, Carry, Enrich, Dies, Next, Proceed
<1>3. ASSUME NEW k \in Workers, Stage(k) \/ Build(k) \/ Activate(k) \/ GiveUp(k)
      PROVE  [Next]_vars
  BY <1>3 DEF Stage, Build, Activate, GiveUp
<1> QED
  BY <1>1, <1>2, <1>3 DEF ReleaseNext

\* The two instances of SnapshotRelease are one.
LEMMA OneCorpus == /\ Corpus!Init <=> CorpusProofs!Init
                   /\ [Corpus!Next]_corpusVars <=> [CorpusProofs!Next]_(CorpusProofs!vars)
<1>a. /\ Corpus!Idle = CorpusProofs!Idle /\ Corpus!Snapshots = CorpusProofs!Snapshots
      /\ Corpus!Manifests = CorpusProofs!Manifests
      /\ Corpus!GraphReleases = CorpusProofs!GraphReleases
  BY DEF Corpus!Idle, CorpusProofs!Idle, Corpus!NoSnapshot, CorpusProofs!NoSnapshot,
     Corpus!Snapshots, CorpusProofs!Snapshots, Corpus!Manifests, CorpusProofs!Manifests,
     Corpus!GraphReleases, CorpusProofs!GraphReleases
<1>1. Corpus!Init <=> CorpusProofs!Init
  BY <1>a DEF Corpus!Init, CorpusProofs!Init, Corpus!NoRelease, CorpusProofs!NoRelease,
     Corpus!NoSnapshot, CorpusProofs!NoSnapshot
<1>r. \A m : Corpus!GraphReady(m) <=> CorpusProofs!GraphReady(m)
  BY <1>a DEF Corpus!GraphReady, CorpusProofs!GraphReady
<1>2. \A s, d : Corpus!Publish(s, d) <=> CorpusProofs!Publish(s, d)
  BY DEF Corpus!Publish, CorpusProofs!Publish, Corpus!replaceMember, CorpusProofs!replaceMember,
     Corpus!Inserted, CorpusProofs!Inserted, Corpus!Move, CorpusProofs!Move,
     Corpus!NextVersion, CorpusProofs!NextVersion
<1>3. \A m : Corpus!Initialize(m) <=> CorpusProofs!Initialize(m)
  BY DEF Corpus!Initialize, CorpusProofs!Initialize, Corpus!NoSnapshot, CorpusProofs!NoSnapshot,
     Corpus!Inserted, CorpusProofs!Inserted, Corpus!Move, CorpusProofs!Move,
     Corpus!NextVersion, CorpusProofs!NextVersion
<1>4. \A m : Corpus!Choose(m) <=> CorpusProofs!Choose(m)
  BY <1>r DEF Corpus!Choose, CorpusProofs!Choose,
     Corpus!Move, CorpusProofs!Move, Corpus!NextVersion, CorpusProofs!NextVersion
<1>5. \A c, s, d : Corpus!Stage(c, s, d) <=> CorpusProofs!Stage(c, s, d)
  BY DEF Corpus!Stage, CorpusProofs!Stage, Corpus!replaceMember, CorpusProofs!replaceMember,
     Corpus!Inserted, CorpusProofs!Inserted
<1>6. \A c : Corpus!Activate(c) <=> CorpusProofs!Activate(c)
  BY <1>a, <1>r DEF Corpus!Activate, CorpusProofs!Activate,
     Corpus!CurrentVersion, CorpusProofs!CurrentVersion, Corpus!Activated, CorpusProofs!Activated,
     Corpus!Move, CorpusProofs!Move, Corpus!NextVersion, CorpusProofs!NextVersion
<1>7. \A c : Corpus!Crash(c) <=> CorpusProofs!Crash(c)
  BY <1>a DEF Corpus!Crash, CorpusProofs!Crash
<1>9. \A e, s, d : Corpus!Republish(e, s, d) <=> CorpusProofs!Republish(e, s, d)
  BY DEF Corpus!Republish, CorpusProofs!Republish
<1>8. \A c : Corpus!Build(c) <=> CorpusProofs!Build(c)
  <2> TAKE c
  <2>1. /\ \A from, to : Corpus!Advance(c, from, to) <=> CorpusProofs!Advance(c, from, to)
        /\ \A from : Corpus!Built(c, from) <=> CorpusProofs!Built(c, from)
    BY DEF Corpus!Advance, CorpusProofs!Advance, Corpus!Built, CorpusProofs!Built
  <2>2. Corpus!GraphRelease(c) = CorpusProofs!GraphRelease(c)
    BY DEF Corpus!GraphRelease, CorpusProofs!GraphRelease
  <2>3. \A status : Corpus!SetGraph(c, status) <=> CorpusProofs!SetGraph(c, status)
    BY <2>2 DEF Corpus!SetGraph, CorpusProofs!SetGraph
  <2>4. Corpus!Load(c) <=> CorpusProofs!Load(c)
    BY DEF Corpus!Load, CorpusProofs!Load, Corpus!GraphManifest, CorpusProofs!GraphManifest
  <2>5. /\ Corpus!Reuse(c) <=> CorpusProofs!Reuse(c)
        /\ Corpus!Miss(c) <=> CorpusProofs!Miss(c)
    BY <2>1, <2>2 DEF Corpus!Reuse, CorpusProofs!Reuse, Corpus!Miss, CorpusProofs!Miss
  <2>6. /\ Corpus!RecordBuilding(c) <=> CorpusProofs!RecordBuilding(c)
        /\ Corpus!RecordReady(c) <=> CorpusProofs!RecordReady(c)
        /\ Corpus!RecordFailed(c) <=> CorpusProofs!RecordFailed(c)
    BY <1>a, <2>1, <2>2, <2>3 DEF Corpus!RecordBuilding, CorpusProofs!RecordBuilding,
       Corpus!RecordReady, CorpusProofs!RecordReady, Corpus!RecordFailed, CorpusProofs!RecordFailed
  <2>7. /\ Corpus!BeginReplace(c) <=> CorpusProofs!BeginReplace(c)
        /\ Corpus!ReplaceRelease(c) <=> CorpusProofs!ReplaceRelease(c)
    BY <1>a, <2>2 DEF Corpus!BeginReplace, CorpusProofs!BeginReplace, Corpus!ReplaceRelease,
       CorpusProofs!ReplaceRelease, Corpus!Projected, CorpusProofs!Projected,
       Corpus!Superseded, CorpusProofs!Superseded
  <2> QED
    BY <2>4, <2>5, <2>6, <2>7 DEF Corpus!Build, CorpusProofs!Build
<1>10. Corpus!Next <=> CorpusProofs!Next
  BY <1>2, <1>3, <1>4, <1>5, <1>6, <1>7, <1>8, <1>9, <1>a DEF Corpus!Next, CorpusProofs!Next,
     Corpus!Ingest, CorpusProofs!Ingest, Corpus!Curate, CorpusProofs!Curate
<1> QED
  BY <1>1, <1>10 DEF corpusVars, CorpusProofs!vars

\* Every step is one of the release, or none: a coordinator stages for the
\* source its worker claimed and the document it published.
LEMMA CorpusSteps == ASSUME RInv, [ReleaseNext]_allVars PROVE [Corpus!Next]_corpusVars
<1>1. CASE UNCHANGED corpusVars
  BY <1>1
<1>2. ASSUME NEW k \in Workers, Take(k) \/ Carry(k) PROVE UNCHANGED corpusVars
  BY <1>2 DEF Take, Carry
<1>3. ASSUME NEW k \in Workers, Dies(k) PROVE [Corpus!Next]_corpusVars
  <2>1. /\ coordinator' = [coordinator EXCEPT ![k] = Corpus!Idle]
        /\ UNCHANGED <<artifacts, snapshots, release, graph, projected>>
    BY <1>3 DEF Dies
  <2>2. CASE coordinator[k].pc = "idle"
    <3>1. coordinator[k] = Corpus!Idle
      BY <2>2 DEF RInv, ClaimsInv, CoordinatorServes
    <3>2. coordinator \in [Workers -> CorpusProofs!CoordinatorState]
      BY DEF RInv, CorpusProofs!IInv, CorpusProofs!TypeOK
    <3>3. coordinator' = coordinator
      BY <2>1, <3>1, <3>2
    <3> QED
      BY <2>1, <3>3 DEF corpusVars
  <2>3. CASE coordinator[k].pc # "idle"
    <3>1. Corpus!Crash(k)
      BY <2>1, <2>3 DEF Corpus!Crash
    <3> QED
      BY <3>1 DEF Corpus!Next, Corpus!Ingest
  <2> QED
    BY <2>2, <2>3
<1>4. ASSUME NEW k \in Workers, Stage(k) PROVE Corpus!Next
  <2>1. worker[k].pc = "releasing" /\ Corpus!Stage(k, attempt[k].source, worker[k].document)
    BY <1>4 DEF Stage, AfterPublication
  <2>2. attempt[k].source \in Sources
    BY <2>1 DEF RInv, ClaimsInv, ClaimIsKnown, Working
  <2>3. worker[k].document \in Documents
    BY <2>1 DEF RInv, IInv, CarriesPublished
  <2> QED
    BY <2>1, <2>2, <2>3 DEF Corpus!Next, Corpus!Ingest
<1>5. ASSUME NEW k \in Workers, Build(k) \/ Activate(k) \/ GiveUp(k) PROVE Corpus!Next
  BY <1>5 DEF Build, Activate, GiveUp, Corpus!Next, Corpus!Ingest
<1>6. CASE UNCHANGED allVars
  BY <1>6 DEF allVars
<1>7. ASSUME NEW k \in Workers, Enrich(k) PROVE Corpus!Next
  <2>1. /\ worker[k].pc = "publishing" /\ worker[k].document \in documents[attempt[k].source]
        /\ \E e \in Extractions : Corpus!Republish(e, attempt[k].source, worker[k].document)
    BY <1>7 DEF Enrich, Publish
  <2>2. attempt[k].source \in Sources
    BY <2>1 DEF RInv, ClaimsInv, ClaimIsKnown, Working
  <2>3. worker[k].document \in Documents
    BY <2>1, <2>2 DEF RInv, IInv, TypeOK
  <2> QED
    BY <2>1, <2>2, <2>3 DEF Corpus!Next, Corpus!Ingest
<1> QED
  BY <1>1, <1>2, <1>3, <1>4, <1>5, <1>6, <1>7 DEF ReleaseNext

\* The invariants of the two parts are kept.
LEMMA PartsStand ==
    ASSUME RInv, [ReleaseNext]_allVars
    PROVE  IInv' /\ CorpusProofs!IInv'
<1>1. IInv'
  BY QueueSteps, NextPreserves DEF RInv
<1>2. MaxVersion \in Nat /\ None \notin Sources \cup Documents
  BY BoundAssumption, NoneAssumption
<1>3. [CorpusProofs!Next]_(CorpusProofs!vars)
  BY CorpusSteps, OneCorpus
<1>4. CorpusProofs!IInv'
  BY <1>2, <1>3, CorpusProofs!StepIInv DEF RInv
<1> QED
  BY <1>1, <1>4

-----------------------------------------------------------------------------
(* What a step of the queue means to a claim.                              *)

\* A lease that j holds after a step that keeps its row is one it held.
LEMMA LeasesLast ==
    ASSUME IInv, [Next]_vars, NEW j \in Workers, NEW w \in Works,
           worker[j].pc \in Stages, worker'[j].work = worker[j].work,
           UnderLease(j, w)'
    PROVE  UnderLease(j, w) /\ work'[w].source = work[w].source
<1> USE DEF UnderLease
<1>1. w = worker[j].work /\ work'[w].status = "leased" /\ work'[w].holder = j
  OBVIOUS
<1>2. SUFFICES /\ work[w].status = "leased" /\ work[w].holder = j
               /\ work'[w].source = work[w].source
  BY <1>1
<1>3. CASE work' = work
  BY <1>1, <1>3
<1>4. CASE Command
  <2>1. PICK s \in Sources, v \in Works : Enqueue(s, v)
    BY <1>4 DEF Command, CreateSource, Retry, Reprocess, QueueLifecycle
  <2>2. work' = [work EXCEPT ![v] = PendingWork(s)]
    BY <2>1 DEF Enqueue
  <2> QED
    BY <1>1, <2>2 DEF PendingWork, IInv, TypeOK
<1>5. CASE Tick
  BY <1>1, <1>5 DEF Tick, IInv, TypeOK
<1>6. ASSUME NEW k \in Workers, Claim(k)
      PROVE  /\ work[w].status = "leased" /\ work[w].holder = j
             /\ work'[w].source = work[w].source
  <2>1. j # k
    BY <1>6 DEF Claim
  <2>2. PICK v \in Works : work' = [RecoveredWork EXCEPT ![v] = LeasedWork(work[v].source, k)]
    BY <1>6 DEF Claim
  <2>3. w # v
    BY <1>1, <2>1, <2>2, RecoveryFacts DEF LeasedWork
  <2>4. work'[w] = RecoveredWork[w]
    BY <2>2, <2>3, RecoveryFacts
  <2>5. w \notin Expired
    <3>1. \A x : PendingWork(x).status # "leased"
      BY DEF PendingWork
    <3> QED
      BY <1>1, <2>4, <3>1, RecoveryFacts
  <2> QED
    BY <1>1, <2>4, <2>5, RecoveryFacts
<1>7. ASSUME NEW k \in Workers, Proceed(k), work' # work
      PROVE  /\ work[w].status = "leased" /\ work[w].holder = j
             /\ work'[w].source = work[w].source
  <2>1. PICK v : work' = [work EXCEPT ![v] = FreeWork]
    BY <1>7 DEF Proceed, FinishStages, Publish, Release, StageError, LeaseUnavailable,
                Complete, Fail, Settle, Abandon, Reach, rows
  <2> QED
    BY <1>1, <2>1 DEF FreeWork, IInv, TypeOK
<1> QED
  BY <1>3, <1>4, <1>5, <1>6, <1>7 DEF Next, vars, Crash, Restart, rows

\* Document versions are never deleted.
LEMMA DocumentsLast ==
    ASSUME IInv, [Next]_vars, NEW s \in Sources
    PROVE  documents[s] \subseteq documents'[s]
<1>1. ASSUME NEW k \in Workers, Publish(k) PROVE documents[s] \subseteq documents'[s]
  BY <1>1 DEF Publish, PublishedDocuments, IInv, TypeOK
<1>2. ASSUME ~ \E k \in Workers : Publish(k) PROVE documents' = documents
  BY <1>2 DEF Next, vars, Command, CreateSource, Retry, Reprocess, QueueLifecycle, Enqueue,
     Tick, Claim, Crash, Restart, rows, Proceed, FinishStages, Release, StageError,
     LeaseUnavailable, Complete, Fail, Settle, Abandon, Reach
<1> QED
  BY <1>1, <1>2

\* A source gets another ready document, or is ready again, from the holder of
\* its lease.
LEMMA ReadyIsCompleted ==
    ASSUME IInv, [Next]_vars, NEW s \in Sources,
           \/ source'[s].ready # source[s].ready /\ source'[s].ready # None
           \/ source'[s] # source[s] /\ source'[s].status = "ready"
    PROVE  \E k \in Workers, w \in Works :
              /\ worker[k].pc = "completing" /\ UnderLease(k, w)
              /\ work[w].source = s /\ source'[s].ready = worker[k].document
<1>0. source[s] \in Lifecycle!SourceRow
  BY DEF IInv, TypeOK
<1>1. ASSUME Command PROVE FALSE
  <2> DEFINE row == [source[s] EXCEPT !.status = "pending", !.failure = "none"]
  <2>1. row.ready = source[s].ready /\ row.status = "pending"
    BY <1>0
  <2>2. Lifecycle!CreatedSource.ready = None /\ Lifecycle!CreatedSource.status = "pending"
    BY DEF Lifecycle!CreatedSource
  <2> HIDE DEF row
  <2>3. source'[s] = source[s] \/ source'[s] = Lifecycle!CreatedSource \/ source'[s] = row
    BY <1>1, CommandSources DEF row
  <2> QED
    BY <2>1, <2>2, <2>3
<1>2. ASSUME NEW k \in Workers, Claim(k) PROVE FALSE
  BY <1>0, <1>2, ClaimSources
<1>3. PICK k \in Workers : Proceed(k)
  BY <1>1, <1>2 DEF Next, vars, Tick, Crash, Restart, rows
<1>4. PICK w \in Works : /\ UnderLease(k, w) /\ work[w].source = s
                         /\ worker[k].pc = "completing"
  BY <1>3, ProceedSources
<1>5. Complete(k)
  BY <1>3, <1>4 DEF Proceed, FinishStages, Publish, Release, StageError, LeaseUnavailable,
     Fail, Abandon, Reach, rows
<1>6. source' = [source EXCEPT ![s] = [status |-> "ready", failure |-> "none",
                                       ready |-> worker[k].document]]
  BY <1>4, <1>5 DEF Complete, Settle, UnderLease
<1> QED
  BY <1>4, <1>6 DEF IInv, TypeOK

-----------------------------------------------------------------------------
(* Claims and coordinators.                                                *)

\* A builder changes neither snapshots nor the release, and its coordinator
\* goes on with its candidate or gives up.
LEMMA BuilderMoves ==
    ASSUME NEW k, Corpus!Build(k)
    PROVE  /\ coordinator[k].pc # "idle"
           /\ UNCHANGED <<snapshots, release>>
           /\ \E c : coordinator' = [coordinator EXCEPT ![k] = c]
BY DEF Corpus!Build, Corpus!Load, Corpus!Reuse, Corpus!Miss, Corpus!RecordBuilding,
   Corpus!BeginReplace, Corpus!ReplaceRelease, Corpus!RecordReady, Corpus!RecordFailed,
   Corpus!Advance, Corpus!Built

\* Snapshots are never deleted.
LEMMA SnapshotsLast == ASSUME [ReleaseNext]_allVars PROVE snapshots \subseteq snapshots'
BY BuilderMoves DEF ReleaseNext, allVars, corpusVars, Take, Carry, Enrich, Dies, Stage, Build,
   Activate, GiveUp, Corpus!Stage, Corpus!Inserted, Corpus!Activate, Corpus!Crash,
   Corpus!Republish

\* The steps of one process.
Moves(k) == \/ Take(k) \/ Carry(k) \/ Enrich(k) \/ Dies(k)
            \/ Stage(k) \/ Build(k) \/ Activate(k) \/ GiveUp(k)

LEMMA OthersStay ==
    ASSUME RInv, NEW k \in Workers, Moves(k), NEW j \in Workers, j # k
    PROVE  /\ worker'[j] = worker[j]
           /\ attempt'[j] = attempt[j]
           /\ coordinator'[j] = coordinator[j]
<1>1. /\ attempt \in [Workers -> Attempt]
      /\ coordinator \in [Workers -> CorpusProofs!CoordinatorState]
      /\ worker \in [Workers -> WorkerState]
  BY DEF RInv, IInv, TypeOK, ClaimsInv, CorpusProofs!IInv, CorpusProofs!TypeOK
<1>2. worker'[j] = worker[j]
  <2>1. CASE Take(k)
    BY <1>1, <2>1 DEF Take, Claim
  <2>2. CASE Carry(k) \/ Enrich(k)
    BY <1>1, <2>2 DEF Carry, Enrich, FinishStages, Publish, Release, StageError, LeaseUnavailable,
       Complete, Fail, Settle, Abandon, Reach
  <2>3. CASE Dies(k)
    BY <1>1, <2>3 DEF Dies, Crash
  <2> QED
    BY <2>1, <2>2, <2>3 DEF Moves, Stage, Build, Activate, GiveUp, vars
<1>3. attempt'[j] = attempt[j]
  BY <1>1 DEF Moves, Take, Carry, Enrich, Dies, Stage, Build, Caught, Activate, GiveUp
<1>4. coordinator'[j] = coordinator[j]
  <2>1. CASE Build(k)
    BY <1>1, <2>1, BuilderMoves DEF Build
  <2>2. CASE Take(k) \/ Carry(k) \/ Enrich(k) \/ Dies(k)
    BY <1>1, <2>2 DEF Take, Carry, Enrich, Dies, corpusVars, Corpus!Republish
  <2>3. CASE Stage(k) \/ Activate(k) \/ GiveUp(k)
    BY <1>1, <2>3 DEF Stage, Activate, GiveUp, Corpus!Stage, Corpus!Activate, Corpus!Crash
  <2> QED
    BY <2>1, <2>2, <2>3 DEF Moves
<1> QED
  BY <1>2, <1>3, <1>4

\* A claim that no step touches stays known.
LEMMA ClaimLasts ==
    ASSUME RInv, [ReleaseNext]_allVars, NEW j \in Workers,
           worker'[j] = worker[j], attempt'[j] = attempt[j], coordinator'[j] = coordinator[j]
    PROVE  ClaimIsKnown(j)' /\ CoordinatorServes(j)'
<1> USE DEF ClaimIsKnown, Working
<1>1. ClaimIsKnown(j) /\ CoordinatorServes(j) /\ IInv
  BY DEF RInv, ClaimsInv
<1>2. CoordinatorServes(j)'
  BY <1>1 DEF CoordinatorServes
<1>3. ASSUME NEW w \in Works, worker'[j].pc \in Working, UnderLease(j, w)'
      PROVE  work'[w].source = attempt'[j].source
  BY <1>1, <1>3, QueueSteps, LeasesLast
<1>4. worker'[j].pc \in {"releasing", "completing"}
        => worker'[j].document \in documents'[attempt'[j].source]
  BY <1>1, QueueSteps, DocumentsLast
<1>5. attempt'[j].release = "activated"
        => \E m \in snapshots' : m[attempt'[j].source] = worker'[j].document
  BY <1>1, SnapshotsLast
<1> QED
  BY <1>1, <1>2, <1>3, <1>4, <1>5

\* A process whose coordinator is idle starts anew.
LEMMA ClaimForgotten ==
    ASSUME NEW k \in Workers, attempt'[k] = NoAttempt,
           worker'[k].pc \in {"idle", "down", "failing"},
           coordinator'[k] = Corpus!Idle
    PROVE  ClaimIsKnown(k)' /\ CoordinatorServes(k)'
BY DEF ClaimIsKnown, CoordinatorServes, Working, NoAttempt, Corpus!Idle

LEMMA TakeServes ==
    ASSUME RInv, [ReleaseNext]_allVars, NEW k \in Workers, Take(k)
    PROVE  ClaimIsKnown(k)' /\ CoordinatorServes(k)' /\ attempt'[k] \in Attempt
<1>1. PICK w \in Works :
        /\ work' = [RecoveredWork EXCEPT ![w] = LeasedWork(work[w].source, k)]
        /\ worker' = [worker EXCEPT ![k] = Claimed(w)]
  BY DEF Take, Claim
<1>2. worker'[k].pc = "stages" /\ worker'[k].work = w /\ worker[k].pc = "idle"
  BY <1>1 DEF RInv, IInv, TypeOK, Claimed, Take, Claim
<1>3. work'[w].status = "leased"
  BY <1>1, RecoveryFacts DEF RInv, LeasedWork
<1>4. work'[w].source \in Sources
  BY <1>3, PartsStand DEF IInv, TypeOK
<1>5. attempt'[k] = [source |-> work'[w].source, release |-> "none"]
  BY <1>2 DEF Take, RInv, ClaimsInv
<1>6. coordinator'[k] = coordinator[k] /\ coordinator[k] = Corpus!Idle
  <2>1. coordinator[k].pc = "idle"
    BY <1>2 DEF RInv, ClaimsInv, CoordinatorServes
  <2> QED
    BY <2>1 DEF RInv, ClaimsInv, CoordinatorServes, Take, corpusVars
<1>7. ClaimIsKnown(k)'
  BY <1>2, <1>4, <1>5 DEF ClaimIsKnown, UnderLease
<1>8. CoordinatorServes(k)'
  BY <1>5, <1>6 DEF CoordinatorServes, Corpus!Idle
<1> QED
  BY <1>4, <1>5, <1>7, <1>8 DEF Attempt

LEMMA CarryServes ==
    ASSUME RInv, [ReleaseNext]_allVars, NEW k \in Workers, Carry(k) \/ Enrich(k)
    PROVE  ClaimIsKnown(k)' /\ CoordinatorServes(k)' /\ attempt'[k] \in Attempt
<1>1. ClaimIsKnown(k) /\ CoordinatorServes(k) /\ attempt[k] \in Attempt
      /\ worker \in [Workers -> WorkerState] /\ documents \in [Sources -> SUBSET Documents]
  BY DEF RInv, ClaimsInv, IInv, TypeOK
<1>2. coordinator' = coordinator /\ snapshots' = snapshots
  BY DEF Carry, Enrich, corpusVars, Corpus!Republish
<1>0. Enrich(k) => Publish(k) /\ worker'[k].pc = "releasing" /\ attempt' = attempt
  BY <1>1 DEF Enrich, Publish
<1>3. CASE worker'[k].pc \in {"idle", "failing"}
  <2>1. attempt'[k] = NoAttempt
    BY <1>0, <1>3 DEF Carry, RInv, ClaimsInv
  <2>2. coordinator[k].pc = "idle"
    BY <1>0, <1>1, <1>3 DEF Carry, ClaimIsKnown, CoordinatorServes, Raised, FinishStages, Publish,
       Release, Reach, LeaseUnavailable, Complete, Fail, Abandon, StageError
  <2>3. coordinator'[k] = Corpus!Idle
    BY <1>1, <1>2, <2>2 DEF CoordinatorServes
  <2> QED
    BY <1>3, <2>1, <2>3, ClaimForgotten DEF NoAttempt, Attempt
<1>4. CASE worker'[k].pc \notin {"idle", "failing"}
  <2>1. attempt' = attempt
    BY <1>0, <1>4 DEF Carry
  <2>2. FinishStages(k) \/ Publish(k) \/ (Release(k) /\ Succeeded(k))
    <3>1. LeaseUnavailable(k) \/ StageError(k) => worker'[k].pc = "failing"
      BY <1>1 DEF LeaseUnavailable, StageError, Reach
    <3>2. Complete(k) \/ Fail(k) \/ Abandon(k) => worker'[k].pc = "idle"
      BY <1>1 DEF Complete, Fail, Settle, Abandon, NoClaim
    <3> QED
      BY <1>0, <1>4, <3>1, <3>2 DEF Carry
  <2>7. /\ worker'[k].work = worker[k].work
         /\ worker[k].pc \in Working \ {"completing"}
         /\ worker'[k].pc \in Working
    <3>1. CASE FinishStages(k)
      BY <1>1, <3>1 DEF Working, FinishStages, Reach
    <3>2. CASE Publish(k)
      BY <1>1, <3>2 DEF Working, Publish
    <3>3. CASE Release(k)
      BY <1>1, <3>3 DEF Working, Release, Reach
    <3> QED
      BY <2>2, <3>1, <3>2, <3>3
  <2>3. ASSUME NEW w \in Works, UnderLease(k, w)' PROVE work'[w].source = attempt'[k].source
    <3>1. UnderLease(k, w) /\ work'[w].source = work[w].source
      BY <2>7, <2>3, QueueSteps, LeasesLast DEF RInv, Working
    <3> QED
      BY <1>1, <2>1, <2>7, <3>1 DEF ClaimIsKnown
  <2>4. CASE FinishStages(k)
    <3>1. worker[k].pc = "stages" /\ worker'[k].pc = "publishing"
      BY <1>1, <2>4 DEF FinishStages, Reach
    <3>2. attempt[k].release = "none" /\ coordinator[k].pc = "idle"
      BY <1>1, <3>1 DEF ClaimIsKnown, CoordinatorServes
    <3> QED
      BY <1>1, <1>2, <2>1, <2>7, <2>3, <3>1, <3>2 DEF ClaimIsKnown, CoordinatorServes
  <2>5. CASE Publish(k)
    <3>1. /\ worker[k].pc = "publishing" /\ worker'[k].pc = "releasing"
          /\ worker'[k].document = worker[k].document
          /\ UnderLease(k, worker[k].work) /\ worker[k].work \in Works
      BY <1>1, <2>5 DEF Publish, HoldsLease, UnderLease, RInv, IInv, TypeOK
    <3>2. work[worker[k].work].source = attempt[k].source /\ attempt[k].source \in Sources
      BY <1>1, <2>7, <3>1 DEF ClaimIsKnown
    <3>3. worker[k].document \in documents'[attempt[k].source]
      BY <1>1, <2>5, <3>2 DEF Publish, PublishedDocuments
    <3>4. attempt[k].release = "none" /\ coordinator[k].pc = "idle"
      BY <1>1, <3>1 DEF ClaimIsKnown, CoordinatorServes
    <3> QED
      BY <1>1, <1>2, <2>1, <2>3, <3>1, <3>2, <3>3, <3>4 DEF ClaimIsKnown, CoordinatorServes
  <2>6. CASE Release(k) /\ Succeeded(k)
    <3>1. /\ worker[k].pc = "releasing" /\ worker'[k].pc = "completing"
          /\ worker'[k].document = worker[k].document /\ documents' = documents
      BY <1>1, <2>6 DEF Release, Reach, rows
    <3>2. attempt[k].release = "activated"
      BY <2>6 DEF Succeeded
    <3>3. coordinator[k].pc = "idle"
      BY <1>1, <3>2 DEF CoordinatorServes
    <3> QED
      BY <1>1, <1>2, <2>1, <2>7, <2>3, <3>1, <3>2, <3>3 DEF ClaimIsKnown, CoordinatorServes
  <2> QED
    BY <1>1, <2>1, <2>2, <2>4, <2>5, <2>6
<1> QED
  BY <1>3, <1>4

LEMMA DiesServes ==
    ASSUME RInv, NEW k \in Workers, Dies(k)
    PROVE  ClaimIsKnown(k)' /\ CoordinatorServes(k)' /\ attempt'[k] \in Attempt
<1>1. attempt'[k] = NoAttempt /\ coordinator'[k] = Corpus!Idle
  BY DEF Dies, RInv, ClaimsInv, CorpusProofs!IInv, CorpusProofs!TypeOK
<1>2. worker'[k].pc = "down"
  BY DEF Dies, Crash, NoClaim, RInv, IInv, TypeOK
<1> QED
  BY <1>1, <1>2, ClaimForgotten DEF NoAttempt, Attempt

\* The steps of a coordinator leave the queue alone: the claim is known as
\* long as its release goes on.
LEMMA ReleaseServes ==
    ASSUME RInv, NEW k \in Workers, NEW r \in {"running", "activated", "failed"},
           UNCHANGED vars, attempt' = [attempt EXCEPT ![k].release = r],
           snapshots \subseteq snapshots',
           worker[k].pc = "releasing",
           r = "running" <=> coordinator'[k].pc # "idle",
           coordinator'[k].pc = "idle" => coordinator'[k] = Corpus!Idle,
           r = "activated"
              => \E m \in snapshots' : m[attempt[k].source] = worker[k].document,
           r = "running" => /\ coordinator'[k].source = attempt[k].source
                            /\ coordinator'[k].document = worker[k].document
                            /\ coordinator'[k].snapshot[attempt[k].source] = worker[k].document
    PROVE  ClaimIsKnown(k)' /\ CoordinatorServes(k)' /\ attempt'[k] \in Attempt
<1>1. ClaimIsKnown(k) /\ attempt[k] \in Attempt
  BY DEF RInv, ClaimsInv
<1>2. /\ attempt'[k].release = r /\ attempt'[k].source = attempt[k].source
      /\ attempt'[k] \in Attempt
  BY <1>1 DEF Attempt, RInv, ClaimsInv
<1>3. ClaimIsKnown(k)'
  BY <1>1, <1>2 DEF ClaimIsKnown, UnderLease, vars
<1>4. CoordinatorServes(k)'
  BY <1>2 DEF CoordinatorServes, vars
<1> QED
  BY <1>2, <1>3, <1>4

LEMMA StageServes ==
    ASSUME RInv, [ReleaseNext]_allVars, NEW k \in Workers, Stage(k)
    PROVE  ClaimIsKnown(k)' /\ CoordinatorServes(k)' /\ attempt'[k] \in Attempt
<1> DEFINE s == attempt[k].source
           d == worker[k].document
           m == Corpus!replaceMember(release.snapshot, s, d)
<1>1. /\ worker[k].pc = "releasing" /\ UNCHANGED vars
      /\ attempt' = [attempt EXCEPT ![k].release = "running"]
      /\ Corpus!Stage(k, s, d)
  BY DEF Stage, AfterPublication
<1>2. s \in Sources
  BY <1>1 DEF RInv, ClaimsInv, ClaimIsKnown, Working
<1>3. release.snapshot \in Corpus!Snapshots
  BY DEF RInv, CorpusProofs!IInv, CorpusProofs!TypeOK, CorpusProofs!ReleaseRow,
     CorpusProofs!Snapshots, Corpus!Snapshots
<1>4. d \in Documents
  BY <1>1 DEF RInv, IInv, CarriesPublished
<1>5. m \in Corpus!Snapshots /\ m[s] = d
  BY <1>2, <1>3, <1>4 DEF Corpus!replaceMember, Corpus!Snapshots
<1>6. coordinator'[k] = [pc |-> "staged", source |-> s, document |-> d, snapshot |-> m,
                         expected |-> release.version, manifest |-> {}, superseded |-> {}]
  BY <1>1 DEF Corpus!Stage, RInv, CorpusProofs!IInv, CorpusProofs!TypeOK
<1>7. /\ coordinator'[k].pc = "staged" /\ coordinator'[k].source = s
      /\ coordinator'[k].document = d /\ coordinator'[k].snapshot = m
  BY <1>6
<1> HIDE DEF m
<1> QED
  BY <1>1, <1>5, <1>7, SnapshotsLast, ReleaseServes

LEMMA BuildServes ==
    ASSUME RInv, [ReleaseNext]_allVars, NEW k \in Workers, Build(k)
    PROVE  ClaimIsKnown(k)' /\ CoordinatorServes(k)' /\ attempt'[k] \in Attempt
<1> DEFINE c == coordinator[k]
<1>1. /\ CoordinatorServes(k)
      /\ coordinator \in [Workers -> CorpusProofs!CoordinatorState]
      /\ attempt \in [Workers -> Attempt]
  BY DEF RInv, ClaimsInv, CorpusProofs!IInv, CorpusProofs!TypeOK
<1>2. UNCHANGED vars /\ Corpus!Build(k) /\ attempt' = Caught(k)
  BY DEF Build
<1>3. /\ c.pc # "idle"
      /\ \/ /\ coordinator'[k].pc # "idle"
            /\ coordinator'[k].source = c.source /\ coordinator'[k].document = c.document
            /\ coordinator'[k].snapshot = c.snapshot
         \/ coordinator'[k] = Corpus!Idle
  <2>1. c \in CorpusProofs!CoordinatorState
    BY <1>1
  <2>2. Corpus!RecordFailed(k) => coordinator'[k] = Corpus!Idle
    BY <1>1 DEF Corpus!RecordFailed
  <2>3. CASE ~ Corpus!RecordFailed(k)
    <3>1. \/ \E to \in {"missing", "building"} : coordinator'[k] = [c EXCEPT !.pc = to]
          \/ \E g : coordinator'[k] = [c EXCEPT !.pc = "loaded", !.manifest = g]
          \/ coordinator'[k] = [c EXCEPT !.pc = "built", !.manifest = {}]
          \/ \E g : coordinator'[k] = [c EXCEPT !.pc = "replacing", !.superseded = g]
          \/ coordinator'[k] = [c EXCEPT !.pc = "projected", !.superseded = {}]
      BY <1>1, <1>2, <2>3 DEF Corpus!Build, Corpus!Load, Corpus!Reuse, Corpus!Miss,
         Corpus!RecordBuilding, Corpus!BeginReplace, Corpus!ReplaceRelease,
         Corpus!RecordReady, Corpus!Advance, Corpus!Built
    <3> QED
      BY <1>2, <2>1, <3>1, BuilderMoves DEF CorpusProofs!CoordinatorState
  <2> QED
    BY <1>2, <2>2, <2>3, BuilderMoves
<1>4. /\ worker[k].pc = "releasing" /\ attempt[k].release = "running"
      /\ c.source = attempt[k].source /\ c.document = worker[k].document
      /\ c.snapshot[attempt[k].source] = worker[k].document
  BY <1>1, <1>3 DEF CoordinatorServes
<1>5. CASE coordinator'[k].pc = "idle"
  <2>1. coordinator'[k] = Corpus!Idle
    BY <1>1, <1>3, <1>5 DEF CorpusProofs!CoordinatorState
  <2>2. attempt' = [attempt EXCEPT ![k].release = "failed"]
    BY <1>2, <1>5 DEF Caught
  <2> QED
    BY <1>2, <1>4, <1>5, <2>1, <2>2, SnapshotsLast, ReleaseServes
<1>6. CASE coordinator'[k].pc # "idle"
  <2>2. /\ coordinator'[k].source = c.source /\ coordinator'[k].document = c.document
        /\ coordinator'[k].snapshot = c.snapshot
    BY <1>3, <1>6 DEF Corpus!Idle
  <2>3. attempt' = [attempt EXCEPT ![k].release = "running"]
    BY <1>1, <1>2, <1>4, <1>6 DEF Caught, Attempt
  <2> QED
    BY <1>2, <1>4, <1>6, <2>2, <2>3, SnapshotsLast, ReleaseServes
<1> QED
  BY <1>5, <1>6

\* publish() ends: the API has activated the candidate, or an error is raised.
LEMMA EndServes ==
    ASSUME RInv, [ReleaseNext]_allVars, NEW k \in Workers, Activate(k) \/ GiveUp(k)
    PROVE  ClaimIsKnown(k)' /\ CoordinatorServes(k)' /\ attempt'[k] \in Attempt
<1>1. PICK r \in {"activated", "failed"} :
         /\ attempt' = [attempt EXCEPT ![k].release = r]
         /\ UNCHANGED vars
         /\ coordinator[k].pc # "idle"
         /\ coordinator' = [coordinator EXCEPT ![k] = Corpus!Idle]
  BY DEF Activate, GiveUp, Corpus!Activate, Corpus!Crash
<1>2. coordinator'[k] = Corpus!Idle /\ coordinator'[k].pc = "idle"
  BY <1>1 DEF RInv, CorpusProofs!IInv, CorpusProofs!TypeOK, Corpus!Idle
<1>3. /\ worker[k].pc = "releasing"
      /\ coordinator[k].snapshot[attempt[k].source] = worker[k].document
  BY <1>1 DEF RInv, ClaimsInv, CoordinatorServes
<1>4. coordinator[k].snapshot \in snapshots
  BY <1>1 DEF RInv, CorpusProofs!IInv, CorpusProofs!TypeOK
<1> QED
  BY <1>1, <1>2, <1>3, <1>4, SnapshotsLast, ReleaseServes

\* Every step keeps claims and coordinators together.
LEMMA ClaimsStand == ASSUME RInv, [ReleaseNext]_allVars PROVE ClaimsInv'
<1>1. ASSUME NEW k \in Workers, Moves(k) PROVE ClaimsInv'
  <2>1. ClaimIsKnown(k)' /\ CoordinatorServes(k)' /\ attempt'[k] \in Attempt
    BY <1>1, TakeServes, CarryServes, DiesServes, StageServes, BuildServes, EndServes DEF Moves
  <2>2. \A j \in Workers \ {k} : ClaimIsKnown(j)' /\ CoordinatorServes(j)'
    BY <1>1, OthersStay, ClaimLasts
  <2>3. attempt' \in [Workers -> Attempt]
    <3>1. attempt' = [attempt EXCEPT ![k] = attempt'[k]]
      BY <1>1 DEF Moves, Take, Carry, Enrich, Dies, Stage, Build, Caught, Activate, GiveUp, RInv, ClaimsInv
    <3> QED
      BY <2>1, <3>1 DEF RInv, ClaimsInv
  <2> QED
    BY <2>1, <2>2, <2>3 DEF ClaimsInv
<1>2. ASSUME NEW k \in Workers, Restart(k), UNCHANGED <<corpusVars, attempt>> PROVE ClaimsInv'
  <2>1. /\ worker' = [worker EXCEPT ![k] = NoClaim("idle")] /\ worker[k].pc = "down"
        /\ UNCHANGED <<corpusVars, attempt>>
    BY <1>2 DEF Restart
  <2>2. ClaimIsKnown(k)' /\ CoordinatorServes(k)'
    BY <2>1 DEF RInv, IInv, TypeOK, ClaimsInv, ClaimIsKnown, CoordinatorServes, Working, NoClaim,
       corpusVars
  <2>3. \A j \in Workers \ {k} : ClaimIsKnown(j)' /\ CoordinatorServes(j)'
    BY <2>1, ClaimLasts DEF RInv, IInv, TypeOK, corpusVars
  <2> QED
    BY <2>1, <2>2, <2>3 DEF ClaimsInv, RInv
<1>3. CASE UNCHANGED <<worker, corpusVars, attempt>>
  BY <1>3, ClaimLasts DEF ClaimsInv, RInv, corpusVars
<1> QED
  BY <1>1, <1>2, <1>3 DEF ReleaseNext, Moves, allVars, vars, Tick, Command, CreateSource, Retry,
     Reprocess, QueueLifecycle, Enqueue

-----------------------------------------------------------------------------
(* The invariants of the composition.                                      *)

\* What is staged was published before, and what was active as well.
LEMMA SnapshotsStand == ASSUME RInv, [ReleaseNext]_allVars PROVE SnapshotsArePublished'
<1> SUFFICES ASSUME NEW m \in snapshots', NEW s \in Sources
             PROVE  m[s] \in documents'[s] \cup {None}
  BY DEF SnapshotsArePublished
<1>1. documents[s] \subseteq documents'[s]
  BY QueueSteps, DocumentsLast DEF RInv
<1>2. CASE m \in snapshots
  BY <1>1, <1>2 DEF RInv, SnapshotsArePublished
<1>3. CASE m \notin snapshots
  <2>1. PICK k \in Workers : Stage(k)
    BY <1>3, BuilderMoves DEF ReleaseNext, allVars, corpusVars, Take, Carry, Enrich, Dies, Build,
       Activate, GiveUp, Corpus!Activate, Corpus!Crash, Corpus!Republish
  <2> DEFINE t == attempt[k].source
             d == worker[k].document
  <2>2. /\ m = Corpus!replaceMember(release.snapshot, t, d)
        /\ worker[k].pc = "releasing"
    BY <1>3, <2>1 DEF Stage, AfterPublication, Corpus!Stage, Corpus!Inserted
  <2>3. t \in Sources /\ d \in documents[t]
    BY <2>2 DEF RInv, ClaimsInv, ClaimIsKnown, Working
  <2>4. release.snapshot[s] \in documents[s] \cup {None}
    <3>1. CASE release.version = 0
      BY <3>1 DEF RInv, CorpusProofs!IInv, CorpusProofs!NoRowNoSnapshot, CorpusProofs!NoSnapshot
    <3>2. CASE release.version > 0
      BY <3>2 DEF RInv, CorpusProofs!IInv, CorpusProofs!TypeOK, SnapshotsArePublished
    <3>3. release.version \in Nat
      BY BoundAssumption DEF RInv, CorpusProofs!IInv, CorpusProofs!TypeOK, CorpusProofs!ReleaseRow
    <3> QED
      BY <3>1, <3>2, <3>3
  <2>5. release.snapshot \in [Sources -> Documents \cup {None}]
    BY DEF RInv, CorpusProofs!IInv, CorpusProofs!TypeOK, CorpusProofs!ReleaseRow,
       CorpusProofs!Snapshots
  <2>6. m[s] = IF s = t THEN d ELSE release.snapshot[s]
    BY <2>2, <2>3, <2>5 DEF Corpus!replaceMember
  <2> QED
    BY <1>1, <2>3, <2>4, <2>6
<1> QED
  BY <1>2, <1>3

\* A row is completed after the candidate with its document was activated.
LEMMA ReadyStands == ASSUME RInv, [ReleaseNext]_allVars PROVE ReadyWasReleased'
<1> SUFFICES ASSUME NEW s \in Sources, source'[s].ready # None
             PROVE  \E m \in snapshots' : m[s] = source'[s].ready
  BY DEF ReadyWasReleased
<1>1. CASE source'[s].ready = source[s].ready
  BY <1>1, SnapshotsLast DEF RInv, ReadyWasReleased
<1>2. CASE source'[s].ready # source[s].ready
  <2>1. PICK k \in Workers, w \in Works :
           /\ worker[k].pc = "completing" /\ UnderLease(k, w)
           /\ work[w].source = s /\ source'[s].ready = worker[k].document
    BY <1>2, QueueSteps, ReadyIsCompleted DEF RInv
  <2>2. /\ attempt[k].source = s
        /\ \E m \in snapshots : m[attempt[k].source] = worker[k].document
    BY <2>1 DEF RInv, ClaimsInv, ClaimIsKnown, Working
  <2> QED
    BY <2>1, <2>2, SnapshotsLast
<1> QED
  BY <1>1, <1>2

LEMMA ReleaseStarts == ReleaseInit => RInv
<1> SUFFICES ASSUME ReleaseInit PROVE RInv
  OBVIOUS
<1>1. IInv
  BY InitEstablishes DEF ReleaseInit
<1>2. MaxVersion \in Nat /\ None \notin Sources \cup Documents
  BY BoundAssumption, NoneAssumption
<1>3. CorpusProofs!IInv
  BY <1>2, OneCorpus, CorpusProofs!InitIInv DEF ReleaseInit
<1>4. ClaimsInv
  BY DEF ReleaseInit, Init, Corpus!Init, Corpus!Idle, NoClaim, NoAttempt, Attempt, ClaimsInv,
     ClaimIsKnown, CoordinatorServes, Working
<1>5. SnapshotsArePublished
  BY DEF ReleaseInit, Corpus!Init, SnapshotsArePublished
<1>6. ReadyWasReleased
  BY DEF ReleaseInit, Init, Lifecycle!NoSource, ReadyWasReleased
<1> QED
  BY <1>1, <1>3, <1>4, <1>5, <1>6 DEF RInv

\* The inductive invariant of the composition holds in every reachable state.
THEOREM ReleaseInvariance == ReleaseSpec => []RInv
<1>1. RInv /\ [ReleaseNext]_allVars => RInv'
  BY PartsStand, ClaimsStand, SnapshotsStand, ReadyStands DEF RInv
<1> QED
  BY <1>1, ReleaseStarts, PTL DEF ReleaseSpec

\* The composition implements the queue: its workers only wait longer.
THEOREM ReleaseRefinesQueue == ReleaseSpec => Spec
<1>1. ReleaseInit => Init
  BY DEF ReleaseInit
<1> QED
  BY <1>1, QueueSteps, PTL DEF ReleaseSpec, Spec

\* The composition implements the release of one corpus: whatever happens to
\* leases, its coordinators are coordinators of SnapshotRelease.
THEOREM ReleaseRefinesCorpus == ReleaseSpec => Corpus!Spec
<1>1. ReleaseInit => Corpus!Init
  BY DEF ReleaseInit
<1>2. RInv /\ [ReleaseNext]_allVars => [Corpus!Next]_(Corpus!vars)
  BY CorpusSteps DEF corpusVars, Corpus!vars
<1> QED
  BY <1>1, <1>2, ReleaseInvariance, PTL DEF ReleaseSpec, Corpus!Spec

\* A busy coordinator works on the claim of its worker.
THEOREM AttemptsAlwaysAgree == ReleaseSpec => []AttemptsAgree
<1>1. RInv => AttemptsAgree
  BY DEF RInv, ClaimsInv, CoordinatorServes, AttemptsAgree
<1> QED
  BY <1>1, ReleaseInvariance, PTL

\* Snapshots hold nothing but published documents of their sources.
THEOREM SnapshotsHoldPublished == ReleaseSpec => []SnapshotsArePublished
<1>1. RInv => SnapshotsArePublished
  BY DEF RInv
<1> QED
  BY <1>1, ReleaseInvariance, PTL

\* No source is ready before its document was released.
THEOREM ReadyFollowsRelease == ReleaseSpec => []ReadyWasReleased
<1>1. RInv => ReadyWasReleased
  BY DEF RInv
<1> QED
  BY <1>1, ReleaseInvariance, PTL

-----------------------------------------------------------------------------
(* What the active snapshot holds, when no lease is lost during a release. *)
(* The release asks whether a candidate is current, never whether its      *)
(* worker still holds the claim; with both, a ready source is active.      *)

\* A coordinator is busy only while its worker holds the lease of its claim.
ReleasedUnderLease ==
    \A k \in Workers : coordinator[k].pc # "idle" => UnderLease(k, worker[k].work)

\* The document of a worker that was told of its activation stays active as
\* long as the worker holds the lease.
HoldersAreActive ==
    \A k \in Workers, w \in Works :
        attempt[k].release = "activated" /\ UnderLease(k, w)
          => release.snapshot[attempt[k].source] = worker[k].document

\* Only an activation moves the release: to the candidate of its coordinator,
\* which differs from the active snapshot in the member of its source.
LEMMA ActivationMoves ==
    ASSUME RInv, NEW k \in Workers, Activate(k)
    PROVE  /\ UNCHANGED vars
           /\ release'.snapshot[attempt[k].source] = worker[k].document
           /\ \A s \in Sources \ {attempt[k].source} :
                 release'.snapshot[s] = release.snapshot[s]
<1> DEFINE c == coordinator[k]
<1>1. UNCHANGED vars /\ Corpus!Activate(k)
  BY DEF Activate
<1>2. c.pc # "idle" /\ c.expected = release.version
  BY <1>1 DEF Corpus!Activate, Corpus!CurrentVersion
<1>3. /\ c.source = attempt[k].source /\ c.document = worker[k].document
      /\ c.snapshot[attempt[k].source] = worker[k].document
  BY <1>2 DEF RInv, ClaimsInv, CoordinatorServes
<1>4. c.snapshot = CorpusProofs!replaceMember(release.snapshot, c.source, c.document)
  BY <1>2 DEF RInv, CorpusProofs!IInv, CorpusProofs!CandidateIsCurrent
<1>5. release'.snapshot = c.snapshot
  BY <1>1 DEF Corpus!Activate, Corpus!Activated, Corpus!Move
<1>6. release.snapshot \in [Sources -> Documents \cup {None}]
  BY DEF RInv, CorpusProofs!IInv, CorpusProofs!TypeOK, CorpusProofs!ReleaseRow,
     CorpusProofs!Snapshots
<1>7. \A s \in Sources \ {attempt[k].source} : c.snapshot[s] = release.snapshot[s]
  BY <1>3, <1>4, <1>6 DEF CorpusProofs!replaceMember
<1> QED
  BY <1>1, <1>3, <1>5, <1>7

LEMMA ReleaseStays ==
    ASSUME [ReleaseNext]_allVars, ~ \E k \in Workers : Activate(k)
    PROVE  release' = release
BY BuilderMoves DEF ReleaseNext, allVars, corpusVars, Take, Carry, Enrich, Dies, Stage, Build,
   GiveUp, Corpus!Stage, Corpus!Crash, Corpus!Republish

\* A worker that knows of its activation has known it, and keeps its claim,
\* unless it is told in this step.
LEMMA ActivationIsKnown ==
    ASSUME RInv, [ReleaseNext]_allVars, ~ \E k \in Workers : Activate(k),
           NEW j \in Workers, attempt'[j].release = "activated"
    PROVE  /\ attempt'[j] = attempt[j]
           /\ worker'[j].document = worker[j].document
           /\ worker'[j].work = worker[j].work
           /\ worker[j].pc \in Stages
<1>1. /\ attempt \in [Workers -> Attempt] /\ worker \in [Workers -> WorkerState]
      /\ ClaimIsKnown(j) /\ CoordinatorServes(j)
  BY DEF RInv, ClaimsInv, IInv, TypeOK
<1>2. attempt[j].release = "activated" => worker[j].pc \in {"releasing", "completing"}
  BY <1>1 DEF ClaimIsKnown
<1>3. CASE Moves(j)
  <2>1. CASE Carry(j)
    <3>1. attempt' = attempt /\ worker'[j].pc \notin {"idle", "failing"}
      BY <1>1, <2>1 DEF Carry, NoAttempt
    <3>2. ~ FinishStages(j) /\ ~ Publish(j)
      BY <1>2, <3>1 DEF FinishStages, Publish
    <3>3. LeaseUnavailable(j) \/ StageError(j) => worker'[j].pc = "failing"
      BY <1>1 DEF LeaseUnavailable, StageError, Reach
    <3>4. Complete(j) \/ Fail(j) \/ Abandon(j) => worker'[j].pc = "idle"
      BY <1>1 DEF Complete, Fail, Settle, Abandon, NoClaim
    <3>5. Release(j)
      BY <2>1, <3>1, <3>2, <3>3, <3>4 DEF Carry
    <3> QED
      BY <1>1, <1>2, <3>1, <3>5 DEF Release, Reach
  <2>4. CASE Enrich(j)
    BY <1>1, <1>2, <2>4 DEF Enrich, Publish
  <2>2. ~ Take(j) /\ ~ Dies(j) /\ ~ Stage(j) /\ ~ GiveUp(j)
    <3>1. Take(j) => attempt'[j].release = "none"
      BY <1>1 DEF Take
    <3>2. Dies(j) => attempt'[j] = NoAttempt
      BY <1>1 DEF Dies
    <3>3. Stage(j) => attempt'[j].release = "running"
      BY <1>1 DEF Stage, Attempt
    <3>4. GiveUp(j) => attempt'[j].release = "failed"
      BY <1>1 DEF GiveUp, Attempt
    <3> QED
      BY <3>1, <3>2, <3>3, <3>4 DEF NoAttempt
  <2>3. ~ Build(j)
    <3> SUFFICES ASSUME Build(j) PROVE FALSE
      OBVIOUS
    <3>1. coordinator[j].pc # "idle"
      BY BuilderMoves DEF Build
    <3>2. attempt[j].release = "running"
      BY <1>1, <3>1 DEF CoordinatorServes
    <3>3. attempt'[j].release \in {"running", "failed"}
      BY <1>1, <3>2 DEF Build, Caught, Attempt
    <3> QED
      BY <3>3
  <2> QED
    BY <1>3, <2>1, <2>2, <2>3, <2>4 DEF Moves
<1>4. ASSUME NEW k \in Workers \ {j}, Moves(k)
      PROVE  attempt'[j] = attempt[j] /\ worker'[j] = worker[j]
  BY <1>4, OthersStay
<1>5. ASSUME NEW k \in Workers, Restart(k), attempt' = attempt
      PROVE  worker'[j] = worker[j]
  BY <1>1, <1>2, <1>5 DEF Restart
<1>6. CASE UNCHANGED <<worker, attempt>>
  BY <1>2, <1>6
<1> QED
  BY <1>2, <1>3, <1>4, <1>5, <1>6 DEF ReleaseNext, Moves, allVars, vars, Tick, Command,
     CreateSource, Retry, Reprocess, QueueLifecycle, Enqueue

\* Two holders of leases work for two sources.
LEMMA HoldersAreApart ==
    ASSUME RInv, NEW j \in Workers, NEW k \in Workers, NEW v \in Works, NEW w \in Works,
           UnderLease(j, v), UnderLease(k, w), j # k
    PROVE  work[v].source # work[w].source
BY DEF UnderLease, RInv, IInv, OneActiveWork

LEMMA HoldersStayActive ==
    ASSUME RInv, ReleasedUnderLease, HoldersAreActive, [ReleaseNext]_allVars
    PROVE  HoldersAreActive'
<1> SUFFICES ASSUME NEW j \in Workers, NEW w \in Works,
                    attempt'[j].release = "activated", UnderLease(j, w)'
             PROVE  release'.snapshot[attempt'[j].source] = worker'[j].document
  BY DEF HoldersAreActive
<1>1. ASSUME NEW k \in Workers, Activate(k)
      PROVE  release'.snapshot[attempt'[j].source] = worker'[j].document
  <2>1. UNCHANGED vars /\ UnderLease(j, w)
    BY <1>1 DEF Activate, vars, UnderLease
  <2>2. CASE j = k
    <3>1. attempt'[k].source = attempt[k].source
      BY <1>1 DEF Activate, RInv, ClaimsInv, Attempt
    <3>2. worker'[k] = worker[k]
      BY <2>1 DEF vars
    <3> QED
      BY <1>1, <2>2, <3>1, <3>2, ActivationMoves
  <2>3. CASE j # k
    <3>1. attempt'[j] = attempt[j] /\ worker'[j] = worker[j]
      BY <1>1, <2>3, OthersStay DEF Moves
    <3>2. /\ worker[j].pc \in Working /\ attempt[j].source \in Sources
          /\ work[w].source = attempt[j].source
      BY <2>1, <3>1 DEF RInv, ClaimsInv, ClaimIsKnown, Working
    <3>3. /\ coordinator[k].pc # "idle" /\ worker[k].pc = "releasing"
          /\ worker[k].work \in Works
      BY <1>1 DEF Activate, Corpus!Activate, RInv, ClaimsInv, CoordinatorServes, IInv, TypeOK
    <3>4. UnderLease(k, worker[k].work)
      BY <3>3 DEF ReleasedUnderLease
    <3>5. work[worker[k].work].source = attempt[k].source
      BY <3>3, <3>4 DEF RInv, ClaimsInv, ClaimIsKnown, Working
    <3>6. attempt[j].source # attempt[k].source
      BY <2>1, <2>3, <3>2, <3>3, <3>4, <3>5, HoldersAreApart
    <3>7. release'.snapshot[attempt[j].source] = release.snapshot[attempt[j].source]
      BY <1>1, <3>2, <3>6, ActivationMoves
    <3>8. release.snapshot[attempt[j].source] = worker[j].document
      BY <2>1, <3>1 DEF HoldersAreActive
    <3> QED
      BY <3>1, <3>7, <3>8
  <2> QED
    BY <2>2, <2>3
<1>2. CASE ~ \E k \in Workers : Activate(k)
  <2>1. /\ attempt'[j] = attempt[j] /\ worker'[j].document = worker[j].document
        /\ worker'[j].work = worker[j].work /\ worker[j].pc \in Stages
    BY <1>2, ActivationIsKnown
  <2>2. UnderLease(j, w)
    BY <2>1, QueueSteps, LeasesLast DEF RInv
  <2>3. release' = release
    BY <1>2, ReleaseStays
  <2> QED
    BY <2>1, <2>2, <2>3 DEF HoldersAreActive
<1> QED
  BY <1>1, <1>2

LEMMA ReadyStaysActive ==
    ASSUME RInv, ReleasedUnderLease, HoldersAreActive, ReadyIsActive, [ReleaseNext]_allVars
    PROVE  ReadyIsActive'
<1> SUFFICES ASSUME NEW s \in Sources, source'[s].status = "ready"
             PROVE  release'.snapshot[s] = source'[s].ready
  BY DEF ReadyIsActive
<1>1. ASSUME NEW k \in Workers, Activate(k)
      PROVE  release'.snapshot[s] = source'[s].ready
  <2>1. source' = source
    BY <1>1 DEF Activate, vars
  <2>2. /\ coordinator[k].pc # "idle" /\ worker[k].pc = "releasing"
        /\ worker[k].work \in Works
    BY <1>1 DEF Activate, Corpus!Activate, RInv, ClaimsInv, CoordinatorServes, IInv, TypeOK
  <2>3. UnderLease(k, worker[k].work)
    BY <2>2 DEF ReleasedUnderLease
  <2>4. work[worker[k].work].source = attempt[k].source
    BY <2>2, <2>3 DEF RInv, ClaimsInv, ClaimIsKnown, Working
  <2>5. source[attempt[k].source].status = "processing"
    BY <2>2, <2>3, <2>4 DEF UnderLease, RInv, IInv, LeaseAgreement
  <2>6. s # attempt[k].source
    BY <2>1, <2>5
  <2> QED
    BY <1>1, <2>1, <2>6, ActivationMoves DEF ReadyIsActive
<1>2. CASE (~ \E k \in Workers : Activate(k)) /\ source'[s] = source[s]
  BY <1>2, ReleaseStays DEF ReadyIsActive
<1>3. CASE (~ \E k \in Workers : Activate(k)) /\ source'[s] # source[s]
  <2>1. PICK k \in Workers, w \in Works :
           /\ worker[k].pc = "completing" /\ UnderLease(k, w)
           /\ work[w].source = s /\ source'[s].ready = worker[k].document
    BY <1>3, QueueSteps, ReadyIsCompleted DEF RInv
  <2>2. attempt[k].release = "activated" /\ attempt[k].source = s
    BY <2>1 DEF RInv, ClaimsInv, ClaimIsKnown, Working
  <2>3. release.snapshot[s] = worker[k].document
    BY <2>1, <2>2 DEF HoldersAreActive
  <2> QED
    BY <1>3, <2>1, <2>3, ReleaseStays
<1> QED
  BY <1>1, <1>2, <1>3

\* When no lease is recovered while the release of its claim is running, the
\* active snapshot holds the ready document of every ready source: the lost
\* lease is all that breaks the promise of the coordinator.
THEOREM LeasedReleasesAreActive == ReleaseSpec /\ []ReleasedUnderLease => []ReadyIsActive
<1> DEFINE Inv == HoldersAreActive /\ ReadyIsActive
<1>1. ReleaseInit => Inv
  BY DEF ReleaseInit, Init, NoAttempt, Lifecycle!NoSource, HoldersAreActive, ReadyIsActive
<1>2. RInv /\ ReleasedUnderLease /\ Inv /\ [ReleaseNext]_allVars => Inv'
  BY HoldersStayActive, ReadyStaysActive
<1>3. Inv => ReadyIsActive
  OBVIOUS
<1> HIDE DEF Inv
<1> QED
  BY <1>1, <1>2, <1>3, ReleaseInvariance, PTL DEF ReleaseSpec

\* A worker at work holds the lease of its row.
ClaimsAreHeld ==
    \A k \in Workers : worker[k].pc \in Stages => UnderLease(k, worker[k].work)

\* Nobody takes the row of a worker that is alone.
LEMMA LoneClaimsAreHeld ==
    ASSUME \A j, k \in Workers : j = k, IInv, ClaimsAreHeld, [Next]_vars
    PROVE  ClaimsAreHeld'
<1> SUFFICES ASSUME NEW k \in Workers, worker'[k].pc \in Stages
             PROVE  UnderLease(k, worker[k].work)'
  BY DEF ClaimsAreHeld
<1>1. /\ worker \in [Workers -> WorkerState] /\ work \in [Works -> WorkRow]
      /\ \A j \in Workers : worker[j].pc \in Stages => worker[j].work \in Works
  BY DEF IInv, TypeOK
<1>2. CASE Claim(k)
  <2>1. PICK w \in Works :
           /\ work' = [RecoveredWork EXCEPT ![w] = LeasedWork(work[w].source, k)]
           /\ worker' = [worker EXCEPT ![k] = Claimed(w)]
    BY <1>2 DEF Claim
  <2>2. worker'[k].work = w /\ work'[w].status = "leased" /\ work'[w].holder = k
    BY <1>1, <2>1, RecoveryFacts DEF Claimed, LeasedWork
  <2> QED
    BY <2>2 DEF UnderLease
<1>3. ASSUME worker[k].pc \in Stages, worker'[k].work = worker[k].work,
             work' = work
      PROVE  UnderLease(k, worker[k].work)'
  BY <1>3 DEF ClaimsAreHeld, UnderLease
<1>4. CASE Tick
  <2>1. worker' = worker /\ UnderLease(k, worker[k].work)
    BY <1>4 DEF Tick, ClaimsAreHeld
  <2> QED
    BY <1>1, <1>4, <2>1 DEF Tick, UnderLease
<1>5. CASE Command
  <2>1. PICK s \in Sources, v \in Works : Enqueue(s, v)
    BY <1>5 DEF Command, CreateSource, Retry, Reprocess, QueueLifecycle
  <2>2. worker' = worker /\ UnderLease(k, worker[k].work)
    BY <2>1 DEF Enqueue, ClaimsAreHeld
  <2> QED
    BY <1>1, <2>1, <2>2 DEF Enqueue, UnderLease
<1>6. CASE Proceed(k)
  <2>1. ~ Complete(k) /\ ~ Fail(k) /\ ~ Abandon(k)
    BY <1>1 DEF Complete, Fail, Settle, Abandon, NoClaim
  <2>2. FinishStages(k) \/ Publish(k) \/ Release(k) \/ StageError(k) \/ LeaseUnavailable(k)
    BY <1>6, <2>1 DEF Proceed
  <2>3. worker[k].pc \in Stages /\ work' = work
    BY <2>2 DEF FinishStages, Publish, Release, StageError, LeaseUnavailable, Reach, rows
  <2>4. Publish(k) => worker'[k].work = worker[k].work
    BY <1>1 DEF Publish
  <2>5. \A pc, d : Reach(k, pc, d) => worker'[k].work = worker[k].work
    BY <1>1 DEF Reach
  <2>6. worker'[k].work = worker[k].work
    BY <2>2, <2>4, <2>5 DEF FinishStages, Release, StageError, LeaseUnavailable
  <2> QED
    BY <1>3, <2>3, <2>6
<1>7. ~ Crash(k) /\ ~ Restart(k)
  BY <1>1 DEF Crash, Restart, NoClaim
<1>8. CASE UNCHANGED vars
  BY <1>3, <1>8 DEF vars
<1> QED
  BY <1>2, <1>4, <1>5, <1>6, <1>7, <1>8 DEF Next

\* With a single worker a ready source is active, however often the worker
\* outlives its leases: nobody else recovers them.
THEOREM OneWorkerIsActive ==
    ASSUME \A j, k \in Workers : j = k
    PROVE  ReleaseSpec => []ReadyIsActive
<1>1. Init => ClaimsAreHeld
  BY DEF Init, NoClaim, ClaimsAreHeld
<1>2. IInv /\ ClaimsAreHeld /\ [Next]_vars => ClaimsAreHeld'
  BY LoneClaimsAreHeld
<1>3. RInv /\ ClaimsAreHeld => ReleasedUnderLease
  BY DEF RInv, ClaimsInv, CoordinatorServes, ClaimsAreHeld, ReleasedUnderLease
<1>4. Spec => []ClaimsAreHeld
  BY <1>1, <1>2, Invariance, PTL DEF Spec
<1> QED
  BY <1>3, <1>4, ReleaseRefinesQueue, ReleaseInvariance, LeasedReleasesAreActive, PTL
=============================================================================
