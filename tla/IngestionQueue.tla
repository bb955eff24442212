---------------------------- MODULE IngestionQueue ----------------------------
(***************************************************************************)
(* The leased work queue through which the Go API hands sources to the     *)
(* Python ingestion workers: rows of sources, ingestion_work,              *)
(* processing_attempts and document_versions in PostgreSQL, the lifecycle  *)
(* commands of the API, and worker processes that claim, process, publish, *)
(* complete, fail, stall and crash.                                        *)
(*                                                                         *)
(* One action is one committed transaction, or one step of a worker        *)
(* between two transactions.  A transaction that rolls back changes no     *)
(* row.                                                                    *)
(*                                                                         *)
(* Abstractions.  A lease token is the identity of the worker process that *)
(* claimed the row: a process holds one claim at a time and forgets its    *)
(* token when it dies or gives up, so no two live tokens share an owner.   *)
(* A terminal work row is never read again, so its identity is reused as   *)
(* "free".  A document is identified by the content it was made from, for  *)
(* the pipeline version is fixed.  Time is the number of clock units left  *)
(* in each lease; all processes read the same clock.                       *)
(***************************************************************************)
EXTENDS Integers

CONSTANTS Sources,        \* identities of the sources that may be created
          Works,          \* identities of work rows
          Workers,        \* ingestion worker processes
          Documents,      \* contents an origin may have when it is fetched
          None            \* SQL NULL

CONSTANT  LeaseDuration   \* clock units granted by a claim

ASSUME LeaseAssumption == LeaseDuration \in Nat \ {0}
ASSUME NoneAssumption  == None \notin Sources \cup Works \cup Workers \cup Documents

VARIABLES
    source,     \* [Sources -> SourceRow]: the sources table
    documents,  \* [Sources -> SUBSET Documents]: published document versions
    work,       \* [Works -> WorkRow]: the ingestion_work table
    attempts,   \* [Works -> SUBSET Workers]: processing attempts of a work row
                \* whose status is still 'processing', by the worker that claimed
    ahead,      \* [Works -> SUBSET Works]: for a pending row, the pending rows
                \* whose requested_at is earlier
    worker      \* [Workers -> WorkerState]: the worker processes

rows == <<source, documents, work, attempts, ahead>>
vars == <<source, documents, work, attempts, ahead, worker>>

-----------------------------------------------------------------------------
(* Types.                                                                  *)

\* The columns of sources, and their promise.
Lifecycle == INSTANCE SourceLifecycle WITH Sources   <- Sources,
                                           Documents <- Documents,
                                           None      <- None,
                                           source    <- source

\* left: clock units until lease_expires_at; -1 once it lies in the past.
WorkRow == [status : {"free", "pending", "leased"}, source : Sources \cup {None},
            holder : Workers \cup {None}, left : -1 .. LeaseDuration]

Stages == {"stages", "publishing", "releasing", "completing", "failing"}

\* inTime: the clock the process read before its next transaction was not
\* past lease_expires_at.  document: what its origin produced.  Both are
\* reset where no later step reads them.
WorkerState == [pc : {"idle", "down"} \cup Stages, work : Works \cup {None},
                inTime : BOOLEAN, document : Documents \cup {None}]

FreeWork == [status |-> "free", source |-> None, holder |-> None, left |-> 0]
PendingWork(s)   == [status |-> "pending", source |-> s, holder |-> None, left |-> 0]
LeasedWork(s, k) == [status |-> "leased", source |-> s, holder |-> k,
                     left |-> LeaseDuration]

\* The process k after it claimed row w, and while it has no claim.
Claimed(w)  == [pc |-> "stages", work |-> w, inTime |-> FALSE, document |-> None]
NoClaim(pc) == [pc |-> pc, work |-> None, inTime |-> FALSE, document |-> None]

Pending == {w \in Works : work[w].status = "pending"}
Leased  == {w \in Works : work[w].status = "leased"}
Active  == Pending \cup Leased
Expired == {w \in Leased : work[w].left < 0}

Init == /\ source    = [s \in Sources |-> Lifecycle!NoSource]
        /\ documents = [s \in Sources |-> {}]
        /\ work      = [w \in Works |-> FreeWork]
        /\ attempts  = [w \in Works |-> {}]
        /\ ahead     = [w \in Works |-> {}]
        /\ worker    = [k \in Workers |-> NoClaim("idle")]

-----------------------------------------------------------------------------
(* Commands of the API.  Each inserts a pending work row behind all others. *)
(* The partial unique index on the active work of a source is not a guard:  *)
(* OneActiveWork says that it never has to reject.                          *)

Enqueue(s, w) == /\ work[w].status = "free"
                 /\ work'  = [work EXCEPT ![w] = PendingWork(s)]
                 /\ ahead' = [ahead EXCEPT ![w] = Pending]
                 /\ UNCHANGED <<documents, attempts, worker>>

CreateSource(s, w) == /\ source[s].status = "absent"
                      /\ source' = [source EXCEPT ![s] = Lifecycle!CreatedSource]
                      /\ Enqueue(s, w)

\* Mutant: retry and reprocess of any existing source.
AnyStatusRequired(s, status) == source[s].status # "absent"

StatusRequired(s, status) == source[s].status = status

QueueLifecycle(s, w, requiredStatus) ==
    /\ StatusRequired(s, requiredStatus)
    /\ source' = [source EXCEPT ![s] = [@ EXCEPT !.status = "pending", !.failure = "none"]]
    /\ Enqueue(s, w)

Retry(s, w)     == QueueLifecycle(s, w, "failed")
Reprocess(s, w) == QueueLifecycle(s, w, "ready")

-----------------------------------------------------------------------------
(* Claiming.  The transaction first recovers every expired lease (fails    *)
(* its attempts, makes its source and its row pending, and stamps the row  *)
(* with the current time, behind all pending rows), then leases the oldest *)
(* pending row.                                                            *)

\* Mutant: recovery forgets the attempts of the lost lease.
KeptAttempts == attempts

RecoveredAttempts == [w \in Works |-> IF w \in Expired THEN {} ELSE attempts[w]]

RecoveredSource == [s \in Sources |->
    IF \E w \in Expired : work[w].source = s
    THEN [source[s] EXCEPT !.status = "pending", !.failure = "lease_expired"]
    ELSE source[s]]

\* Mutant: recovery leaves the lease columns as they are.
RecoveredStatus == [w \in Works |->
    IF w \in Expired THEN [work[w] EXCEPT !.status = "pending"] ELSE work[w]]

\* Mutant: recovery closes the row of the lost lease.
ClosedWork == [w \in Works |-> IF w \in Expired THEN FreeWork ELSE work[w]]

RecoveredWork == [w \in Works |->
    IF w \in Expired THEN PendingWork(work[w].source) ELSE work[w]]

\* Mutant: a recovered row keeps its place in front.
FrontOfTheQueue == [w \in Works |-> IF w \in Expired THEN {}
                                    ELSE ahead[w] \cup Expired]

RecoveredAhead == [w \in Works |-> IF w \in Expired THEN Pending ELSE ahead[w]]

Claim(k) ==
    /\ worker[k].pc = "idle"
    /\ \E w \in Works :
        /\ RecoveredWork[w].status = "pending"
        /\ RecoveredAhead[w] = {}
        /\ source' = [RecoveredSource EXCEPT ![work[w].source].status = "processing"]
        /\ work' = [RecoveredWork EXCEPT ![w] = LeasedWork(work[w].source, k)]
        /\ attempts' = [RecoveredAttempts EXCEPT ![w] = @ \cup {k}]
        /\ ahead' = [x \in Works |-> RecoveredAhead[x] \ {w}]
        /\ worker' = [worker EXCEPT ![k] = Claimed(w)]
    /\ UNCHANGED documents

-----------------------------------------------------------------------------
(* Processing.  Every repository call takes a time the process read before *)
(* the transaction began; a process may stall between the two.             *)

InTime(w) == work[w].left >= 0

\* The process reaches its next call and reads the clock for it.
Reach(k, pc, d) ==
    /\ LET w == worker[k].work
       IN  worker' = [worker EXCEPT ![k] = [pc |-> pc, work |-> w,
                                            inTime |-> InTime(w), document |-> d]]
    /\ UNCHANGED rows

\* Acquisition, extraction, chunking and embedding succeed.
FinishStages(k) == /\ worker[k].pc = "stages"
                   /\ \E d \in Documents : Reach(k, "publishing", d)

\* Mutant: the lease is checked without its token.
HoldsAnyLease(k) == work[worker[k].work].status = "leased" /\ worker[k].inTime

\* _lock_lease finds the row: leased, under this token, not past the deadline.
HoldsLease(k) == LET w == worker[k].work
                 IN  /\ work[w].status = "leased"
                     /\ work[w].holder = k
                     /\ worker[k].inTime

\* Mutant: publication inserts no document version.
NothingPublished(k) == documents

PublishedDocuments(k) ==
    [documents EXCEPT ![work[worker[k].work].source] = @ \cup {worker[k].document}]

Publish(k) ==
    /\ worker[k].pc = "publishing"
    /\ HoldsLease(k)
    /\ documents' = PublishedDocuments(k)
    /\ worker' = [worker EXCEPT ![k] = [@ EXCEPT !.pc = "releasing", !.inTime = FALSE]]
    /\ UNCHANGED <<source, work, attempts, ahead>>

\* The graph release coordinator stages, builds and activates.
Release(k) == /\ worker[k].pc = "releasing"
              /\ Reach(k, "completing", worker[k].document)

\* A stage raises, or the database rejects and rolls back the transaction.
StageError(k) == /\ worker[k].pc \in Stages \ {"failing"}
                 /\ Reach(k, "failing", None)

\* _lock_lease finds no row and raises.
LeaseUnavailable(k) == /\ worker[k].pc \in {"publishing", "completing"}
                       /\ ~ HoldsLease(k)
                       /\ Reach(k, "failing", None)

\* The source gets its terminal row, the attempt ends, the lease is cleared.
Settle(k, row) ==
    LET w == worker[k].work
    IN  /\ source'   = [source EXCEPT ![work[w].source] = row]
        /\ work'     = [work EXCEPT ![w] = FreeWork]
        /\ attempts' = [attempts EXCEPT ![w] = @ \ {k}]
        /\ worker'   = [worker EXCEPT ![k] = NoClaim("idle")]
        /\ UNCHANGED <<documents, ahead>>

Complete(k) == /\ worker[k].pc = "completing"
               /\ HoldsLease(k)
               /\ Settle(k, [status |-> "ready", failure |-> "none",
                             ready |-> worker[k].document])

\* Mutant: a failure forgets the document that was ready before.
FailedRowForgets(s) == [status |-> "failed", failure |-> "stage_failed", ready |-> None]

FailedRow(s) == [source[s] EXCEPT !.status = "failed", !.failure = "stage_failed"]

Fail(k) == /\ worker[k].pc = "failing"
           /\ HoldsLease(k)
           /\ Settle(k, FailedRow(work[worker[k].work].source))

\* Mutant: the worker repeats fail() until it succeeds.
RepeatFail(k) == worker[k].pc = "failing" /\ UNCHANGED vars

\* fail() itself raises, because the lease is gone or the database is; the
\* worker loop swallows the exception and polls again.
Abandon(k) == /\ worker[k].pc = "failing"
              /\ worker' = [worker EXCEPT ![k] = NoClaim("idle")]
              /\ UNCHANGED rows

-----------------------------------------------------------------------------
(* Time and processes.                                                     *)

Tick == /\ \E w \in Leased : work[w].left >= 0
        /\ work' = [w \in Works |-> IF w \in Leased /\ work[w].left >= 0
                                    THEN [work[w] EXCEPT !.left = @ - 1]
                                    ELSE work[w]]
        /\ UNCHANGED <<source, documents, attempts, ahead, worker>>

Crash(k) == /\ worker[k].pc \in Stages
            /\ worker' = [worker EXCEPT ![k] = NoClaim("down")]
            /\ UNCHANGED rows

Restart(k) == /\ worker[k].pc = "down"
              /\ worker' = [worker EXCEPT ![k] = NoClaim("idle")]
              /\ UNCHANGED rows

Command == \E s \in Sources, w \in Works :
              CreateSource(s, w) \/ Retry(s, w) \/ Reprocess(s, w)

\* What a live worker does with its claim.
Proceed(k) == \/ FinishStages(k)
              \/ Publish(k)
              \/ Release(k)
              \/ StageError(k)
              \/ LeaseUnavailable(k)
              \/ Complete(k)
              \/ Fail(k)
              \/ Abandon(k)

Next == \/ Command
        \/ Tick
        \/ \E k \in Workers : Claim(k) \/ Proceed(k) \/ Crash(k) \/ Restart(k)

Spec == Init /\ [][Next]_vars

\* Time passes, a live worker finishes what it began (its calls have time
\* limits), a stopped one is started again, and idle workers keep polling.
Fairness == /\ WF_vars(Tick)
            /\ WF_vars(\E k \in Workers : Claim(k))
            /\ \A k \in Workers : WF_vars(Proceed(k)) /\ WF_vars(Restart(k))

FairSpec == Spec /\ Fairness

-----------------------------------------------------------------------------
(* Properties.                                                             *)

\* The check of migration 002 on the lease columns of ingestion_work.
LeaseColumns == \A w \in Works : work[w].holder = None <=> work[w].status # "leased"

\* Every row and every process has the values of its columns and variables,
\* and the lease columns of a row are set exactly while it is leased.
TypeOK == /\ source \in [Sources -> Lifecycle!SourceRow]
          /\ documents \in [Sources -> SUBSET Documents]
          /\ work \in [Works -> WorkRow]
          /\ attempts \in [Works -> SUBSET Workers]
          /\ ahead \in [Works -> SUBSET Works]
          /\ worker \in [Workers -> WorkerState]
          /\ LeaseColumns
          /\ \A w \in Active : work[w].source \in Sources
          /\ \A k \in Workers : worker[k].pc \in Stages => worker[k].work \in Works

\* Two active rows are for two sources: the commands of the API and the
\* recovery of leases never race a second row in behind the first, so the
\* partial unique index of migration 002 never has to reject one.
OneActiveWork == \A v, w \in Active : work[v].source = work[w].source => v = w

\* A leased row has exactly one attempt still processing, the holder's, and
\* its source is processing; any other row has none, and the source of a
\* pending row is pending.  Claim, recovery, completion and failure each
\* update the three tables without testing the other two.
LeaseAgreement ==
    \A w \in Works :
        /\ w \in Leased  => /\ attempts[w] = {work[w].holder}
                            /\ source[work[w].source].status = "processing"
        /\ w \notin Leased => attempts[w] = {}
        /\ w \in Pending => source[work[w].source].status = "pending"

\* A source that is pending or processing has active work.  Without it no
\* worker would take the source and no command would accept it: Retry wants
\* it failed and Reprocess ready.
NoStrandedSource ==
    \A s \in Sources : source[s].status \in {"pending", "processing"}
                          => \E w \in Active : work[w].source = s

\* The latest ready document of a source has been published for that source,
\* though publication and completion are two transactions with a graph
\* release, lease expiries and other workers in between.
ReadyIsPublished == \A s \in Sources : source[s].ready \in documents[s] \cup {None}

\* k settles or publishes under the lease of row w.
UnderLease(k, w) == /\ worker[k].work = w
                    /\ w \in Leased
                    /\ work[w].holder = k

\* A step that changes a source in processing recovers its expired lease, or
\* is the completion or the failure of the holder of its lease.
OwnedSettlement(s) ==
    source[s].status = "processing" /\ source'[s] # source[s]
      => \/ \E w \in Expired : work[w].source = s
         \/ \E k \in Workers, w \in Works :
               /\ UnderLease(k, w) /\ work[w].source = s
               /\ worker[k].pc \in {"completing", "failing"}
               /\ worker'[k].pc = "idle"

\* A step that publishes a document of a source is that of the holder.
OwnedPublication(s) ==
    documents'[s] # documents[s]
      => \E k \in Workers, w \in Works :
            /\ UnderLease(k, w) /\ work[w].source = s
            /\ worker[k].pc = "publishing"
            /\ worker'[k].pc = "releasing"

\* Only the holder of the lease publishes documents of a source or ends its
\* processing; a worker that outlived its lease changes nothing, even while
\* another worker is processing the same row.  The one other way out of
\* processing is the recovery of an expired lease.
LostLeaseIsInert ==
    [][\A s \in Sources : OwnedSettlement(s) /\ OwnedPublication(s)]_vars

\* The queue implements the state machine of the Go domain.
ImplementsLifecycle == Lifecycle!Spec

\* Every pending row is claimed, although workers crash and abandoned rows
\* return to the queue again and again.
PendingIsClaimed == \A w \in Works : w \in Pending ~> w \in Leased

\* No row stays under a lease that ran out, whatever became of its holder.
ExpiredIsRecovered == \A w \in Works : w \in Expired ~> w \notin Expired
=============================================================================
