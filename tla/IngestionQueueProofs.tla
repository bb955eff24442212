------------------------- MODULE IngestionQueueProofs -------------------------
(***************************************************************************)
(* Proofs about IngestionQueue for any sets of sources, rows, workers and  *)
(* documents and any lease duration.  The inductive invariant adds to the  *)
(* checked invariants only what a worker knows of its own claim: the       *)
(* document it carries was published under the lease it still holds.       *)
(***************************************************************************)
EXTENDS IngestionQueue, TLAPS

\* A worker that published under the lease it still holds carries a document
\* of the source it works for.
CarriesPublished ==
    \A k \in Workers :
        /\ worker[k].pc \in {"publishing", "releasing", "completing"}
              => worker[k].document \in Documents
        /\ \A w \in Works :
              /\ worker[k].pc \in {"releasing", "completing"}
              /\ UnderLease(k, w)
              => worker[k].document \in documents[work[w].source]

IInv == /\ TypeOK
        /\ OneActiveWork
        /\ LeaseAgreement
        /\ NoStrandedSource
        /\ ReadyIsPublished
        /\ CarriesPublished

\* The invariants that speak of the tables alone.
RowsInv == OneActiveWork /\ LeaseAgreement /\ NoStrandedSource
           /\ ReadyIsPublished

USE DEF Stages, Lifecycle!SourceRow, Lifecycle!SourceStatus, Lifecycle!Failures,
        WorkRow, WorkerState, Pending, Leased, Active

-----------------------------------------------------------------------------
(* Steps of a process that touch no row.                                   *)

LEMMA RowsInvUnchanged == ASSUME RowsInv, UNCHANGED rows PROVE RowsInv'
BY DEF RowsInv, rows, OneActiveWork, LeaseAgreement, NoStrandedSource,
       ReadyIsPublished

\* A process reaches its next call: nothing it carries changes, unless it
\* has just made it or no longer needs it.
LEMMA ReachPreserves ==
    ASSUME IInv, NEW k \in Workers,
           NEW pc \in {"publishing", "completing", "failing"},
           NEW d \in Documents \cup {None},
           Reach(k, pc, d),
           worker[k].pc \in Stages,
           pc = "publishing" => d \in Documents,
           pc = "completing" => worker[k].pc = "releasing" /\ d = worker[k].document
    PROVE  IInv'
<1>1. TypeOK'
  <2>1. worker' \in [Workers -> WorkerState]
    BY DEF IInv, TypeOK, Reach, InTime
  <2>2. \A j \in Workers : worker'[j].pc \in Stages => worker'[j].work \in Works
    BY DEF IInv, TypeOK, Reach
  <2>3. QED
    BY <2>1, <2>2 DEF IInv, TypeOK, LeaseColumns, Reach, rows
<1>2. RowsInv'
  BY RowsInvUnchanged DEF Reach, IInv, RowsInv
<1>3. CarriesPublished'
  BY DEF IInv, TypeOK, CarriesPublished, UnderLease, Reach, rows
<1>4. QED
  BY <1>1, <1>2, <1>3 DEF IInv, RowsInv

\* A process lets go of its claim.
LEMMA ForgetPreserves ==
    ASSUME IInv, NEW k \in Workers, NEW pc \in {"idle", "down"},
           worker' = [worker EXCEPT ![k] = NoClaim(pc)], UNCHANGED rows
    PROVE  IInv'
<1>1. TypeOK'
  BY DEF IInv, TypeOK, LeaseColumns, rows, NoClaim
<1>2. RowsInv'
  BY RowsInvUnchanged DEF IInv, RowsInv
<1>3. CarriesPublished'
  BY DEF IInv, TypeOK, CarriesPublished, UnderLease, NoClaim, rows
<1>4. QED
  BY <1>1, <1>2, <1>3 DEF IInv, RowsInv

\* A source without active work gets a pending row, behind all others.
LEMMA EnqueuePreserves ==
    ASSUME IInv, NEW s \in Sources, NEW w \in Works, NEW row \in Lifecycle!SourceRow,
           source[s].status \notin {"pending", "processing"},
           row.status = "pending", row.ready \in {source[s].ready, None},
           source' = [source EXCEPT ![s] = row],
           Enqueue(s, w)
    PROVE  IInv'
<1> USE NoneAssumption DEF IInv, TypeOK, Enqueue, PendingWork
<1>1. \A v \in Active : work[v].source # s
  BY DEF LeaseAgreement
<1>2. /\ Pending' = Pending \cup {w}
      /\ Leased' = Leased
      /\ w \notin Active
      /\ \A v \in Works \ {w} : work'[v] = work[v]
      /\ work'[w].source = s
  OBVIOUS
<1>3. TypeOK'
  <2>1. work' \in [Works -> WorkRow]
    BY LeaseAssumption
  <2>2. LeaseColumns'
    BY <1>2 DEF LeaseColumns
  <2>3. QED
    BY <2>1, <2>2, <1>2
<1>4. OneActiveWork'
  BY <1>1, <1>2 DEF OneActiveWork
<1>5. LeaseAgreement'
  BY <1>1, <1>2 DEF LeaseAgreement
<1>6. NoStrandedSource'
  BY <1>2 DEF NoStrandedSource
<1>7. ReadyIsPublished'
  BY DEF ReadyIsPublished
<1>8. CarriesPublished'
  BY <1>2 DEF CarriesPublished, UnderLease
<1>9. QED
  BY <1>3, <1>4, <1>5, <1>6, <1>7, <1>8

\* Publication adds a document to the source of the row it holds.
LEMMA PublishPreserves ==
    ASSUME IInv, NEW k \in Workers, Publish(k)
    PROVE  IInv'
<1> DEFINE w == worker[k].work
<1> USE DEF IInv, TypeOK, Publish, PublishedDocuments
<1>1. /\ w \in Leased /\ work[w].holder = k
      /\ work[w].source \in Sources
      /\ worker[k].document \in Documents
  BY DEF HoldsLease, CarriesPublished
<1>2. TypeOK'
  <2>1. documents' \in [Sources -> SUBSET Documents]
    BY <1>1
  <2>2. worker' \in [Workers -> WorkerState]
    OBVIOUS
  <2>3. LeaseColumns'
    BY DEF LeaseColumns
  <2>4. QED
    BY <2>1, <2>2, <2>3
<1>3. OneActiveWork' /\ LeaseAgreement' /\ NoStrandedSource'
  BY DEF OneActiveWork, LeaseAgreement, NoStrandedSource
<1>4. \A s \in Sources : documents[s] \subseteq documents'[s]
  BY <1>1
<1>5. ReadyIsPublished'
  BY <1>4 DEF ReadyIsPublished
<1>6. CarriesPublished'
  BY <1>1, <1>4 DEF CarriesPublished, UnderLease
<1>7. QED
  BY <1>2, <1>3, <1>5, <1>6

\* Completion and failure: the holder of a lease gives its source a terminal
\* row, ends the only attempt and frees the only active row of that source.
LEMMA SettlePreserves ==
    ASSUME IInv, NEW k \in Workers, NEW row \in Lifecycle!SourceRow,
           worker[k].pc \in Stages, HoldsLease(k), Settle(k, row),
           row.status \in {"ready", "failed"},
           row.ready \in documents[work[worker[k].work].source] \cup {None}
    PROVE  IInv'
<1> DEFINE w == worker[k].work
           s == work[w].source
<1> USE DEF IInv, TypeOK, FreeWork, NoClaim
<1>1. /\ w \in Leased /\ work[w].holder = k
      /\ s \in Sources
      /\ attempts[w] = {k}
  BY DEF HoldsLease, LeaseAgreement
<1>2. /\ source'   = [source EXCEPT ![s] = row]
      /\ work'     = [work EXCEPT ![w] = FreeWork]
      /\ attempts' = [attempts EXCEPT ![w] = @ \ {k}]
      /\ worker'   = [worker EXCEPT ![k] = NoClaim("idle")]
      /\ UNCHANGED <<documents, ahead>>
  BY DEF Settle
<1>3. /\ Pending' = Pending
      /\ Leased' = Leased \ {w}
      /\ \A v \in Works \ {w} : work'[v] = work[v] /\ attempts'[v] = attempts[v]
      /\ attempts'[w] = {}
  BY <1>1, <1>2
<1>4. \A v \in Active \ {w} : work[v].source # s
  BY <1>1 DEF OneActiveWork
<1>5. TypeOK'
  <2>1. work' \in [Works -> WorkRow]
    BY <1>2, LeaseAssumption
  <2>2. worker' \in [Workers -> WorkerState]
    BY <1>2
  <2>3. LeaseColumns'
    BY <1>2, <1>3 DEF LeaseColumns
  <2>4. QED
    BY <1>1, <1>2, <1>3, <2>1, <2>2, <2>3
<1>6. OneActiveWork'
  BY <1>1, <1>3 DEF OneActiveWork
<1>7. LeaseAgreement'
  <2>1. \A v \in Active \ {w} : source'[work[v].source] = source[work[v].source]
    BY <1>2, <1>4
  <2>2. \A v \in Leased' : v \in Leased \ {w} /\ work'[v] = work[v] /\ attempts'[v] = attempts[v]
    BY <1>3
  <2>3. \A v \in Pending' : v \in Pending \ {w} /\ work'[v] = work[v]
    BY <1>1, <1>3
  <2>4. \A v \in Leased' : /\ attempts'[v] = {work'[v].holder}
                           /\ source'[work'[v].source].status = "processing"
    BY <2>1, <2>2 DEF LeaseAgreement
  <2>5. \A v \in Works : v \notin Leased' => attempts'[v] = {}
    BY <1>3 DEF LeaseAgreement
  <2>6. \A v \in Pending' : source'[work'[v].source].status = "pending"
    BY <2>1, <2>3 DEF LeaseAgreement
  <2>7. QED
    BY <2>4, <2>5, <2>6 DEF LeaseAgreement
<1>8. NoStrandedSource'
  BY <1>1, <1>2, <1>3 DEF NoStrandedSource
<1>9. ReadyIsPublished'
  BY <1>1, <1>2 DEF ReadyIsPublished
<1>10. CarriesPublished'
  BY <1>1, <1>2, <1>3 DEF CarriesPublished, UnderLease
<1>11. QED
  BY <1>5, <1>6, <1>7, <1>8, <1>9, <1>10

\* The clock only shortens leases.
LEMMA TickPreserves ==
    ASSUME IInv, Tick
    PROVE  IInv'
<1> USE DEF IInv
<1>1. UNCHANGED <<source, documents, attempts, ahead, worker>>
  BY DEF Tick
<1>2. \A w \in Works : /\ work'[w] \in WorkRow
                      /\ work'[w].status = work[w].status
                      /\ work'[w].source = work[w].source
                      /\ work'[w].holder = work[w].holder
  <2>1. TAKE w \in Works
  <2>2. work[w] \in WorkRow
    BY DEF TypeOK
  <2>3. \/ work'[w] = [work[w] EXCEPT !.left = @ - 1] /\ work[w].left >= 0
        \/ work'[w] = work[w]
    BY DEF Tick
  <2>4. QED
    BY <2>2, <2>3, LeaseAssumption
<1>3. Pending' = Pending /\ Leased' = Leased /\ Active' = Active
  BY <1>2
<1>4. TypeOK'
  <2>1. work' \in [Works -> WorkRow]
    <3>1. work' = [w \in Works |-> work'[w]]
      BY DEF Tick
    <3>2. QED
      BY <1>2, <3>1
  <2>2. LeaseColumns'
    BY <1>2 DEF TypeOK, LeaseColumns
  <2>3. QED
    BY <1>1, <1>2, <1>3, <2>1, <2>2 DEF TypeOK
<1>5. OneActiveWork' /\ LeaseAgreement'
  BY <1>1, <1>2, <1>3 DEF OneActiveWork, LeaseAgreement
<1>6. NoStrandedSource'
  BY <1>1, <1>2, <1>3 DEF NoStrandedSource
<1>7. ReadyIsPublished'
  BY <1>1, <1>2, <1>3 DEF ReadyIsPublished
<1>8. CarriesPublished'
  BY <1>1, <1>2, <1>3 DEF CarriesPublished, UnderLease
<1>9. QED
  BY <1>4, <1>5, <1>6, <1>7, <1>8

-----------------------------------------------------------------------------
(* The claim.                                                              *)

\* What recovery leaves behind, before the oldest row is leased.
LEMMA RecoveryFacts ==
    ASSUME IInv
    PROVE  /\ \A v \in Expired : /\ RecoveredWork[v] = PendingWork(work[v].source)
                                 /\ RecoveredAttempts[v] = {}
                                 /\ RecoveredSource[work[v].source].status = "pending"
           /\ \A v \in Works \ Expired : /\ RecoveredWork[v] = work[v]
                                         /\ RecoveredAttempts[v] = attempts[v]
           /\ \A s \in Sources :
                 /\ RecoveredSource[s].ready = source[s].ready
                 /\ (\A v \in Expired : work[v].source # s) => RecoveredSource[s] = source[s]
           /\ RecoveredSource \in [Sources -> Lifecycle!SourceRow]
           /\ RecoveredWork \in [Works -> WorkRow]
           /\ RecoveredAttempts \in [Works -> SUBSET Workers]
           /\ RecoveredAhead \in [Works -> SUBSET Works]
<1> USE DEF IInv, TypeOK, Expired
<1>1. \A v \in Expired : /\ RecoveredWork[v] = PendingWork(work[v].source)
                         /\ RecoveredAttempts[v] = {}
  BY DEF RecoveredWork, RecoveredAttempts
<1>2. \A v \in Works \ Expired : /\ RecoveredWork[v] = work[v]
                                 /\ RecoveredAttempts[v] = attempts[v]
  BY DEF RecoveredWork, RecoveredAttempts
<1>3. \A s \in Sources : source[s] \in Lifecycle!SourceRow
  OBVIOUS
<1>4. \A s \in Sources :
         /\ (\E v \in Expired : work[v].source = s)
              => /\ RecoveredSource[s].status = "pending"
                 /\ RecoveredSource[s] \in Lifecycle!SourceRow
         /\ RecoveredSource[s].ready = source[s].ready
         /\ (\A v \in Expired : work[v].source # s) => RecoveredSource[s] = source[s]
  <2>1. TAKE s \in Sources
  <2>2. source[s] \in Lifecycle!SourceRow
    BY <1>3
  <2>3. CASE \E v \in Expired : work[v].source = s
    <3>1. RecoveredSource[s] = [source[s] EXCEPT !.status = "pending", !.failure = "lease_expired"]
      BY <2>3 DEF RecoveredSource
    <3>2. QED
      BY <2>2, <2>3, <3>1
  <2>4. CASE ~ \E v \in Expired : work[v].source = s
    BY <2>4 DEF RecoveredSource
  <2>5. QED
    BY <2>3, <2>4
<1>5. \A v \in Expired : RecoveredSource[work[v].source].status = "pending"
  BY <1>4
<1>6. RecoveredSource \in [Sources -> Lifecycle!SourceRow]
  <2>1. RecoveredSource = [s \in Sources |-> RecoveredSource[s]]
    BY DEF RecoveredSource
  <2>2. \A s \in Sources : RecoveredSource[s] \in Lifecycle!SourceRow
    BY <1>3, <1>4
  <2>3. QED
    BY <2>1, <2>2
<1>7. RecoveredWork \in [Works -> WorkRow]
  BY LeaseAssumption DEF RecoveredWork, PendingWork
<1>8. /\ RecoveredAttempts \in [Works -> SUBSET Workers]
      /\ RecoveredAhead \in [Works -> SUBSET Works]
  BY DEF RecoveredAttempts, RecoveredAhead
<1>9. QED
  BY <1>1, <1>2, <1>4, <1>5, <1>6, <1>7, <1>8

LEMMA ClaimPreserves ==
    ASSUME IInv, NEW k \in Workers, Claim(k)
    PROVE  IInv'
<1> USE DEF IInv
<1>1. PICK w \in Works :
        /\ RecoveredWork[w].status = "pending"
        /\ source' = [RecoveredSource EXCEPT ![work[w].source].status = "processing"]
        /\ work' = [RecoveredWork EXCEPT ![w] = LeasedWork(work[w].source, k)]
        /\ attempts' = [RecoveredAttempts EXCEPT ![w] = @ \cup {k}]
        /\ ahead' = [x \in Works |-> RecoveredAhead[x] \ {w}]
        /\ worker' = [worker EXCEPT ![k] = Claimed(w)]
  BY DEF Claim
<1>2. documents' = documents
  BY DEF Claim
<1> DEFINE s == work[w].source
<1> HIDE DEF s
<1>3. w \in Pending \cup Expired /\ Expired \subseteq Leased
  BY <1>1, RecoveryFacts DEF Expired
<1>4. s \in Sources
  BY <1>3 DEF TypeOK, s
<1>5. /\ \A v \in Expired \ {w} : work'[v] = PendingWork(work[v].source) /\ attempts'[v] = {}
      /\ \A v \in Works \ Expired : v # w => work'[v] = work[v] /\ attempts'[v] = attempts[v]
      /\ work'[w] = LeasedWork(s, k)
      /\ attempts'[w] = {k}
  <2>1. RecoveredAttempts[w] = {}
    BY <1>3, RecoveryFacts DEF LeaseAgreement
  <2>2. QED
    BY <1>1, <1>3, <2>1, RecoveryFacts DEF Expired, s
<1>5a. \A v \in Expired \ {w} : /\ work'[v].status = "pending"
                                /\ work'[v].source = work[v].source
  <2>1. \A x : PendingWork(x).status = "pending" /\ PendingWork(x).source = x
    BY DEF PendingWork
  <2>2. QED
    BY <1>5, <2>1
<1>6. /\ Leased' = (Leased \ Expired) \cup {w}
      /\ Pending' = (Pending \cup Expired) \ {w}
      /\ Active' = Active
  <2>1. \A v \in Works : work'[v].status = IF v = w THEN "leased"
                                           ELSE IF v \in Expired THEN "pending"
                                           ELSE work[v].status
    <3>1. TAKE v \in Works
    <3>2. CASE v = w
      BY <1>5, <3>2 DEF LeasedWork
    <3>3. CASE v \in Expired \ {w}
      BY <1>5a, <3>3
    <3>4. CASE v \notin Expired /\ v # w
      BY <1>5, <3>4
    <3>5. QED
      BY <3>2, <3>3, <3>4
  <2>2. Leased' = (Leased \ Expired) \cup {w}
    BY <1>3, <2>1
  <2>3. Pending' = (Pending \cup Expired) \ {w}
    BY <1>3, <2>1
  <2>4. QED
    BY <1>3, <2>2, <2>3
<1>7. \A v \in Active : work'[v].source = work[v].source
  <2>1. TAKE v \in Active
  <2>2. CASE v = w
    BY <1>5, <2>2 DEF LeasedWork, s
  <2>3. CASE v \in Expired \ {w}
    BY <1>5a, <2>3
  <2>4. CASE v \in Works \ Expired /\ v # w
    BY <1>5, <2>4
  <2>5. QED
    BY <2>2, <2>3, <2>4
<1>8. OneActiveWork'
  BY <1>6, <1>7 DEF OneActiveWork
<1>9. /\ source'[s].status = "processing"
      /\ \A v \in Expired \ {w} : source'[work[v].source].status = "pending"
      /\ \A v \in Active \ (Expired \cup {w}) :
            source'[work[v].source] = source[work[v].source]
      /\ \A x \in Sources : source'[x].ready = source[x].ready
      /\ \A x \in Sources : source'[x] # source[x] => \E v \in Active : work[v].source = x
  <2>1. /\ \A x \in Sources \ {s} : source'[x] = RecoveredSource[x]
        /\ source'[s] = [RecoveredSource[s] EXCEPT !.status = "processing"]
    BY <1>1, <1>4, RecoveryFacts DEF s
  <2>2. source'[s].status = "processing" /\ source'[s].ready = source[s].ready
    <3>1. RecoveredSource[s] \in Lifecycle!SourceRow
      BY <1>4, RecoveryFacts
    <3>2. QED
      BY <1>4, <2>1, <3>1, RecoveryFacts
  <2>3. \A v \in Active \ {w} : work[v].source # s /\ work[v].source \in Sources
    BY <1>3 DEF OneActiveWork, TypeOK, s
  <2>4. \A v \in Expired \ {w} : source'[work[v].source].status = "pending"
    BY <1>3, <2>1, <2>3, RecoveryFacts
  <2>5. \A v \in Active \ (Expired \cup {w}) : source'[work[v].source] = source[work[v].source]
    <3>1. TAKE v \in Active \ (Expired \cup {w})
    <3>2. \A u \in Expired : work[u].source # work[v].source
      BY <1>3 DEF OneActiveWork
    <3>3. QED
      BY <2>1, <2>3, <3>2, RecoveryFacts
  <2>6. \A x \in Sources : source'[x].ready = source[x].ready
    BY <2>1, <2>2, RecoveryFacts
  <2>7. \A x \in Sources : source'[x] # source[x] => \E v \in Active : work[v].source = x
    BY <1>3, <2>1, RecoveryFacts DEF s
  <2>8. QED
    BY <2>2, <2>4, <2>5, <2>6, <2>7
<1>10. LeaseAgreement'
  <2>1. \A v \in Leased' : /\ attempts'[v] = {work'[v].holder}
                           /\ source'[work'[v].source].status = "processing"
    <3>1. TAKE v \in Leased'
    <3>2. CASE v = w
      BY <1>5, <1>9, <3>2 DEF LeasedWork
    <3>3. CASE v \in Leased \ (Expired \cup {w})
      BY <1>5, <1>9, <3>3 DEF LeaseAgreement
    <3>4. QED
      BY <1>6, <3>2, <3>3
  <2>2. \A v \in Works \ Leased' : attempts'[v] = {}
    BY <1>5, <1>6 DEF LeaseAgreement
  <2>3. \A v \in Pending' : source'[work'[v].source].status = "pending"
    <3>1. TAKE v \in Pending'
    <3>2. CASE v \in Expired \ {w}
      BY <1>3, <1>7, <1>9, <3>2
    <3>3. CASE v \in Pending \ (Expired \cup {w})
      BY <1>5, <1>9, <3>3 DEF LeaseAgreement
    <3>4. QED
      BY <1>6, <3>2, <3>3
  <2>4. QED
    BY <2>1, <2>2, <2>3 DEF LeaseAgreement
<1>11. NoStrandedSource'
  <2>1. SUFFICES ASSUME NEW x \in Sources, source'[x].status \in {"pending", "processing"}
                 PROVE  \E v \in Active : work[v].source = x
    BY <1>6, <1>7 DEF NoStrandedSource
  <2>2. CASE source'[x] = source[x]
    BY <2>1, <2>2 DEF NoStrandedSource
  <2>3. QED
    BY <1>9, <2>2
<1>12. ReadyIsPublished'
  BY <1>2, <1>9 DEF ReadyIsPublished
<1>13. LeaseColumns'
  <2>1. SUFFICES ASSUME NEW v \in Works
                 PROVE  work'[v].holder = None <=> work'[v].status # "leased"
    BY DEF LeaseColumns
  <2>2. CASE v = w
    BY <1>5, <2>2, NoneAssumption DEF LeasedWork
  <2>3. CASE v \in Expired \ {w}
    <3>1. PendingWork(work[v].source).status = "pending" /\ PendingWork(work[v].source).holder = None
      BY DEF PendingWork
    <3>2. QED
      BY <1>5, <2>3, <3>1
  <2>4. CASE v \notin Expired /\ v # w
    BY <1>5, <2>4 DEF TypeOK, LeaseColumns
  <2>5. QED
    BY <2>2, <2>3, <2>4
<1>14. TypeOK'
  <2>1. source' \in [Sources -> Lifecycle!SourceRow]
    <3>1. \A x \in Sources : [RecoveredSource[x] EXCEPT !.status = "processing"]
                                \in Lifecycle!SourceRow
      <4>1. TAKE x \in Sources
      <4>2. RecoveredSource[x] \in Lifecycle!SourceRow
        BY RecoveryFacts
      <4>3. QED
        BY <4>2
    <3>2. QED
      BY <1>1, <1>4, <3>1, RecoveryFacts DEF s
  <2>2. work' \in [Works -> WorkRow]
    <3>1. LeasedWork(s, k) \in WorkRow
      BY <1>4, LeaseAssumption DEF LeasedWork
    <3>2. QED
      BY <1>1, <3>1, RecoveryFacts DEF s
  <2>3. attempts' \in [Works -> SUBSET Workers] /\ ahead' \in [Works -> SUBSET Works]
    BY <1>1, RecoveryFacts
  <2>4. worker' \in [Workers -> WorkerState]
    BY <1>1 DEF TypeOK, Claimed
  <2>5. \A v \in Active' : work'[v].source \in Sources
    BY <1>6, <1>7 DEF TypeOK
  <2>6. \A j \in Workers : worker'[j].pc \in Stages => worker'[j].work \in Works
    BY <1>1 DEF TypeOK, Claimed
  <2>7. QED
    BY <1>2, <1>13, <2>1, <2>2, <2>3, <2>4, <2>5, <2>6 DEF TypeOK
<1>15. CarriesPublished'
  <2>1. worker'[k] = Claimed(w) /\ \A j \in Workers \ {k} : worker'[j] = worker[j]
    BY <1>1 DEF TypeOK
  <2>2. \A j \in Workers, v \in Works :
           UnderLease(j, v)' /\ j # k => UnderLease(j, v) /\ work'[v] = work[v]
    BY <1>5, <1>6, <2>1 DEF UnderLease, LeasedWork
  <2>3. QED
    BY <1>2, <2>1, <2>2 DEF CarriesPublished, Claimed, UnderLease
<1>16. QED
  BY <1>8, <1>10, <1>11, <1>12, <1>14, <1>15

-----------------------------------------------------------------------------
(* The inductive invariant.                                                *)

LEMMA InitEstablishes == Init => IInv
BY LeaseAssumption
   DEF Init, IInv, TypeOK, OneActiveWork, LeaseAgreement, NoStrandedSource,
       ReadyIsPublished, CarriesPublished, LeaseColumns, UnderLease,
       Lifecycle!NoSource, FreeWork, NoClaim

LEMMA CommandPreserves ==
    ASSUME IInv, Command
    PROVE  IInv'
<1>1. PICK s \in Sources, w \in Works :
        CreateSource(s, w) \/ Retry(s, w) \/ Reprocess(s, w)
  BY DEF Command
<1>2. source[s] \in Lifecycle!SourceRow
  BY DEF IInv, TypeOK
<1>3. CASE CreateSource(s, w)
  <2> DEFINE row == Lifecycle!CreatedSource
  <2>1. /\ row \in Lifecycle!SourceRow
        /\ row.status = "pending" /\ row.ready = None
    BY DEF Lifecycle!CreatedSource
  <2>2. source[s].status \notin {"pending", "processing"}
    BY <1>3 DEF CreateSource
  <2>3. source' = [source EXCEPT ![s] = row] /\ Enqueue(s, w)
    BY <1>3 DEF CreateSource
  <2>4. QED
    BY <2>1, <2>2, <2>3, EnqueuePreserves
<1>4. CASE Retry(s, w) \/ Reprocess(s, w)
  <2> DEFINE row == [source[s] EXCEPT !.status = "pending", !.failure = "none"]
  <2>1. /\ row \in Lifecycle!SourceRow
        /\ row.status = "pending" /\ row.ready = source[s].ready
    BY <1>2
  <2>2. source[s].status \notin {"pending", "processing"}
    BY <1>4 DEF Retry, Reprocess, QueueLifecycle, StatusRequired
  <2>3. source' = [source EXCEPT ![s] = row] /\ Enqueue(s, w)
    BY <1>4 DEF Retry, Reprocess, QueueLifecycle
  <2>4. QED
    BY <2>1, <2>2, <2>3, EnqueuePreserves
<1>5. QED
  BY <1>1, <1>3, <1>4

\* The rows Complete and Fail write.
LEMMA TerminalRows ==
    ASSUME IInv, NEW k \in Workers, HoldsLease(k), worker[k].pc \in Stages
    PROVE  LET s == work[worker[k].work].source
               row == [status |-> "ready", failure |-> "none",
                       ready |-> worker[k].document]
           IN  /\ s \in Sources
               /\ source[s].status = "processing"
               /\ FailedRow(s) \in Lifecycle!SourceRow
               /\ FailedRow(s).status = "failed"
               /\ FailedRow(s).failure = "stage_failed"
               /\ FailedRow(s).ready = source[s].ready
               /\ source[s].ready \in documents[s] \cup {None}
               /\ worker[k].pc = "completing"
                     => row \in Lifecycle!SourceRow /\ row.ready \in documents[s]
<1> DEFINE w == worker[k].work
           s == work[w].source
<1>1. w \in Leased /\ work[w].holder = k /\ s \in Sources
  BY DEF HoldsLease, IInv, TypeOK
<1>2. source[s].status = "processing" /\ source[s] \in Lifecycle!SourceRow
  BY <1>1 DEF IInv, LeaseAgreement, TypeOK
<1>3. source[s].ready \in documents[s] \cup {None}
  BY <1>1 DEF IInv, ReadyIsPublished
<1>4. worker[k].pc = "completing"
        => worker[k].document \in Documents /\ worker[k].document \in documents[s]
  BY <1>1 DEF IInv, CarriesPublished, UnderLease
<1>5. QED
  BY <1>1, <1>2, <1>3, <1>4 DEF FailedRow

LEMMA ProceedPreserves ==
    ASSUME IInv, NEW k \in Workers, Proceed(k)
    PROVE  IInv'
<1>1. CASE FinishStages(k)
  <2>1. PICK d \in Documents : Reach(k, "publishing", d)
    BY <1>1 DEF FinishStages
  <2>2. QED
    BY <1>1, <2>1, ReachPreserves DEF FinishStages
<1>2. CASE Publish(k)
  BY <1>2, PublishPreserves
<1>3. CASE Release(k)
  <2>1. worker[k].document \in Documents
    BY <1>3 DEF Release, IInv, CarriesPublished
  <2>2. QED
    BY <1>3, <2>1, ReachPreserves DEF Release
<1>4. CASE StageError(k)
  BY <1>4, ReachPreserves DEF StageError
<1>5. CASE LeaseUnavailable(k)
  BY <1>5, ReachPreserves DEF LeaseUnavailable
<1>6. CASE Complete(k)
  <2> DEFINE row == [status |-> "ready", failure |-> "none", ready |-> worker[k].document]
  <2>1. /\ worker[k].pc = "completing" /\ worker[k].pc \in Stages
        /\ HoldsLease(k) /\ Settle(k, row)
    BY <1>6 DEF Complete
  <2>2. /\ row \in Lifecycle!SourceRow
        /\ row.ready \in documents[work[worker[k].work].source] \cup {None}
    BY <2>1, TerminalRows
  <2>3. row.status = "ready"
    OBVIOUS
  <2> HIDE DEF row
  <2>4. QED
    BY <2>1, <2>2, <2>3, SettlePreserves
<1>7. CASE Fail(k)
  <2> DEFINE row == FailedRow(work[worker[k].work].source)
  <2>1. /\ worker[k].pc \in Stages
        /\ HoldsLease(k) /\ Settle(k, row)
    BY <1>7 DEF Fail
  <2>2. /\ row \in Lifecycle!SourceRow /\ row.status = "failed"
        /\ row.ready \in documents[work[worker[k].work].source] \cup {None}
    BY <2>1, TerminalRows
  <2> HIDE DEF row
  <2>3. QED
    BY <2>1, <2>2, SettlePreserves
<1>8. CASE Abandon(k)
  BY <1>8, ForgetPreserves DEF Abandon
<1>9. QED
  BY <1>1, <1>2, <1>3, <1>4, <1>5, <1>6, <1>7, <1>8 DEF Proceed

LEMMA NextPreserves == IInv /\ [Next]_vars => IInv'
<1> SUFFICES ASSUME IInv, [Next]_vars PROVE IInv'
  OBVIOUS
<1>1. CASE Command
  BY <1>1, CommandPreserves
<1>2. CASE Tick
  BY <1>2, TickPreserves
<1>3. ASSUME NEW k \in Workers, Claim(k) PROVE IInv'
  BY <1>3, ClaimPreserves
<1>4. ASSUME NEW k \in Workers, Proceed(k) PROVE IInv'
  BY <1>4, ProceedPreserves
<1>5. ASSUME NEW k \in Workers, Crash(k) \/ Restart(k) PROVE IInv'
  BY <1>5, ForgetPreserves DEF Crash, Restart
<1>6. CASE UNCHANGED vars
  BY <1>6 DEF vars, rows, IInv, TypeOK, OneActiveWork, LeaseAgreement, NoStrandedSource,
              ReadyIsPublished, CarriesPublished, LeaseColumns, UnderLease
<1>7. QED
  BY <1>1, <1>2, <1>3, <1>4, <1>5, <1>6 DEF Next

\* The inductive invariant holds in every reachable state.
THEOREM Invariance == Spec => []IInv
<1>1. Init => IInv
  BY InitEstablishes
<1>2. IInv /\ [Next]_vars => IInv'
  BY NextPreserves
<1>3. QED
  BY <1>1, <1>2, PTL DEF Spec

-----------------------------------------------------------------------------
(* The theorems.                                                           *)

\* Every row and every process keeps its type.
THEOREM TypeCorrect == Spec => []TypeOK
<1>1. IInv => TypeOK
  BY DEF IInv
<1>2. QED
  BY <1>1, Invariance, PTL

\* No command and no recovery ever gives a source a second active row.
THEOREM OneActiveWorkHolds == Spec => []OneActiveWork
<1>1. IInv => OneActiveWork
  BY DEF IInv
<1>2. QED
  BY <1>1, Invariance, PTL

\* Rows, attempts and sources agree on who processes what.
THEOREM LeaseAgreementHolds == Spec => []LeaseAgreement
<1>1. IInv => LeaseAgreement
  BY DEF IInv
<1>2. QED
  BY <1>1, Invariance, PTL

\* No source is left pending or processing without work.
THEOREM NoSourceIsStranded == Spec => []NoStrandedSource
<1>1. IInv => NoStrandedSource
  BY DEF IInv
<1>2. QED
  BY <1>1, Invariance, PTL

\* The ready document of a source was published for it.
THEOREM ReadyDocumentsArePublished == Spec => []ReadyIsPublished
<1>1. IInv => ReadyIsPublished
  BY DEF IInv
<1>2. QED
  BY <1>1, Invariance, PTL

-----------------------------------------------------------------------------
(* What each step does to the source of one row, and the two theorems that *)
(* rest on it.                                                             *)

\* A command, a claim and a worker change a source only in these ways.
LEMMA ClaimSources ==
    ASSUME IInv, NEW k \in Workers, Claim(k), NEW s \in Sources
    PROVE  \/ source'[s] = source[s]
           \/ /\ source[s].status = "pending"
              /\ source'[s] = [source[s] EXCEPT !.status = "processing"]
           \/ /\ \E w \in Expired : work[w].source = s
              /\ source[s].status = "processing"
              /\ source'[s].status \in {"pending", "processing"}
              /\ source'[s].failure = "lease_expired"
              /\ source'[s].ready = source[s].ready
<1>1. PICK w \in Works :
        /\ RecoveredWork[w].status = "pending"
        /\ source' = [RecoveredSource EXCEPT ![work[w].source].status = "processing"]
  BY DEF Claim
<1>2. w \in Pending \cup Expired /\ Expired \subseteq Leased
  BY <1>1, RecoveryFacts DEF Expired
<1>3. source[s] \in Lifecycle!SourceRow /\ RecoveredSource[s] \in Lifecycle!SourceRow
  BY RecoveryFacts DEF IInv, TypeOK
<1>4. source'[s] \in {RecoveredSource[s], [RecoveredSource[s] EXCEPT !.status = "processing"]}
  BY <1>1, RecoveryFacts
<1>5. CASE \E v \in Expired : work[v].source = s
  <2>1. source[s].status = "processing"
    BY <1>2, <1>5 DEF IInv, LeaseAgreement
  <2>2. RecoveredSource[s] = [source[s] EXCEPT !.status = "pending", !.failure = "lease_expired"]
    BY <1>5 DEF RecoveredSource
  <2>3. QED
    BY <1>3, <1>4, <1>5, <2>1, <2>2
<1>6. CASE (\A v \in Expired : work[v].source # s) /\ work[w].source = s
  <2>1. w \in Pending /\ source[s].status = "pending"
    BY <1>2, <1>6 DEF IInv, LeaseAgreement
  <2>2. RecoveredSource[s] = source[s]
    BY <1>6, RecoveryFacts
  <2>3. source'[s] = [source[s] EXCEPT !.status = "processing"]
    BY <1>1, <1>6, <2>2, RecoveryFacts
  <2>4. QED
    BY <2>1, <2>3
<1>7. CASE (\A v \in Expired : work[v].source # s) /\ work[w].source # s
  <2>1. source'[s] = RecoveredSource[s]
    BY <1>1, <1>7, RecoveryFacts
  <2>2. QED
    BY <1>7, <2>1, RecoveryFacts
<1>8. QED
  BY <1>5, <1>6, <1>7

LEMMA CommandSources ==
    ASSUME IInv, Command, NEW s \in Sources
    PROVE  \/ source'[s] = source[s]
           \/ /\ source[s].status = "absent"
              /\ source'[s] = Lifecycle!CreatedSource
           \/ /\ source[s].status \in {"ready", "failed"}
              /\ source'[s] = [source[s] EXCEPT !.status = "pending", !.failure = "none"]
<1>1. PICK x \in Sources, w \in Works :
        CreateSource(x, w) \/ Retry(x, w) \/ Reprocess(x, w)
  BY DEF Command
<1>2. CASE CreateSource(x, w)
  BY <1>2 DEF CreateSource, IInv, TypeOK
<1>3. CASE Retry(x, w) \/ Reprocess(x, w)
  BY <1>3 DEF Retry, Reprocess, QueueLifecycle, StatusRequired, IInv, TypeOK
<1>4. QED
  BY <1>1, <1>2, <1>3

LEMMA ProceedSources ==
    ASSUME IInv, NEW k \in Workers, Proceed(k), NEW s \in Sources
    PROVE  \/ source'[s] = source[s]
           \/ \E w \in Works :
                 /\ UnderLease(k, w) /\ work[w].source = s
                 /\ source[s].status = "processing"
                 /\ worker'[k].pc = "idle"
                 /\ \/ /\ worker[k].pc = "completing"
                       /\ source'[s].status = "ready"
                       /\ source'[s].failure = "none"
                       /\ source'[s].ready \in Documents
                    \/ /\ worker[k].pc = "failing"
                       /\ source'[s].status = "failed"
                       /\ source'[s].failure = "stage_failed"
                       /\ source'[s].ready = source[s].ready
<1> DEFINE w == worker[k].work
<1>1. CASE Complete(k)
  <2> DEFINE row == [status |-> "ready", failure |-> "none", ready |-> worker[k].document]
  <2>1. /\ worker[k].pc = "completing" /\ worker[k].pc \in Stages
        /\ HoldsLease(k) /\ Settle(k, row)
    BY <1>1 DEF Complete
  <2>2. /\ w \in Works /\ UnderLease(k, w)
        /\ worker[k].document \in Documents
    BY <2>1 DEF IInv, TypeOK, HoldsLease, UnderLease, CarriesPublished
  <2>3. worker'[k].pc = "idle" /\ source' = [source EXCEPT ![work[w].source] = row]
    BY <2>1 DEF Settle, NoClaim, IInv, TypeOK
  <2>4. source[work[w].source].status = "processing" /\ work[w].source \in Sources
    BY <2>1, TerminalRows
  <2>5. QED
    BY <2>1, <2>2, <2>3, <2>4 DEF IInv, TypeOK
<1>2. CASE Fail(k)
  <2> DEFINE row == FailedRow(work[w].source)
  <2>1. /\ worker[k].pc = "failing" /\ worker[k].pc \in Stages
        /\ HoldsLease(k) /\ Settle(k, row)
    BY <1>2 DEF Fail
  <2>2. w \in Works /\ UnderLease(k, w)
    BY <2>1 DEF IInv, TypeOK, HoldsLease, UnderLease
  <2>3. worker'[k].pc = "idle" /\ source' = [source EXCEPT ![work[w].source] = row]
    BY <2>1 DEF Settle, NoClaim, IInv, TypeOK
  <2>4. /\ source[work[w].source].status = "processing" /\ work[w].source \in Sources
        /\ row.status = "failed" /\ row.failure = "stage_failed"
        /\ row.ready = source[work[w].source].ready
    BY <2>1, TerminalRows
  <2> HIDE DEF row
  <2>5. QED
    BY <2>1, <2>2, <2>3, <2>4 DEF IInv, TypeOK
<1>3. CASE ~ Complete(k) /\ ~ Fail(k)
  BY <1>3 DEF Proceed, FinishStages, Publish, Release, StageError, LeaseUnavailable,
              Abandon, Reach, rows
<1>4. QED
  BY <1>1, <1>2, <1>3

\* A worker that lost its lease neither publishes nor settles.
THEOREM LostLeasesAreInert == Spec => LostLeaseIsInert
<1>1. IInv /\ [Next]_vars => [\A s \in Sources : OwnedSettlement(s) /\ OwnedPublication(s)]_vars
  <2>1. SUFFICES ASSUME IInv, Next, NEW s \in Sources
                 PROVE  OwnedSettlement(s) /\ OwnedPublication(s)
    BY DEF OwnedSettlement, OwnedPublication
  <2>2. CASE Command
    BY <2>1, <2>2, CommandSources
       DEF OwnedSettlement, OwnedPublication, Command, CreateSource, Retry, Reprocess,
           QueueLifecycle, Enqueue
  <2>3. CASE Tick
    BY <2>3 DEF OwnedSettlement, OwnedPublication, Tick
  <2>4. ASSUME NEW k \in Workers, Claim(k)
        PROVE  OwnedSettlement(s) /\ OwnedPublication(s)
    BY <2>1, <2>4, ClaimSources DEF OwnedSettlement, OwnedPublication, Claim
  <2>5. ASSUME NEW k \in Workers, Proceed(k)
        PROVE  OwnedSettlement(s) /\ OwnedPublication(s)
    <3>1. OwnedSettlement(s)
      BY <2>1, <2>5, ProceedSources DEF OwnedSettlement
    <3>2. CASE Publish(k)
      <4>1. /\ worker[k].work \in Works /\ UnderLease(k, worker[k].work)
            /\ worker[k].pc = "publishing" /\ worker'[k].pc = "releasing"
        BY <2>1, <3>2 DEF Publish, HoldsLease, UnderLease, IInv, TypeOK
      <4>2. documents'[s] # documents[s] => work[worker[k].work].source = s
        BY <2>1, <3>2 DEF Publish, PublishedDocuments, IInv, TypeOK
      <4>3. QED
        BY <3>1, <4>1, <4>2 DEF OwnedPublication
    <3>3. CASE ~ Publish(k)
      BY <2>5, <3>1, <3>3
         DEF OwnedPublication, Proceed, FinishStages, Release, StageError, LeaseUnavailable,
             Complete, Fail, Settle, Abandon, Reach, rows
    <3>4. QED
      BY <3>2, <3>3
  <2>6. ASSUME NEW k \in Workers, Crash(k) \/ Restart(k)
        PROVE  OwnedSettlement(s) /\ OwnedPublication(s)
    BY <2>6 DEF OwnedSettlement, OwnedPublication, Crash, Restart, rows
  <2>7. QED
    BY <2>1, <2>2, <2>3, <2>4, <2>5, <2>6 DEF Next
<1>2. QED
  BY <1>1, Invariance, PTL DEF Spec, LostLeaseIsInert

\* The queue implements the state machine of the Go domain.
THEOREM Implementation == Spec => ImplementsLifecycle
<1> USE DEF Lifecycle!SourceStep, Lifecycle!KeepsReady, Lifecycle!Transition
<1>1. Init => Lifecycle!Init
  BY DEF Init, Lifecycle!Init
<1>2. IInv /\ IInv' /\ [Next]_vars => [Lifecycle!Next]_source
  <2>1. SUFFICES ASSUME IInv, IInv', Next, NEW s \in Sources
                 PROVE  source'[s] = source[s] \/ Lifecycle!SourceStep(s)
    BY DEF Lifecycle!Next, IInv, TypeOK, vars
  <2>2. source[s] \in Lifecycle!SourceRow /\ source'[s] \in Lifecycle!SourceRow
    BY <2>1 DEF IInv, TypeOK
  <2>3. CASE Command
    <3>1. CASE source[s].status = "absent" /\ source'[s] = Lifecycle!CreatedSource
      BY <3>1 DEF Lifecycle!NewSource, Lifecycle!CreatedSource
    <3>2. CASE /\ source[s].status \in {"ready", "failed"}
               /\ source'[s] = [source[s] EXCEPT !.status = "pending", !.failure = "none"]
      BY <2>2, <3>2 DEF Lifecycle!Requeue
    <3>3. QED
      BY <2>1, <2>3, <3>1, <3>2, CommandSources
  <2>4. ASSUME NEW k \in Workers, Claim(k)
        PROVE  source'[s] = source[s] \/ Lifecycle!SourceStep(s)
    BY <2>1, <2>2, <2>4, ClaimSources DEF Lifecycle!MarkProcessing, Lifecycle!Expire
  <2>5. ASSUME NEW k \in Workers, Proceed(k)
        PROVE  source'[s] = source[s] \/ Lifecycle!SourceStep(s)
    BY <2>1, <2>2, <2>5, ProceedSources DEF Lifecycle!MarkReady, Lifecycle!MarkFailed
  <2>6. CASE Tick \/ \E k \in Workers : Crash(k) \/ Restart(k)
    BY <2>6 DEF Tick, Crash, Restart, rows
  <2>7. QED
    BY <2>1, <2>3, <2>4, <2>5, <2>6 DEF Next
<1>3. QED
  BY <1>1, <1>2, Invariance, PTL DEF Spec, ImplementsLifecycle, Lifecycle!Spec
=============================================================================
