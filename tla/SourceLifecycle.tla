--------------------------- MODULE SourceLifecycle ---------------------------
(***************************************************************************)
(* What the API promises about the life of a source: the state machine of  *)
(* the Go domain package (apps/api/internal/source/domain).  Each source   *)
(* walks pending -> processing -> ready or failed, and goes back to        *)
(* pending only on an explicit Retry or Reprocess, or when the lease of    *)
(* its processing attempt expired.  Nothing is said here of queues, leases *)
(* or workers: IngestionQueue implements this module with SQL statements   *)
(* that do not test the status they overwrite.                             *)
(*                                                                         *)
(* The optimistic version of a source is left out: every transition        *)
(* requires the current version, and a caller that presents it is the only *)
(* kind that changes anything.                                             *)
(***************************************************************************)
CONSTANTS Sources,    \* identities of the sources that may be created
          Documents,  \* identities of document versions
          None        \* the null of a nullable column

VARIABLE source       \* [Sources -> SourceRow]

SourceStatus == {"absent", "pending", "processing", "ready", "failed"}
Failures     == {"none", "lease_expired", "stage_failed"}

\* status, latest failure category and latest ready document of a source
SourceRow == [status : SourceStatus, failure : Failures, ready : Documents \cup {None}]

NoSource      == [status |-> "absent", failure |-> "none", ready |-> None]
CreatedSource == [status |-> "pending", failure |-> "none", ready |-> None]

Init == source = [s \in Sources |-> NoSource]

-----------------------------------------------------------------------------
(* The transitions of one source.  A transition tests the status it leaves *)
(* and keeps every field it does not name.                                 *)

Transition(s, from, to) == /\ source[s].status = from
                           /\ source'[s].status = to

KeepsReady(s) == source'[s].ready = source[s].ready

NewSource(s) == Transition(s, "absent", "pending") /\ source'[s] = CreatedSource

MarkProcessing(s) == /\ Transition(s, "pending", "processing")
                     /\ source'[s].failure = source[s].failure
                     /\ KeepsReady(s)

MarkReady(s) == /\ Transition(s, "processing", "ready")
                /\ source'[s].failure = "none"
                /\ source'[s].ready \in Documents

MarkFailed(s) == /\ Transition(s, "processing", "failed")
                 /\ source'[s].failure # "none"
                 /\ KeepsReady(s)

\* Retry of a failed source and Reprocess of a ready one.  The domain leaves
\* the failure category alone, the SQL of QueueLifecycle clears it.
Requeue(s) == /\ Transition(s, "failed", "pending") \/ Transition(s, "ready", "pending")
              /\ source'[s].failure \in {source[s].failure, "none"}
              /\ KeepsReady(s)

\* The attempt's lease expired.  The source is pending again, or already
\* processing under a new attempt when it was claimed in the same transaction.
Expire(s) == /\ \/ Transition(s, "processing", "pending")
                \/ Transition(s, "processing", "processing")
             /\ source'[s].failure = "lease_expired"
             /\ KeepsReady(s)

SourceStep(s) == \/ NewSource(s)
                 \/ MarkProcessing(s)
                 \/ MarkReady(s)
                 \/ MarkFailed(s)
                 \/ Requeue(s)
                 \/ Expire(s)

\* One transaction may expire several sources and start one of them.
Next == /\ source' \in [Sources -> SourceRow]
        /\ \A s \in Sources : source'[s] = source[s] \/ SourceStep(s)

Spec == Init /\ [][Next]_source
=============================================================================
