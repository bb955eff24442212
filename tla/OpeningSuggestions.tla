-------------------------- MODULE OpeningSuggestions --------------------------
(***************************************************************************)
(* Opening suggestions of the empty chat: the starter questions of an      *)
(* available dataset, projected onto the active snapshot.  Publish reads   *)
(* the active snapshot, the dataset's publication and its evidence in      *)
(* separate queries; while it does, curators activate other snapshots and  *)
(* reviewers withdraw the dataset.  What it writes is checked once more    *)
(* under the lock of the release row and by the triggers of the tables.    *)
(*                                                                         *)
(* Abstractions.  The corpus is enabled and the selection policy does not  *)
(* change.  A set stands for its items, one per starter of the dataset.    *)
(* Activation is what SnapshotRelease says of it: any published snapshot   *)
(* may become the active one.                                              *)
(***************************************************************************)
EXTENDS EvaluationDatasets

CONSTANTS Publishers    \* calls of Publish

VARIABLES
    active,     \* the snapshot of the release row
    publisher,  \* [Publishers -> Publish]
    sets        \* corpus_opening_suggestion_set and its items

vars == <<datasetVars, active, publisher, sets>>

-----------------------------------------------------------------------------

\* A call has compared the active snapshot, then found the dataset available,
\* then its evidence resolved, then opened its transaction (created).
Publish == [pc : {"current", "available", "resolved", "appending"}, dataset : Datasets,
            snapshot : Snapshots, created : 0 .. MaxClock]

SuggestionSet == [dataset : Datasets, snapshot : Snapshots, created : 1 .. MaxClock]

Init == /\ DatasetInit
        /\ active \in Snapshots
        /\ publisher = [q \in Publishers |-> None]
        /\ sets = {}

-----------------------------------------------------------------------------
(* The steps of Publish.  A check that fails ends the call.                *)

Begins(q, d, s) ==
    /\ publisher[q] = None
    /\ s = active
    /\ publisher' = [publisher EXCEPT ![q] =
          [pc |-> "current", dataset |-> d, snapshot |-> s, created |-> 0]]
    /\ UNCHANGED <<datasetVars, active, sets>>

Passes(q, check, next) ==
    publisher' = [publisher EXCEPT ![q] = IF check THEN [@ EXCEPT !.pc = next] ELSE None]

At(q, pc) == publisher[q] # None /\ publisher[q].pc = pc

FindsAvailable(q) ==
    /\ At(q, "current")
    /\ Passes(q, Effective(publisher[q].dataset) = "available", "available")
    /\ UNCHANGED <<datasetVars, active, sets>>

\* Mutant: starter cases are validated, their evidence is not.
StartersValid(d, s) == ValidateStarterCases(Cases(d))

\* Starter cases in complete pairs whose evidence resolves in the snapshot.
Projectable(d, s) == /\ ValidateStarterCases(Cases(d))
                     /\ ResolvesCases(d, s, Starters(Cases(d)))

FindsResolved(q) ==
    /\ At(q, "available")
    /\ Passes(q, Projectable(publisher[q].dataset, publisher[q].snapshot), "resolved")
    /\ UNCHANGED <<datasetVars, active, sets>>

\* The active snapshot again; the transaction begins, whose time is created_at.
BeginsAppend(q) ==
    /\ At(q, "resolved")
    /\ clock < MaxClock
    /\ clock' = Now
    /\ publisher' = [publisher EXCEPT ![q] =
          IF active = @.snapshot THEN [@ EXCEPT !.pc = "appending", !.created = Now]
          ELSE None]
    /\ UNCHANGED <<rows, calls, active, sets>>

\* Mutant: the active snapshot is not compared under its lock.
AnyRelease(s) == TRUE

ReleaseStands(s) == s = active

\* One set for a dataset and a snapshot.
Unprojected(d, s) == ~ \E x \in sets : x.dataset = d /\ x.snapshot = s

\* The triggers on a set and its items.
SetTrigger(d, s) == /\ Effective(d) = "available"
                    /\ SourcesInSnapshot(d, s)
                    /\ CompleteStarters(Cases(d))

AppendProjection(q) ==
    LET w == publisher[q]
        appended == [dataset |-> w.dataset, snapshot |-> w.snapshot, created |-> w.created]
    IN /\ At(q, "appending")
       /\ sets' = IF /\ ReleaseStands(w.snapshot)
                     /\ Unprojected(w.dataset, w.snapshot)
                     /\ SetTrigger(w.dataset, w.snapshot)
                  THEN sets \cup {appended} ELSE sets
       /\ publisher' = [publisher EXCEPT ![q] = None]
       /\ UNCHANGED <<datasetVars, active>>

Activate(s) == /\ s # active
               /\ active' = s
               /\ UNCHANGED <<datasetVars, publisher, sets>>

-----------------------------------------------------------------------------

SuggestionNext ==
    \/ \E q \in Publishers :
          \/ \E d \in imported, s \in Snapshots : Begins(q, d, s)
          \/ FindsAvailable(q)
          \/ FindsResolved(q)
          \/ BeginsAppend(q)
          \/ AppendProjection(q)
    \/ \E s \in Snapshots : Activate(s)

Next == \/ DatasetNext /\ UNCHANGED <<active, publisher, sets>>
        \/ SuggestionNext

Spec == Init /\ [][Next]_vars

-----------------------------------------------------------------------------
(* What a reader is shown: the latest set of the active snapshot, if its   *)
(* dataset is still available.                                             *)

\* Mutant: sets of snapshots that are no longer active are considered.
AllSets == sets

OfActive == {x \in sets : x.snapshot = active}

LatestSet == CHOOSE x \in OfActive : \A y \in OfActive : y.created <= x.created

Shown == IF OfActive # {} /\ Effective(LatestSet.dataset) = "available"
         THEN Starters(Cases(LatestSet.dataset)) ELSE {}

-----------------------------------------------------------------------------
(* Properties.                                                             *)

TypeOK == /\ DatasetTypeOK
          /\ active \in Snapshots
          /\ publisher \in [Publishers -> Publish \cup {None}]
          /\ sets \subseteq SuggestionSet

\* Every question a set offers, for ever, has all its evidence in the snapshot
\* of the set, in both languages and for every rank, although evidence,
\* publication and release were read by separate queries.
SetsAreCovered ==
    \A x \in sets : /\ CompleteStarters(Cases(x.dataset))
                    /\ ResolvesCases(x.dataset, x.snapshot, Starters(Cases(x.dataset)))
                    /\ SourcesInSnapshot(x.dataset, x.snapshot)

\* A set is added for the snapshot that is active and a dataset that is
\* available when it is committed, and no set is changed or removed.
ProjectionsFollowTheRelease ==
    [][/\ sets \subseteq sets'
       /\ \A x \in sets' \ sets : /\ x.snapshot = active /\ active' = active
                                  /\ Effective(x.dataset) = "available"]_vars

\* A reader is shown nothing, or one question for every rank and language, each
\* with its evidence in the snapshot that is active now.
ShownIsCovered ==
    Shown # {} =>
        LET cs == Cases(LatestSet.dataset)
        IN /\ {<<cs[i].rank, cs[i].language>> : i \in Shown} = (1 .. MaxRank) \X Languages
           /\ ResolvesCases(LatestSet.dataset, active, Shown)
=============================================================================
