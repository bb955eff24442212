-------------------------- MODULE EvaluationDatasets --------------------------
(***************************************************************************)
(* Dataset revisions from their import to the runs made with them: their   *)
(* source aliases are bound to corpus sources one by one, reviewers append *)
(* publication records, the catalog is inspected, and a run is created     *)
(* when its preflight finds every source and locator in a snapshot.  A     *)
(* revision is identified by its content, as deterministicID does.         *)
(*                                                                         *)
(* One action is one transaction or query.  The records of publications    *)
(* are ordered by reviewed_at, a time a review reads before it takes the   *)
(* lock of the revision: clock counts such readings, of which no two are   *)
(* equal.                                                                  *)
(*                                                                         *)
(* Abstractions.  One corpus.  Snapshots are immutable: each is a function *)
(* from its member sources to the locators of their documents.  Review     *)
(* decisions are left out: they restrict no transition but that an         *)
(* available publication is approved.  MaxClock bounds the clock.          *)
(***************************************************************************)
EXTENDS EvaluationAssets

CONSTANTS Datasets,     \* identities of assets, good or bad
          Asset,        \* [Datasets -> assets]: what the importer reads
          Sources,      \* sources of the corpus
          Snapshots,    \* published snapshots: [members -> SUBSET locators]
          Reviewers,    \* calls of Review
          Starts,       \* calls of RunService.Start
          Inspectors,   \* calls of GetDatasetCatalog
          MaxClock      \* readings of the clock

ASSUME NullAssumption     == None \notin Datasets /\ None \notin Snapshots
ASSUME SnapshotAssumption == \A s \in Snapshots : DOMAIN s \subseteq Sources
ASSUME ClockAssumption    == MaxClock \in Nat

VARIABLES
    imported,      \* SUBSET Datasets: evaluation_dataset_revision and its rows
    bindings,      \* non-null corpus_source_id of evaluation_dataset_source
    publications,  \* evaluation_dataset_publication
    runs,          \* evaluation_run: dataset and snapshot
    clock,         \* the time
    reviewer,      \* [Reviewers -> Review]
    start,         \* [Starts -> Start]
    inspection     \* [Inspectors -> Inspection]

rows  == <<imported, bindings, publications, runs>>
calls == <<reviewer, start, inspection>>
datasetVars == <<rows, clock, calls>>

-----------------------------------------------------------------------------
(* Types.                                                                  *)

PublicationState == {"draft", "available", "superseded", "withdrawn"}

AliasesOf(d) == Range(Asset[d].sources)
Cases(d)     == Asset[d].cases

Aliases == UNION {AliasesOf(d) : d \in Datasets}

Binding     == [dataset : Datasets, alias : Aliases, source : Sources]
Publication == [dataset : Datasets, state : PublicationState, at : 1 .. MaxClock]
Run         == [dataset : Datasets, snapshot : Snapshots]

Review == Publication \cup {None}   \* the record to append

Start == [pc : {"idle", "available", "compatible"}, dataset : Datasets \cup {None},
          snapshot : Snapshots \cup {None}]

NoStart == [pc |-> "idle", dataset |-> None, snapshot |-> None]

\* What the first query of an inspection read.
Inspection == [dataset : Datasets, state : PublicationState \cup {"none"}] \cup {None}

DatasetInit == /\ imported = {} /\ bindings = {} /\ publications = {} /\ runs = {}
               /\ clock = 0
               /\ reviewer = [r \in Reviewers |-> None]
               /\ start = [k \in Starts |-> NoStart]
               /\ inspection = [i \in Inspectors |-> None]

-----------------------------------------------------------------------------
(* What the tables say of a dataset.                                       *)

PublicationsOf(d) == {p \in publications : p.dataset = d}

\* The record with the latest reviewed_at.
Latest(d) == CHOOSE p \in PublicationsOf(d) : \A q \in PublicationsOf(d) : q.at <= p.at

\* The state that controls the availability of a dataset.
Effective(d) == IF PublicationsOf(d) = {} THEN "none" ELSE Latest(d).state

BoundAliases(d) == {b.alias : b \in {x \in bindings : x.dataset = d}}

FullyBound(d) == AliasesOf(d) \subseteq BoundAliases(d)

\* The sources an alias is bound to: at most one.
BoundTo(d, alias) == {b.source : b \in {x \in bindings : x.dataset = d /\ x.alias = alias}}

\* Every source is bound to a member of the snapshot.
SourcesInSnapshot(d, s) ==
    \A alias \in AliasesOf(d) :
        BoundTo(d, alias) # {} /\ BoundTo(d, alias) \subseteq DOMAIN s

\* A locator resolves through the source its alias is bound to.
Resolves(d, s, e) == \E source \in BoundTo(d, e.source) \cap DOMAIN s : e.locator \in s[source]

ResolvesCases(d, s, S) == \A e \in EvidenceOf(Cases(d), S) : Resolves(d, s, e)

-----------------------------------------------------------------------------
(* Import and binding.                                                     *)

\* Assets the importer accepts.
Importable == {d \in Datasets : Accepted(Asset[d])}

\* The revision, its sources, cases, evidence and starters in one transaction.
\* Importing it again finds the revision and changes nothing; a rejected
\* asset leaves no row.
Import(d) == /\ imported' = imported \cup {d}
             /\ UNCHANGED <<bindings, publications, runs, clock, calls>>

Unbound(d, alias) == alias \notin BoundAliases(d)

BindSource(d, alias, source) ==
    /\ Unbound(d, alias)
    /\ bindings' = {b \in bindings : ~ (b.dataset = d /\ b.alias = alias)}
                     \cup {[dataset |-> d, alias |-> alias, source |-> source]}
    /\ UNCHANGED <<imported, publications, runs, clock, calls>>

-----------------------------------------------------------------------------
(* Review: the clock, then the latest record and the new one under a lock. *)
(* The latest record is also read once before the lock: whatever the       *)
(* second reading finds, the first could have found just before it.        *)

ValidatePublicationTransition(previous, next) ==
    \/ previous = "draft" /\ next \in {"available", "withdrawn"}
    \/ previous = "available" /\ next \in {"superseded", "withdrawn"}

MayFollow(d, next) ==
    PublicationsOf(d) # {} => ValidatePublicationTransition(Latest(d).state, next)

\* Mutant: no time passes.
Stopped == clock

Now == clock + 1

ReviewBegins(r, d, next) ==
    /\ reviewer[r] = None
    /\ clock < MaxClock
    /\ clock' = Now
    /\ reviewer' = [reviewer EXCEPT ![r] = [dataset |-> d, state |-> next, at |-> Now]]
    /\ UNCHANGED <<rows, start, inspection>>

\* Mutant: the trigger does not look at the bindings.
StartersOnly(d, next) == next = "available" => CompleteStarters(Cases(d))

\* The constraint trigger: an available dataset is bound and has its starters.
PublicationTrigger(d, next) ==
    next = "available" => FullyBound(d) /\ CompleteStarters(Cases(d))

\* Mutant: the transition is not validated under the lock.
TriggerOnly(d, next) == PublicationTrigger(d, next)

Appendable(d, next) == MayFollow(d, next) /\ PublicationTrigger(d, next)

AppendPublication(r) ==
    /\ reviewer[r] # None
    /\ publications' = publications \cup
          {p \in {reviewer[r]} : Appendable(p.dataset, p.state)}
    /\ reviewer' = [reviewer EXCEPT ![r] = None]
    /\ UNCHANGED <<imported, bindings, runs, clock, start, inspection>>

-----------------------------------------------------------------------------
(* Starting a run: preflight in separate queries, then the ledger.         *)

\* A rejected preflight ends the call without a row: it is not an action.
CheckPublication(k, d, s) ==
    /\ start[k].pc = "idle"
    /\ Effective(d) = "available"
    /\ start' = [start EXCEPT ![k] = [pc |-> "available", dataset |-> d, snapshot |-> s]]
    /\ UNCHANGED <<rows, clock, reviewer, inspection>>

\* Mutant: the locators are not resolved.
SourcesOnly(d, s) == SourcesInSnapshot(d, s)

Compatible(d, s) == SourcesInSnapshot(d, s) /\ ResolvesCases(d, s, DOMAIN Cases(d))

CheckCompatibility(k) ==
    /\ start[k].pc = "available"
    /\ start' = [start EXCEPT ![k] = IF Compatible(@.dataset, @.snapshot)
                                     THEN [@ EXCEPT !.pc = "compatible"] ELSE NoStart]
    /\ UNCHANGED <<rows, clock, reviewer, inspection>>

\* The run and its cases; nothing is checked again.
CreateRun(k) ==
    /\ start[k].pc = "compatible"
    /\ runs' = runs \cup {[dataset |-> start[k].dataset, snapshot |-> start[k].snapshot]}
    /\ start' = [start EXCEPT ![k] = NoStart]
    /\ UNCHANGED <<imported, bindings, publications, clock, reviewer, inspection>>

-----------------------------------------------------------------------------
(* Inspecting one dataset: its review, then its sources and starters.      *)

InspectReview(i, d) ==
    /\ inspection[i] = None
    /\ inspection' = [inspection EXCEPT ![i] = [dataset |-> d, state |-> Effective(d)]]
    /\ UNCHANGED <<rows, clock, reviewer, start>>

\* The call returns what it read then and the bindings it reads now.
InspectSources(i) ==
    /\ inspection[i] # None
    /\ inspection' = [inspection EXCEPT ![i] = None]
    /\ UNCHANGED <<rows, clock, reviewer, start>>

-----------------------------------------------------------------------------

DatasetNext ==
    \/ \E d \in Importable : Import(d)
    \/ \E d \in imported : \/ \E alias \in AliasesOf(d), source \in Sources :
                                 BindSource(d, alias, source)
                           \/ \E r \in Reviewers, next \in PublicationState :
                                 ReviewBegins(r, d, next)
                           \/ \E k \in Starts, s \in Snapshots : CheckPublication(k, d, s)
                           \/ \E i \in Inspectors : InspectReview(i, d)
    \/ \E r \in Reviewers : AppendPublication(r)
    \/ \E k \in Starts : CheckCompatibility(k) \/ CreateRun(k)
    \/ \E i \in Inspectors : InspectSources(i)

DatasetSpec == DatasetInit /\ [][DatasetNext]_datasetVars

-----------------------------------------------------------------------------
(* Properties.                                                             *)

\* Rows and calls have the values of their columns and variables.
DatasetTypeOK ==
    /\ imported \subseteq Datasets
    /\ bindings \subseteq Binding
    /\ publications \subseteq Publication
    /\ runs \subseteq Run
    /\ clock \in 0 .. MaxClock
    /\ reviewer \in [Reviewers -> Review]
    /\ start \in [Starts -> Start]
    /\ inspection \in [Inspectors -> Inspection]

\* Whatever passes the validators of importer and store consists of couples:
\* one case per language that name each other and agree on outcome and rank,
\* with the ranks numbered from one.
PairedDatasets == {d \in Datasets : WellPaired(Cases(d))}

ImportedIsPaired == imported \subseteq PairedDatasets

\* An available publication, ever, is of a dataset whose sources are bound, to
\* one source each, and whose starters are complete, although the trigger
\* looked once and bindings go on.
AvailableIsServable ==
    \A p \in publications : p.state = "available" =>
        /\ FullyBound(p.dataset)
        /\ CompleteStarters(Cases(p.dataset))
        /\ \A a \in AliasesOf(p.dataset) : \E x \in Sources : BoundTo(p.dataset, a) = {x}

\* The state by latest reviewed_at follows the review lifecycle, although the
\* times are read before the lock and records may be appended out of order.
Lifecycle == INSTANCE PublicationLifecycle
                WITH Datasets <- Importable,
                     state    <- [d \in Importable |-> Effective(d)]

ImplementsLifecycle == Lifecycle!Spec

\* A run was made with a dataset that had been published as available, and
\* finds every locator of every case in its snapshot as long as it lives.
RunsAreResolvable ==
    \A r \in runs :
        /\ \E p \in publications : p.dataset = r.dataset /\ p.state = "available"
        /\ SourcesInSnapshot(r.dataset, r.snapshot)
        /\ ResolvesCases(r.dataset, r.snapshot, DOMAIN Cases(r.dataset))

\* The catalog never shows an available dataset with an unbound source,
\* although it reads review and sources in two queries.
InspectionIsConsistent ==
    [][\A i \in Inspectors : InspectSources(i) /\ inspection[i].state = "available"
                               => FullyBound(inspection[i].dataset)]_datasetVars
=============================================================================
