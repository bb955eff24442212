---------------------------- MODULE EvaluationRuns ----------------------------
(***************************************************************************)
(* The ledger of one evaluation run: a row of evaluation_run, one row of   *)
(* evaluation_run_case per dataset case, and the evaluation workers that   *)
(* claim batches of cases under leases, execute them and record terminal   *)
(* results.  The transaction that settles the last open case also writes   *)
(* the aggregate metrics and ends the run.                                 *)
(*                                                                         *)
(* Settling is two steps, because the transaction counts the open cases of *)
(* the run under READ COMMITTED: it sees its own result and those that     *)
(* others committed, not those that others are about to commit.  From the  *)
(* first step to the commit it holds the lock of its case.  Claiming is    *)
(* one step: the rows it reads are the rows it locks.                      *)
(*                                                                         *)
(* Abstractions.  A lease token is the worker that holds it: a worker has  *)
(* at most one claim on a case and drops its claims when it fails.  The    *)
(* attempts of a case are counted up to MaxAttempts + 1.  Answers,         *)
(* evidence and metric values are left out; what is kept of the metrics is *)
(* whether a result carries the complete set.                              *)
(***************************************************************************)
EXTENDS Integers, FiniteSets

CONSTANTS Cases,        \* the cases of the run, in the order of created_at, id
          Workers,      \* evaluation worker processes
          None          \* SQL NULL

CONSTANTS Outcomes,     \* what executing a case may yield
          MaxAttempts,  \* attempts of a case before it fails for good
          BatchSize     \* cases claimed at once

\* The outcomes of a case: a terminal result with its metrics, "error" for an
\* error or an invalid result, "unscored" for an answer or an abstention
\* without metrics.  The processor of the repository yields the last two and
\* "failed"; the store accepts the others from any processor.
Terminal == {"completed", "abstained", "failed", "cancelled"}

ASSUME CasesAssumption    == Cases \subseteq Nat /\ Cases # {} /\ IsFiniteSet(Cases)
ASSUME AttemptsAssumption == MaxAttempts \in Nat \ {0} /\ BatchSize \in Nat \ {0}
ASSUME OutcomesAssumption == Outcomes \subseteq Terminal \cup {"error", "unscored"}
ASSUME NullAssumption     == None \notin Cases \cup Workers

VARIABLES
    run,     \* the state of the run
    cases,   \* [Cases -> CaseRow]: evaluation_run_case
    worker   \* [Workers -> WorkerState]

vars == <<run, cases, worker>>

-----------------------------------------------------------------------------
(* Types.                                                                  *)

FinalRun == {"completed", "completed_with_failures", "failed"}
RunState == {"queued", "running"} \cup FinalRun

ASSUME VerdictAssumption == None \notin RunState

\* expired: lease_expires_at lies in the past.
CaseRow == [state : {"pending", "leased"} \cup Terminal, holder : Workers \cup {None},
            attempts : 0 .. MaxAttempts + 1, expired : BOOLEAN]

NewCase == [state |-> "pending", holder |-> None, attempts |-> 0, expired |-> FALSE]

\* batch: claimed cases not yet settled.  While committing: case is the one
\* being settled, row its uncommitted row, verdict the state the run gets.
WorkerState == [pc : {"idle", "working", "committing"}, batch : SUBSET Cases,
                case : Cases \cup {None}, row : CaseRow, verdict : FinalRun \cup {None}]

Idle == [pc |-> "idle", batch |-> {}, case |-> None, row |-> NewCase, verdict |-> None]

Working(batch) == [Idle EXCEPT !.pc = IF batch = {} THEN "idle" ELSE "working",
                               !.batch = batch]

\* The run and its cases as CreateRun commits them.
Init == /\ run    = "queued"
        /\ cases  = [c \in Cases |-> NewCase]
        /\ worker = [k \in Workers |-> Idle]

-----------------------------------------------------------------------------
(* Claiming a batch.                                                       *)

Locked(c) == \E k \in Workers : worker[k].pc = "committing" /\ worker[k].case = c

\* Mutant: leases are taken over before they expire.
UnexpiredClaimable ==
    {c \in Cases : cases[c].state \in {"pending", "leased"} /\ ~ Locked(c)}

\* Pending or expired, and not locked by a transaction (SKIP LOCKED).
Claimable ==
    {c \in Cases : /\ \/ cases[c].state = "pending"
                      \/ cases[c].state = "leased" /\ cases[c].expired
                   /\ ~ Locked(c)}

\* The first BatchSize claimable cases.
Batch == {c \in Claimable : Cardinality({x \in Claimable : x < c}) < BatchSize}

Attempt(n) == IF n > MaxAttempts THEN n ELSE n + 1

LeasedRow(k, c) == [state |-> "leased", holder |-> k,
                    attempts |-> Attempt(cases[c].attempts), expired |-> FALSE]

Claim(k) == /\ worker[k].pc = "idle"
            /\ run \in {"queued", "running"}
            /\ Batch # {}
            /\ run' = "running"
            /\ cases' = [c \in Cases |-> IF c \in Batch THEN LeasedRow(k, c) ELSE cases[c]]
            /\ worker' = [worker EXCEPT ![k] = Working(Batch)]

-----------------------------------------------------------------------------
(* Executing and settling the cases of a batch, one after the other.       *)

\* The case a worker executes.
Current(k, c) == /\ worker[k].pc = "working"
                 /\ c \in worker[k].batch
                 /\ \A x \in worker[k].batch : c <= x

\* Mutant: neither the token nor the state of the row is compared.
AnyToken(k, c) == TRUE

HoldsLease(k, c) == cases[c].state = "leased" /\ cases[c].holder = k

\* Mutant: the lease columns are not cleared.
LeaseKept(c, state) == [cases[c] EXCEPT !.state = state]

Settled(c, state) == [state |-> state, holder |-> None,
                      attempts |-> cases[c].attempts, expired |-> FALSE]

\* terminalRunState, of cases that are all terminal.
terminalRunState(state) ==
    IF \A c \in Cases : state[c] \in {"failed", "cancelled"} THEN "failed"
    ELSE IF \E c \in Cases : state[c] \in {"failed", "cancelled"}
         THEN "completed_with_failures" ELSE "completed"

\* Mutant: leased cases are not counted as open.
PendingOnly(state) == {c \in Cases : state[c] = "pending"}

Open(state) == {c \in Cases : state[c] \in {"pending", "leased"}}

\* finalizeRunIfTerminal: what the transaction decides of the run.
Verdict(state) == IF Open(state) = {} THEN terminalRunState(state) ELSE None

\* The states of the cases as the transaction that gives c its state sees them.
Seen(c, state) == [x \in Cases |-> IF x = c THEN state ELSE cases[x].state]

\* The transaction of Complete or ReleaseForRetry up to its commit.
Settle(k, c, state) ==
    /\ Current(k, c)
    /\ HoldsLease(k, c)
    /\ ~ Locked(c)
    /\ worker' = [worker EXCEPT ![k] = [@ EXCEPT
          !.pc = "committing", !.case = c, !.row = Settled(c, state),
          !.verdict = Verdict(Seen(c, state))]]
    /\ UNCHANGED <<run, cases>>

Complete(k, c) == \E state \in Outcomes \cap Terminal : Settle(k, c, state)

\* Mutant: one attempt too many.
RetriedOnceMore(c) == IF cases[c].attempts > MaxAttempts THEN "failed" ELSE "pending"

Retried(c) == IF cases[c].attempts >= MaxAttempts THEN "failed" ELSE "pending"

ReleaseForRetry(k, c) == /\ "error" \in Outcomes
                         /\ Settle(k, c, Retried(c))

\* Complete refuses a result without metrics, and the error ends the batch.
RefuseUnscored(k, c) == /\ "unscored" \in Outcomes
                        /\ Current(k, c)
                        /\ HoldsLease(k, c)
                        /\ worker' = [worker EXCEPT ![k] = Idle]
                        /\ UNCHANGED <<run, cases>>

\* ErrLeaseLost: the worker goes on with the next case.
LeaseLost(k, c) == /\ Current(k, c)
                   /\ ~ HoldsLease(k, c)
                   /\ worker' = [worker EXCEPT ![k] = Working(@.batch \ {c})]
                   /\ UNCHANGED <<run, cases>>

Commit(k) ==
    LET w == worker[k]
    IN  /\ w.pc = "committing"
        /\ cases' = [cases EXCEPT ![w.case] = w.row]
        /\ run' = IF w.verdict # None /\ run = "running" THEN w.verdict ELSE run
        /\ worker' = [worker EXCEPT ![k] = Working(w.batch \ {w.case})]

\* A database error, a shutdown or a crash: the transaction is rolled back
\* and the claims of the batch are forgotten.
Abort(k) == /\ worker[k].pc # "idle"
            /\ worker' = [worker EXCEPT ![k] = Idle]
            /\ UNCHANGED <<run, cases>>

Expire(c) == /\ cases[c].state = "leased"
             /\ ~ cases[c].expired
             /\ cases' = [cases EXCEPT ![c] = [@ EXCEPT !.expired = TRUE]]
             /\ UNCHANGED <<run, worker>>

Next == \/ \E c \in Cases : Expire(c)
        \/ \E k \in Workers :
              \/ Claim(k)
              \/ \E c \in Cases : \/ Complete(k, c)
                                  \/ ReleaseForRetry(k, c)
                                  \/ RefuseUnscored(k, c)
                                  \/ LeaseLost(k, c)
              \/ Commit(k)
              \/ Abort(k)

Spec == Init /\ [][Next]_vars

-----------------------------------------------------------------------------
(* Properties.                                                             *)

States == [c \in Cases |-> cases[c].state]

\* Rows and processes have the values of their columns and variables; the
\* lease columns are set exactly while a case is leased.
TypeOK == /\ run \in RunState
          /\ cases \in [Cases -> CaseRow]
          /\ worker \in [Workers -> WorkerState]
          /\ \A c \in Cases : cases[c].holder = None <=> cases[c].state # "leased"

\* A run that ended has no open case and ended as the tally of its cases,
\* although each transaction counts the cases before it commits.
EndedRunIsTallied ==
    run \in FinalRun => Open(States) = {} /\ run = terminalRunState(States)

\* Results are final: a second completion cannot overwrite the first, even
\* by a worker that lost its lease long ago, and an ended run stays as it is.
LedgerIsFinal ==
    [][/\ \A c \in Cases : cases[c].state \in Terminal => cases'[c] = cases[c]
       /\ run \in FinalRun => run' = run]_vars

\* A lease ends by the commit of its holder or, once it expired, by the claim
\* of another; no worker settles a case under somebody else's lease.
LeaseEndsByHolder ==
    [][\A c \in Cases, k \in Workers :
          HoldsLease(k, c) /\ cases'[c] # cases[c]
            => \/ cases'[c] = [cases[c] EXCEPT !.expired = TRUE]
               \/ cases'[c].state = "leased" /\ cases[c].expired
               \/ worker[k].pc = "committing" /\ worker[k].case = c]_vars

\* An attempt beyond the limit is only begun on an expired lease: the worker
\* "allows three total attempts per case, including the initial claim"
\* (docs/modules/go-api.md:83), which a claim does not compare, so that all
\* depends on what is returned to the queue having an attempt left.
RetriesAreBounded ==
    [][\A c \in Cases : cases[c].attempts <= MaxAttempts /\ cases'[c].attempts > MaxAttempts
          => cases[c].state = "leased" /\ cases[c].expired]_vars

-----------------------------------------------------------------------------
(* What the documents say and the code does not do.                        *)

\* Aggregates are "persisted after every case in a run is terminal"
\* (apps/api/internal/evaluation/postgres/runs.go:79), which ends the run: when
\* two transactions settle the last two cases, each counts the other as open.
LastCaseEndsRun ==
    Open(States) = {} /\ (\A k \in Workers : worker[k].pc # "committing")
      => run \in FinalRun
=============================================================================
