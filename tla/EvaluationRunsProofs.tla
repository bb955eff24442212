-------------------------- MODULE EvaluationRunsProofs --------------------------
(***************************************************************************)
(* Proofs about EvaluationRuns, for any set of cases and workers, any      *)
(* batch size, any limit of attempts and any outcomes of the processor.    *)
(***************************************************************************)
EXTENDS EvaluationRuns, TLAPS

\* A transaction that is about to commit still holds the lease of its case,
\* ends it, and decided about the run from rows that cannot change: if it saw
\* no other open case, every other case is terminal.
Commits(k) ==
    LET w == worker[k]
    IN  /\ w.case \in Cases
        /\ HoldsLease(k, w.case)
        /\ w.row.state # "leased" /\ w.row.holder = None
        /\ w.verdict # None =>
              /\ Open(Seen(w.case, w.row.state)) = {}
              /\ w.verdict = terminalRunState(Seen(w.case, w.row.state))
              /\ w.verdict \in FinalRun

CommitsHold == \A k \in Workers : worker[k].pc = "committing" => Commits(k)

\* The inductive invariant.
IInv == /\ TypeOK
        /\ EndedRunIsTallied
        /\ CommitsHold

-----------------------------------------------------------------------------
(* What the helpers return.                                                *)

\* An outcome of terminalRunState ends a run.
LEMMA TallyEnds == ASSUME NEW state PROVE terminalRunState(state) \in FinalRun
  BY DEF terminalRunState, FinalRun

\* A new case row, and the rows that leasing and settling write.
LEMMA Rows ==
    ASSUME NEW c \in Cases, cases[c] \in CaseRow
    PROVE  /\ NewCase \in CaseRow
           /\ \A k \in Workers : LeasedRow(k, c) \in CaseRow
           /\ \A state \in {"pending"} \cup Terminal : Settled(c, state) \in CaseRow
<1>1. cases[c].attempts \in 0 .. MaxAttempts + 1 /\ MaxAttempts \in Nat
  BY AttemptsAssumption DEF CaseRow
<1>2. Attempt(cases[c].attempts) \in 0 .. MaxAttempts + 1
  BY <1>1 DEF Attempt
<1>3. 0 \in 0 .. MaxAttempts + 1
  BY <1>1
<1>4. NewCase \in CaseRow
  BY <1>3 DEF NewCase, CaseRow
<1>5. \A k \in Workers : LeasedRow(k, c) \in CaseRow
  BY <1>2 DEF LeasedRow, CaseRow
<1>6. \A state \in {"pending"} \cup Terminal : Settled(c, state) \in CaseRow
  BY <1>1 DEF Settled, CaseRow, Terminal
<1> QED
  BY <1>4, <1>5, <1>6

\* A worker that is not settling a case.
LEMMA WorkingState ==
    ASSUME NEW batch \in SUBSET Cases
    PROVE  /\ Idle \in WorkerState /\ Idle.pc = "idle"
           /\ Working(batch) \in WorkerState /\ Working(batch).pc # "committing"
<1>1. 0 \in 0 .. MaxAttempts + 1
  BY AttemptsAssumption
<1>2. NewCase \in CaseRow
  BY <1>1 DEF NewCase, CaseRow
<1>3. Idle \in WorkerState /\ Idle.pc = "idle"
  BY <1>2 DEF Idle, WorkerState
<1>4. Working(batch) \in WorkerState /\ Working(batch).pc # "committing"
  BY <1>2, <1>3 DEF Working, Idle, WorkerState
<1> QED
  BY <1>3, <1>4

\* One worker takes a new state and no other does.
LEMMA OneWorker ==
    ASSUME TypeOK, NEW k \in Workers, NEW w \in WorkerState,
           worker' = [worker EXCEPT ![k] = w]
    PROVE  /\ worker' \in [Workers -> WorkerState]
           /\ worker'[k] = w
           /\ \A x \in Workers \ {k} : worker'[x] = worker[x]
  BY DEF TypeOK

-----------------------------------------------------------------------------
(* The steps, by what they change.                                         *)

\* A worker drops a case or its batch.
LEMMA WorkerGoesOn ==
    ASSUME IInv, NEW k \in Workers, NEW w \in WorkerState, w.pc # "committing",
           worker' = [worker EXCEPT ![k] = w], UNCHANGED <<run, cases>>
    PROVE  IInv'
<1>1. /\ worker' \in [Workers -> WorkerState]
      /\ worker'[k] = w
      /\ \A x \in Workers \ {k} : worker'[x] = worker[x]
  BY OneWorker DEF IInv
<1>2. TypeOK'
  BY <1>1 DEF IInv, TypeOK
<1>3. EndedRunIsTallied'
  BY DEF IInv, EndedRunIsTallied, States
<1>4. CommitsHold'
  BY <1>1 DEF IInv, CommitsHold, Commits, HoldsLease, Seen
<1> QED
  BY <1>2, <1>3, <1>4 DEF IInv

LEMMA Claims ==
    ASSUME IInv, NEW k \in Workers, Claim(k)
    PROVE  IInv'
<1>1. Batch \subseteq Claimable /\ Claimable \subseteq Cases
  BY DEF Batch, Claimable
<1>2. /\ run' = "running"
      /\ cases' = [c \in Cases |-> IF c \in Batch THEN LeasedRow(k, c) ELSE cases[c]]
      /\ worker' = [worker EXCEPT ![k] = Working(Batch)]
  BY DEF Claim
<1>3. cases \in [Cases -> CaseRow] /\ TypeOK
  BY DEF IInv, TypeOK
<1>4. Working(Batch) \in WorkerState /\ Working(Batch).pc # "committing"
  BY <1>1, WorkingState
<1>5. /\ worker' \in [Workers -> WorkerState]
      /\ worker'[k] = Working(Batch)
      /\ \A x \in Workers \ {k} : worker'[x] = worker[x]
  BY <1>2, <1>3, <1>4, OneWorker
<1>6. cases' \in [Cases -> CaseRow]
  BY <1>2, <1>3, Rows
<1>7. \A c \in Cases : LeasedRow(k, c).state = "leased" /\ LeasedRow(k, c).holder = k
  BY DEF LeasedRow
<1>8. k # None
  BY NullAssumption
<1>9. TypeOK'
  BY <1>2, <1>3, <1>5, <1>6, <1>7, <1>8 DEF TypeOK, RunState
<1>10. EndedRunIsTallied'
  BY <1>2 DEF EndedRunIsTallied, FinalRun
<1>11. ASSUME NEW x \in Workers, worker'[x].pc = "committing" PROVE Commits(x)'
  <2>1. x # k /\ worker'[x] = worker[x]
    BY <1>4, <1>5, <1>11
  <2>2. Commits(x)
    BY <1>11, <2>1 DEF IInv, CommitsHold
  <2> DEFINE c == worker[x].case
  <2>3. c \in Cases /\ c \notin Batch
    BY <1>1, <1>11, <2>1, <2>2 DEF Commits, Claimable, Locked
  <2>4. cases'[c] = cases[c]
    BY <1>2, <2>3
  <2>5. ASSUME worker[x].verdict # None
        PROVE  Seen(c, worker[x].row.state)' = Seen(c, worker[x].row.state)
    <3>1. \A y \in Cases \ {c} : cases[y].state \notin {"pending", "leased"}
      BY <2>2, <2>5 DEF Commits, Open, Seen
    <3>2. \A y \in Cases \ {c} : y \notin Batch
      BY <1>1, <3>1 DEF Claimable
    <3>3. \A y \in Cases \ {c} : cases'[y] = cases[y]
      BY <1>2, <3>2
    <3> QED
      BY <2>1, <3>3 DEF Seen
  <2> QED
    BY <2>1, <2>2, <2>3, <2>4, <2>5 DEF Commits, HoldsLease
<1> QED
  BY <1>9, <1>10, <1>11 DEF IInv, CommitsHold

LEMMA Settles ==
    ASSUME IInv, NEW k \in Workers, NEW c \in Cases,
           NEW state \in {"pending"} \cup Terminal, Settle(k, c, state)
    PROVE  IInv'
<1> DEFINE v == Verdict(Seen(c, state))
           w == [worker[k] EXCEPT !.pc = "committing", !.case = c,
                                  !.row = Settled(c, state), !.verdict = v]
<1>1. /\ worker[k] \in WorkerState /\ cases[c] \in CaseRow
      /\ TypeOK /\ CommitsHold
  BY DEF IInv, TypeOK
<1>2. v \in FinalRun \cup {None}
  BY TallyEnds DEF Verdict
<1>3. Settled(c, state) \in CaseRow
  BY <1>1, Rows
<1>4. /\ w \in WorkerState
      /\ w.pc = "committing" /\ w.case = c /\ w.row = Settled(c, state) /\ w.verdict = v
  <2> HIDE DEF v
  <2> QED
    BY <1>1, <1>2, <1>3 DEF WorkerState
<1>5. worker' = [worker EXCEPT ![k] = w] /\ UNCHANGED <<run, cases>>
  BY DEF Settle
<1>6. v # None => /\ Open(Seen(c, state)) = {}
                  /\ v = terminalRunState(Seen(c, state))
                  /\ v \in FinalRun
  BY TallyEnds DEF Verdict
<1>7. Settled(c, state).state = state /\ Settled(c, state).holder = None /\ state # "leased"
  BY DEF Settled, Terminal
<1>8. HoldsLease(k, c)
  BY DEF Settle
<1> HIDE DEF v, w
<1>9. /\ worker' \in [Workers -> WorkerState]
      /\ worker'[k] = w
      /\ \A x \in Workers \ {k} : worker'[x] = worker[x]
  BY <1>1, <1>4, <1>5, OneWorker
<1>10. TypeOK'
  BY <1>1, <1>5, <1>9 DEF TypeOK
<1>11. EndedRunIsTallied'
  BY <1>5 DEF IInv, EndedRunIsTallied, States
<1>12. Commits(k)'
  BY <1>4, <1>5, <1>6, <1>7, <1>8, <1>9 DEF Commits, HoldsLease, Seen
<1>13. ASSUME NEW x \in Workers \ {k}, worker'[x].pc = "committing" PROVE Commits(x)'
  BY <1>1, <1>5, <1>9, <1>13 DEF CommitsHold, Commits, HoldsLease, Seen
<1> QED
  BY <1>10, <1>11, <1>12, <1>13 DEF IInv, CommitsHold

LEMMA CommitStep ==
    ASSUME IInv, NEW k \in Workers, Commit(k)
    PROVE  IInv'
<1> DEFINE w == worker[k]
           c == w.case
<1>1. /\ w \in WorkerState /\ cases \in [Cases -> CaseRow] /\ TypeOK
      /\ c \in Cases /\ HoldsLease(k, c) /\ Commits(k)
  BY DEF IInv, TypeOK, CommitsHold, Commits, Commit
<1>2. /\ cases' = [cases EXCEPT ![c] = w.row]
      /\ run' = IF w.verdict # None /\ run = "running" THEN w.verdict ELSE run
      /\ worker' = [worker EXCEPT ![k] = Working(w.batch \ {c})]
  BY DEF Commit
<1>3. w.row \in CaseRow /\ w.row.state # "leased" /\ w.row.holder = None
  BY <1>1 DEF WorkerState, Commits
<1>4. /\ Working(w.batch \ {c}) \in WorkerState
      /\ Working(w.batch \ {c}).pc # "committing"
  BY <1>1, WorkingState DEF WorkerState
<1> HIDE DEF w, c
<1>5. /\ worker' \in [Workers -> WorkerState]
      /\ worker'[k].pc # "committing"
      /\ \A x \in Workers \ {k} : worker'[x] = worker[x]
  BY <1>1, <1>2, <1>4, OneWorker
<1>6. /\ cases' \in [Cases -> CaseRow]
      /\ cases'[c] = w.row
      /\ \A x \in Cases \ {c} : cases'[x] = cases[x]
  BY <1>1, <1>2, <1>3
<1>7. run \notin FinalRun
  BY <1>1 DEF IInv, EndedRunIsTallied, Open, States, HoldsLease
<1>8. States' = Seen(c, w.row.state)
  BY <1>6 DEF States, Seen
<1>9. w.verdict # None => /\ Open(Seen(c, w.row.state)) = {}
                          /\ w.verdict = terminalRunState(Seen(c, w.row.state))
                          /\ w.verdict \in FinalRun
  BY <1>1 DEF Commits, w, c
<1>10. TypeOK'
  BY <1>1, <1>2, <1>3, <1>5, <1>6, <1>9 DEF TypeOK, RunState
<1>11. EndedRunIsTallied'
  BY <1>2, <1>7, <1>8, <1>9 DEF EndedRunIsTallied
<1>12. ASSUME NEW x \in Workers, worker'[x].pc = "committing" PROVE Commits(x)'
  <2>1. x # k /\ worker'[x] = worker[x]
    BY <1>5, <1>12
  <2>2. Commits(x)
    BY <1>12, <2>1 DEF IInv, CommitsHold
  <2> DEFINE d == worker[x].case
  <2>3. d \in Cases /\ d # c /\ cases'[d] = cases[d]
    BY <1>1, <1>6, <2>1, <2>2 DEF Commits, HoldsLease
  <2>4. worker[x].verdict = None
    BY <1>1, <2>2, <2>3 DEF Commits, Open, Seen, HoldsLease
  <2> QED
    BY <2>1, <2>2, <2>3, <2>4 DEF Commits, HoldsLease
<1> QED
  BY <1>10, <1>11, <1>12 DEF IInv, CommitsHold

LEMMA Expires ==
    ASSUME IInv, NEW c \in Cases, Expire(c)
    PROVE  IInv'
<1>1. cases \in [Cases -> CaseRow] /\ TypeOK
  BY DEF IInv, TypeOK
<1>2. cases' = [cases EXCEPT ![c] = [cases[c] EXCEPT !.expired = TRUE]]
  BY DEF Expire
<1>3. [cases[c] EXCEPT !.expired = TRUE] \in CaseRow
  BY <1>1 DEF CaseRow
<1>4. /\ cases' \in [Cases -> CaseRow]
      /\ \A x \in Cases : /\ cases'[x].state = cases[x].state
                          /\ cases'[x].holder = cases[x].holder
  BY <1>1, <1>2, <1>3 DEF CaseRow
<1>5. UNCHANGED <<run, worker>>
  BY DEF Expire
<1>6. TypeOK'
  BY <1>1, <1>4, <1>5 DEF TypeOK
<1>7. EndedRunIsTallied'
  BY <1>4, <1>5 DEF IInv, EndedRunIsTallied, States
<1>8. ASSUME NEW x, NEW state PROVE Seen(x, state)' = Seen(x, state)
  BY <1>4 DEF Seen
<1>9. CommitsHold'
  BY <1>4, <1>5, <1>8 DEF IInv, CommitsHold, Commits, HoldsLease
<1> QED
  BY <1>6, <1>7, <1>9 DEF IInv

-----------------------------------------------------------------------------
(* The invariant.                                                          *)

LEMMA InitIInv == Init => IInv
<1> SUFFICES ASSUME Init PROVE IInv
  OBVIOUS
<1>1. 0 \in 0 .. MaxAttempts + 1
  BY AttemptsAssumption
<1>2. NewCase \in CaseRow
  BY <1>1 DEF NewCase, CaseRow
<1>3. Idle \in WorkerState /\ Idle.pc = "idle"
  BY WorkingState
<1>4. TypeOK
  BY <1>2, <1>3 DEF Init, TypeOK, RunState, NewCase
<1>5. EndedRunIsTallied /\ CommitsHold
  BY <1>3 DEF Init, EndedRunIsTallied, FinalRun, CommitsHold
<1> QED
  BY <1>4, <1>5 DEF IInv

LEMMA StepIInv == IInv /\ [Next]_vars => IInv'
<1> SUFFICES ASSUME IInv, [Next]_vars PROVE IInv'
  OBVIOUS
<1>1. ASSUME NEW k \in Workers, NEW c \in Cases, Complete(k, c) PROVE IInv'
  BY <1>1, Settles DEF Complete
<1>2. ASSUME NEW k \in Workers, NEW c \in Cases, ReleaseForRetry(k, c) PROVE IInv'
  <2>1. PICK state \in {"pending", "failed"} : Settle(k, c, state)
    BY <1>2 DEF ReleaseForRetry, Retried
  <2> QED
    BY <2>1, Settles DEF Terminal
<1>3. ASSUME NEW k \in Workers, NEW c \in Cases, RefuseUnscored(k, c) PROVE IInv'
  BY <1>3, WorkerGoesOn, WorkingState DEF RefuseUnscored
<1>4. ASSUME NEW k \in Workers, NEW c \in Cases, LeaseLost(k, c) PROVE IInv'
  <2>1. worker[k].batch \ {c} \in SUBSET Cases
    BY DEF IInv, TypeOK, WorkerState
  <2>2. worker' = [worker EXCEPT ![k] = Working(worker[k].batch \ {c})]
    BY <1>4 DEF LeaseLost
  <2> QED
    BY <1>4, <2>1, <2>2, WorkerGoesOn, WorkingState DEF LeaseLost
<1>5. ASSUME NEW k \in Workers, Abort(k) PROVE IInv'
  BY <1>5, WorkerGoesOn, WorkingState DEF Abort
<1>6. CASE UNCHANGED vars
  BY <1>6 DEF vars, IInv, TypeOK, EndedRunIsTallied, States, CommitsHold,
      Commits, HoldsLease, Seen
<1> QED
  BY <1>1, <1>2, <1>3, <1>4, <1>5, <1>6, Claims, CommitStep, Expires DEF Next

\* The inductive invariant holds in every reachable state, however claims,
\* settlements, commits, expiries and failures of workers interleave.
THEOREM Invariance == Spec => []IInv
<1>1. Init => IInv
  BY InitIInv
<1>2. IInv /\ [Next]_vars => IInv'
  BY StepIInv
<1> QED
  BY <1>1, <1>2, PTL DEF Spec

-----------------------------------------------------------------------------
(* The results.                                                            *)

\* Rows and processes keep the values of their columns and variables.
THEOREM TypeCorrect == Spec => []TypeOK
<1>1. IInv => TypeOK
  BY DEF IInv
<1> QED
  BY <1>1, Invariance, PTL

\* A run that ended has no open case and ended as the tally of its cases.
THEOREM EndedRunsAreTallied == Spec => []EndedRunIsTallied
<1>1. IInv => EndedRunIsTallied
  BY DEF IInv
<1> QED
  BY <1>1, Invariance, PTL

\* Only the commit of a holder, an expiry and a claim after it touch a row
\* under a lease, and nothing touches a terminal row or an ended run.
LEMMA RowChanges ==
    ASSUME IInv, [Next]_vars, NEW c \in Cases, cases'[c] # cases[c]
    PROVE  \/ cases'[c] = [cases[c] EXCEPT !.expired = TRUE] /\ cases[c].state = "leased"
           \/ c \in Claimable /\ cases'[c].state = "leased"
           \/ \E k \in Workers : worker[k].pc = "committing" /\ worker[k].case = c
<1>1. cases \in [Cases -> CaseRow]
  BY DEF IInv, TypeOK
<1>2. ASSUME NEW x \in Cases, Expire(x)
      PROVE  cases'[c] = [cases[c] EXCEPT !.expired = TRUE] /\ cases[c].state = "leased"
  BY <1>1, <1>2 DEF Expire
<1>3. ASSUME NEW k \in Workers, Claim(k)
      PROVE  c \in Claimable /\ cases'[c].state = "leased"
  BY <1>1, <1>3 DEF Claim, Batch, LeasedRow
<1>4. ASSUME NEW k \in Workers, Commit(k)
      PROVE  worker[k].pc = "committing" /\ worker[k].case = c
  BY <1>1, <1>4 DEF Commit
<1>5. \/ \E x \in Cases : Expire(x)
      \/ \E k \in Workers : Claim(k) \/ Commit(k)
  BY DEF Next, vars, Complete, ReleaseForRetry, Settle, RefuseUnscored, LeaseLost, Abort
<1> QED
  BY <1>2, <1>3, <1>4, <1>5

\* No step changes a terminal result or an ended run.
THEOREM TheLedgerIsFinal == Spec => LedgerIsFinal
<1>1. ASSUME IInv, [Next]_vars, NEW c \in Cases, cases[c].state \in Terminal
      PROVE  cases'[c] = cases[c]
  <2>1. cases[c].state \notin {"pending", "leased"}
    BY <1>1 DEF Terminal
  <2>2. c \notin Claimable
    BY <2>1 DEF Claimable
  <2>3. \A k \in Workers : ~ (worker[k].pc = "committing" /\ worker[k].case = c)
    BY <1>1, <2>1 DEF IInv, CommitsHold, Commits, HoldsLease
  <2> QED
    BY <1>1, <2>1, <2>2, <2>3, RowChanges
<1>2. ASSUME [Next]_vars, run \in FinalRun PROVE run' = run
  BY <1>2 DEF Next, vars, FinalRun, Expire, Claim, Complete, ReleaseForRetry, Settle,
      RefuseUnscored, LeaseLost, Commit, Abort
<1>3. IInv /\ [Next]_vars =>
        [/\ \A c \in Cases : cases[c].state \in Terminal => cases'[c] = cases[c]
         /\ run \in FinalRun => run' = run]_vars
  BY <1>1, <1>2
<1> QED
  BY <1>3, Invariance, PTL DEF Spec, LedgerIsFinal

\* A lease ends by its holder's commit or by a claim after it expired.
THEOREM LeasesEndByHolder == Spec => LeaseEndsByHolder
<1>1. ASSUME IInv, [Next]_vars, NEW c \in Cases, NEW k \in Workers,
             HoldsLease(k, c), cases'[c] # cases[c]
      PROVE  \/ cases'[c] = [cases[c] EXCEPT !.expired = TRUE]
             \/ cases'[c].state = "leased" /\ cases[c].expired
             \/ worker[k].pc = "committing" /\ worker[k].case = c
  <2>1. cases[c].state = "leased" /\ cases[c].holder = k
    BY <1>1 DEF HoldsLease
  <2>2. c \in Claimable => cases[c].expired
    BY <2>1 DEF Claimable
  <2>3. \A x \in Workers : worker[x].pc = "committing" /\ worker[x].case = c => x = k
    BY <1>1, <2>1 DEF IInv, CommitsHold, Commits, HoldsLease
  <2> QED
    BY <1>1, <2>2, <2>3, RowChanges
<1>2. IInv /\ [Next]_vars =>
        [\A c \in Cases, k \in Workers :
            HoldsLease(k, c) /\ cases'[c] # cases[c]
              => \/ cases'[c] = [cases[c] EXCEPT !.expired = TRUE]
                 \/ cases'[c].state = "leased" /\ cases[c].expired
                 \/ worker[k].pc = "committing" /\ worker[k].case = c]_vars
  BY <1>1
<1> QED
  BY <1>2, Invariance, PTL DEF Spec, LeaseEndsByHolder

-----------------------------------------------------------------------------
(* The limit of the attempts.                                              *)

HasAttemptLeft(row) == row.state = "pending" => row.attempts < MaxAttempts

\* A row to be written keeps the attempts of the row it replaces.
Counted(k) == worker[k].row.attempts = cases[worker[k].case].attempts

\* What is pending, or about to be, has an attempt left.
AttemptsLeft == /\ \A c \in Cases : HasAttemptLeft(cases[c])
                /\ \A k \in Workers : worker[k].pc = "committing"
                                        => HasAttemptLeft(worker[k].row) /\ Counted(k)

\* A worker that is not, or no longer, settling a case leaves alone the rows
\* that others are about to write.
LEMMA RowsAreKept ==
    ASSUME IInv, AttemptsLeft, NEW k \in Workers, NEW w \in WorkerState,
           w.pc # "committing", worker' = [worker EXCEPT ![k] = w],
           \A c \in Cases : HasAttemptLeft(cases'[c]),
           \A x \in Workers : x # k /\ worker[x].pc = "committing"
              => cases'[worker[x].case].attempts = cases[worker[x].case].attempts
    PROVE  AttemptsLeft'
<1>1. worker'[k] = w /\ \A x \in Workers : x # k => worker'[x] = worker[x]
  BY OneWorker DEF IInv
<1>2. ASSUME NEW x \in Workers, worker'[x].pc = "committing"
      PROVE  HasAttemptLeft(worker'[x].row) /\ Counted(x)'
  BY <1>1, <1>2 DEF AttemptsLeft, Counted
<1> QED
  BY <1>2 DEF AttemptsLeft, HasAttemptLeft

\* The row of a settled case is terminal or has an attempt left.
LEMMA SettledHasAttemptLeft ==
    ASSUME IInv, AttemptsLeft, NEW k \in Workers, NEW c \in Cases, NEW state,
           Settle(k, c, state), HasAttemptLeft(Settled(c, state))
    PROVE  AttemptsLeft'
<1>1. worker \in [Workers -> WorkerState]
  BY DEF IInv, TypeOK
<1>2. /\ worker'[k].row = Settled(c, state) /\ worker'[k].case = c
      /\ \A x \in Workers : x # k => worker'[x] = worker[x]
      /\ cases' = cases
  BY <1>1 DEF Settle, WorkerState
<1>3. Counted(k)'
  BY <1>2 DEF Counted, Settled
<1>4. ASSUME NEW x \in Workers, worker'[x].pc = "committing"
      PROVE  HasAttemptLeft(worker'[x].row) /\ Counted(x)'
  BY <1>2, <1>3, <1>4 DEF AttemptsLeft, Counted
<1> QED
  BY <1>2, <1>4 DEF AttemptsLeft, HasAttemptLeft

LEMMA StepAttemptsLeft ==
    ASSUME IInv, AttemptsLeft, [Next]_vars PROVE AttemptsLeft'
<1>1. /\ cases \in [Cases -> CaseRow] /\ worker \in [Workers -> WorkerState]
      /\ \A c \in Cases : cases[c].attempts \in Int
  BY AttemptsAssumption DEF IInv, TypeOK, CaseRow
<1>2. \A k \in Workers : worker[k].pc = "committing" => worker[k].case \in Cases
  BY DEF IInv, CommitsHold, Commits
<1>3. ASSUME NEW k \in Workers, NEW w \in WorkerState, w.pc # "committing",
             worker' = [worker EXCEPT ![k] = w], cases' = cases
      PROVE  AttemptsLeft'
  BY <1>3, RowsAreKept DEF AttemptsLeft
<1>4. Idle \in WorkerState /\ Idle.pc # "committing"
  BY WorkingState
<1>5. ASSUME NEW c \in Cases, Expire(c) PROVE AttemptsLeft'
  <2>1. \A x \in Cases : cases'[x].state = cases[x].state /\ cases'[x].attempts = cases[x].attempts
    BY <1>1, <1>5 DEF Expire
  <2>2. worker' = worker
    BY <1>5 DEF Expire
  <2> QED
    BY <1>2, <2>1, <2>2 DEF AttemptsLeft, HasAttemptLeft, Counted
<1>6. ASSUME NEW k \in Workers, Claim(k) PROVE AttemptsLeft'
  <2>1. \A c \in Cases : HasAttemptLeft(cases'[c])
    BY <1>6 DEF Claim, LeasedRow, AttemptsLeft, HasAttemptLeft
  <2>2. \A x \in Workers : worker[x].pc = "committing"
           => cases'[worker[x].case] = cases[worker[x].case]
    BY <1>2, <1>6 DEF Claim, Batch, Claimable, Locked
  <2>3. Batch \in SUBSET Cases
    BY DEF Batch, Claimable
  <2>4. Working(Batch) \in WorkerState /\ Working(Batch).pc # "committing"
    BY <2>3, WorkingState
  <2> QED
    BY <1>6, <2>1, <2>2, <2>4, RowsAreKept DEF Claim
<1>7. ASSUME NEW k \in Workers, NEW c \in Cases, Complete(k, c) PROVE AttemptsLeft'
  <2>1. PICK state \in Terminal : Settle(k, c, state)
    BY <1>7 DEF Complete
  <2>2. HasAttemptLeft(Settled(c, state))
    BY DEF HasAttemptLeft, Settled, Terminal
  <2> QED
    BY <2>1, <2>2, SettledHasAttemptLeft
<1>8. ASSUME NEW k \in Workers, NEW c \in Cases, ReleaseForRetry(k, c) PROVE AttemptsLeft'
  <2>1. Settle(k, c, Retried(c))
    BY <1>8 DEF ReleaseForRetry
  <2>2. HasAttemptLeft(Settled(c, Retried(c)))
    BY <1>1, AttemptsAssumption DEF HasAttemptLeft, Settled, Retried
  <2> QED
    BY <2>1, <2>2, SettledHasAttemptLeft
<1>9. ASSUME NEW k \in Workers, NEW c \in Cases, RefuseUnscored(k, c) PROVE AttemptsLeft'
  BY <1>3, <1>4, <1>9 DEF RefuseUnscored
<1>10. ASSUME NEW k \in Workers, NEW c \in Cases, LeaseLost(k, c) PROVE AttemptsLeft'
  <2>1. worker[k].batch \ {c} \in SUBSET Cases
    BY <1>1 DEF WorkerState
  <2>2. /\ Working(worker[k].batch \ {c}) \in WorkerState
        /\ Working(worker[k].batch \ {c}).pc # "committing"
    BY <2>1, WorkingState
  <2>3. worker' = [worker EXCEPT ![k] = Working(worker[k].batch \ {c})] /\ cases' = cases
    BY <1>10 DEF LeaseLost
  <2> QED
    BY <1>3, <2>2, <2>3
<1>11. ASSUME NEW k \in Workers, Commit(k) PROVE AttemptsLeft'
  <2> DEFINE w == Working(worker[k].batch \ {worker[k].case})
  <2>1. \A c \in Cases : HasAttemptLeft(cases'[c])
    BY <1>1, <1>11 DEF Commit, AttemptsLeft
  <2>2. \A c \in Cases : cases'[c].attempts = cases[c].attempts
    BY <1>1, <1>11 DEF Commit, AttemptsLeft, Counted
  <2>3. worker[k].batch \ {worker[k].case} \in SUBSET Cases
    BY <1>1 DEF WorkerState
  <2>4. w \in WorkerState /\ w.pc # "committing"
    BY <2>3, WorkingState
  <2>5. worker' = [worker EXCEPT ![k] = w]
    BY <1>11 DEF Commit
  <2> HIDE DEF w
  <2> QED
    BY <1>2, <2>1, <2>2, <2>4, <2>5, RowsAreKept
<1>12. ASSUME NEW k \in Workers, Abort(k) PROVE AttemptsLeft'
  BY <1>3, <1>4, <1>12 DEF Abort
<1>13. CASE UNCHANGED vars
  BY <1>13 DEF vars, AttemptsLeft, HasAttemptLeft, Counted
<1> QED
  BY <1>5, <1>6, <1>7, <1>8, <1>9, <1>10, <1>11, <1>12, <1>13 DEF Next

\* Only the claim of an expired lease begins an attempt beyond the limit: an
\* error returns a case to the queue while it has an attempt left.
THEOREM RetriesHaveALimit == Spec => RetriesAreBounded
<1>1. Init => AttemptsLeft
  BY AttemptsAssumption DEF Init, AttemptsLeft, HasAttemptLeft, NewCase, Idle
<1>2. ASSUME IInv, AttemptsLeft, [Next]_vars, NEW c \in Cases,
             cases[c].attempts <= MaxAttempts, cases'[c].attempts > MaxAttempts
      PROVE  cases[c].state = "leased" /\ cases[c].expired
  <2>1. cases \in [Cases -> CaseRow] /\ cases[c].attempts \in Int
    BY <1>2, AttemptsAssumption DEF IInv, TypeOK, CaseRow
  <2>2. ASSUME NEW x \in Cases, Expire(x) PROVE cases'[c].attempts = cases[c].attempts
    BY <2>1, <2>2 DEF Expire
  <2>3. ASSUME NEW k \in Workers, Commit(k) PROVE cases'[c].attempts = cases[c].attempts
    BY <1>2, <2>1, <2>3 DEF Commit, AttemptsLeft, Counted
  <2>4. cases'[c] # cases[c]
    BY <1>2, <2>1, AttemptsAssumption
  <2>5. \/ \E x \in Cases : Expire(x)
        \/ \E k \in Workers : Claim(k) \/ Commit(k)
    BY <1>2, <2>4
       DEF Next, vars, Complete, ReleaseForRetry, Settle, RefuseUnscored, LeaseLost, Abort
  <2>6. PICK k \in Workers : Claim(k)
    BY <1>2, <2>1, <2>2, <2>3, <2>5, AttemptsAssumption
  <2>7. c \in Claimable /\ cases'[c].attempts = Attempt(cases[c].attempts)
    BY <2>1, <2>4, <2>6 DEF Claim, Batch, LeasedRow
  <2>8. cases[c].state # "pending"
    BY <1>2, <2>1, <2>7, AttemptsAssumption DEF AttemptsLeft, HasAttemptLeft, Attempt
  <2> QED
    BY <2>7, <2>8 DEF Claimable
<1>3. IInv /\ AttemptsLeft /\ [Next]_vars => AttemptsLeft'
  BY StepAttemptsLeft
<1>4. IInv /\ AttemptsLeft /\ [Next]_vars =>
        [\A c \in Cases : cases[c].attempts <= MaxAttempts /\ cases'[c].attempts > MaxAttempts
            => cases[c].state = "leased" /\ cases[c].expired]_vars
  BY <1>2
<1> QED
  BY <1>1, <1>3, <1>4, Invariance, PTL DEF Spec, RetriesAreBounded

-----------------------------------------------------------------------------
(* The end of a run, when its transactions do not overlap.                 *)

\* At most one transaction that settles a case is open at a time.
CommitsAreApart ==
    \A k, l \in Workers : worker[k].pc = "committing" /\ worker[l].pc = "committing" => k = l

OpenRow(row) == row.state \in {"pending", "leased"}

\* A transaction that leaves the run alone saw a case that is still open when
\* it has committed.
LeavesOpen(k) ==
    worker[k].verdict = None =>
        \/ OpenRow(worker[k].row)
        \/ \E c \in Cases \ {worker[k].case} : OpenRow(cases[c])

\* A run is queued until the first claim and ends with its last case.
EndsWithLastCase ==
    /\ run = "queued" => \A c \in Cases : cases[c].state = "pending"
    /\ \A k \in Workers : worker[k].pc = "committing" => LeavesOpen(k)
    /\ (\A c \in Cases : ~ OpenRow(cases[c])) => run \in FinalRun

\* A step that commits nothing keeps open cases open.
LEMMA OpenCasesStay ==
    ASSUME EndsWithLastCase, run' \in {run, "running"},
           run' = "queued" => UNCHANGED cases,
           run \in FinalRun => run' = run,
           \A c \in Cases : OpenRow(cases[c]) => OpenRow(cases'[c]),
           \A k \in Workers : worker'[k].pc = "committing"
                                => worker'[k] = worker[k] \/ LeavesOpen(k)'
    PROVE  EndsWithLastCase'
<1>1. ASSUME NEW k \in Workers, worker'[k].pc = "committing" PROVE LeavesOpen(k)'
  BY <1>1 DEF EndsWithLastCase, LeavesOpen
<1>2. ASSUME \A c \in Cases : ~ OpenRow(cases'[c]) PROVE run' \in FinalRun
  BY <1>2 DEF EndsWithLastCase
<1>3. ASSUME run' = "queued" PROVE \A c \in Cases : cases'[c].state = "pending"
  BY <1>3 DEF EndsWithLastCase
<1> QED
  BY <1>1, <1>2, <1>3 DEF EndsWithLastCase

\* While a transaction is open no other can commit, and claims keep open cases
\* open: what it saw is what there is.
LEMMA StepEndsWithLastCase ==
    ASSUME IInv, CommitsAreApart, EndsWithLastCase, [Next]_vars
    PROVE  EndsWithLastCase'
<1>1. /\ cases \in [Cases -> CaseRow] /\ worker \in [Workers -> WorkerState]
      /\ TypeOK /\ CommitsHold /\ run \in RunState
  BY DEF IInv, TypeOK
<1>2. ASSUME NEW k \in Workers, NEW w \in WorkerState, w.pc # "committing",
             worker' = [worker EXCEPT ![k] = w], UNCHANGED <<run, cases>>
      PROVE  EndsWithLastCase'
  BY <1>1, <1>2, OneWorker, OpenCasesStay
<1>3. ASSUME NEW k \in Workers, NEW c \in Cases, NEW state, Settle(k, c, state)
      PROVE  EndsWithLastCase'
  <2> DEFINE verdict == Verdict(Seen(c, state))
  <2>1. worker' = [worker EXCEPT ![k] = [worker[k] EXCEPT
            !.pc = "committing", !.case = c, !.row = Settled(c, state), !.verdict = verdict]]
    BY <1>3 DEF Settle
  <2> HIDE DEF verdict
  <2>2. /\ worker'[k].case = c /\ worker'[k].row = Settled(c, state)
        /\ worker'[k].verdict = verdict
        /\ \A x \in Workers \ {k} : worker'[x] = worker[x]
    BY <1>1, <2>1 DEF WorkerState
  <2>3. UNCHANGED <<run, cases>>
    BY <1>3 DEF Settle
  <2>4. ASSUME verdict = None
        PROVE  state \in {"pending", "leased"} \/ \E x \in Cases \ {c} : OpenRow(cases[x])
    <3>1. Open(Seen(c, state)) # {}
      BY <2>4, TallyEnds, VerdictAssumption DEF verdict, Verdict, RunState
    <3> QED
      BY <3>1 DEF Open, Seen, OpenRow
  <2>5. LeavesOpen(k)'
    BY <2>2, <2>3, <2>4 DEF LeavesOpen, OpenRow, Settled
  <2> QED
    BY <2>2, <2>3, <2>5, OpenCasesStay
<1>4. ASSUME NEW c \in Cases, Expire(c) PROVE EndsWithLastCase'
  <2>1. \A x \in Cases : cases'[x].state = cases[x].state
    BY <1>1, <1>4 DEF Expire, CaseRow
  <2>2. UNCHANGED <<run, worker>> /\ cases[c].state = "leased"
    BY <1>4 DEF Expire
  <2>3. run # "queued"
    BY <2>2 DEF EndsWithLastCase
  <2> QED
    BY <2>1, <2>2, <2>3, OpenCasesStay DEF OpenRow
<1>5. ASSUME NEW k \in Workers, Claim(k) PROVE EndsWithLastCase'
  <2>1. Batch \in SUBSET Cases
    BY DEF Batch, Claimable
  <2>2. /\ run \notin FinalRun /\ run' = "running"
        /\ \A x \in Cases : cases'[x] = IF x \in Batch THEN LeasedRow(k, x) ELSE cases[x]
        /\ worker' = [worker EXCEPT ![k] = Working(Batch)]
    BY <1>5 DEF Claim, FinalRun
  <2>3. Working(Batch) \in WorkerState /\ Working(Batch).pc # "committing"
    BY <2>1, WorkingState
  <2>4. \A x \in Cases : OpenRow(cases[x]) => OpenRow(cases'[x])
    <3>1. \A x \in Cases : LeasedRow(k, x).state = "leased"
      BY DEF LeasedRow
    <3> QED
      BY <2>2, <3>1 DEF OpenRow
  <2>5. \A x \in Workers : worker'[x].pc = "committing" => worker'[x] = worker[x]
    BY <1>1, <2>2, <2>3, OneWorker
  <2> QED
    BY <2>2, <2>4, <2>5, OpenCasesStay
<1>6. ASSUME NEW k \in Workers, Commit(k) PROVE EndsWithLastCase'
  <2> DEFINE w == worker[k]
             next == Working(w.batch \ {w.case})
  <2>1. w.pc = "committing" /\ Commits(k)
    BY <1>1, <1>6 DEF Commit, CommitsHold
  <2>2. w.case \in Cases /\ cases[w.case].state = "leased"
    BY <2>1 DEF Commits, HoldsLease
  <2>3. run = "running"
    <3>1. run # "queued"
      BY <2>2 DEF EndsWithLastCase
    <3>2. run \notin FinalRun
      BY <2>2 DEF IInv, EndedRunIsTallied, Open, States
    <3> QED
      BY <1>1, <3>1, <3>2 DEF RunState
  <2>4. /\ cases'[w.case] = w.row /\ \A x \in Cases \ {w.case} : cases'[x] = cases[x]
        /\ run' = IF w.verdict # None THEN w.verdict ELSE "running"
    BY <1>1, <1>6, <2>2, <2>3 DEF Commit
  <2>5. w.batch \ {w.case} \in SUBSET Cases
    BY <1>1 DEF WorkerState
  <2>6. next \in WorkerState /\ next.pc # "committing"
    BY <2>5, WorkingState
  <2>7. worker' = [worker EXCEPT ![k] = next]
    BY <1>6 DEF Commit
  <2> HIDE DEF next
  <2>8. \A x \in Workers : worker'[x].pc # "committing"
    BY <1>1, <2>1, <2>6, <2>7, OneWorker DEF CommitsAreApart
  <2>9. LeavesOpen(k)
    BY <2>1 DEF EndsWithLastCase
  <2>10. CASE w.verdict = None
    BY <2>2, <2>4, <2>8, <2>9, <2>10 DEF EndsWithLastCase, LeavesOpen
  <2>11. CASE w.verdict # None
    <3>1. w.verdict \in FinalRun
      BY <2>1, <2>11 DEF Commits
    <3> QED
      BY <2>4, <2>8, <2>11, <3>1 DEF EndsWithLastCase, FinalRun
  <2> QED
    BY <2>10, <2>11
<1>7. ASSUME NEW k \in Workers, NEW c \in Cases,
             Complete(k, c) \/ ReleaseForRetry(k, c)
      PROVE  EndsWithLastCase'
  BY <1>3, <1>7 DEF Complete, ReleaseForRetry
<1>8. Idle \in WorkerState /\ Idle.pc # "committing"
  BY WorkingState
<1>9. ASSUME NEW k \in Workers, NEW c \in Cases, RefuseUnscored(k, c) PROVE EndsWithLastCase'
  BY <1>2, <1>8, <1>9 DEF RefuseUnscored
<1>10. ASSUME NEW k \in Workers, NEW c \in Cases, LeaseLost(k, c) PROVE EndsWithLastCase'
  <2>1. worker[k].batch \ {c} \in SUBSET Cases
    BY <1>1 DEF WorkerState
  <2>2. /\ Working(worker[k].batch \ {c}) \in WorkerState
        /\ Working(worker[k].batch \ {c}).pc # "committing"
    BY <2>1, WorkingState
  <2>3. /\ worker' = [worker EXCEPT ![k] = Working(worker[k].batch \ {c})]
        /\ UNCHANGED <<run, cases>>
    BY <1>10 DEF LeaseLost
  <2> QED
    BY <1>2, <2>2, <2>3
<1>11. ASSUME NEW k \in Workers, Abort(k) PROVE EndsWithLastCase'
  BY <1>2, <1>8, <1>11 DEF Abort
<1>12. CASE UNCHANGED vars
  <2>1. UNCHANGED <<run, cases, worker>>
    BY <1>12 DEF vars
  <2> QED
    BY <2>1, OpenCasesStay
<1> QED
  BY <1>4, <1>5, <1>6, <1>7, <1>9, <1>10, <1>11, <1>12 DEF Next

\* The transaction of the last case ends the run whenever no two transactions
\* of the run overlap: what LastCaseEndsRun fails for is only their overlap.
THEOREM SerialCommitsEndTheRun == Spec /\ []CommitsAreApart => []LastCaseEndsRun
<1>1. ASSUME Init PROVE EndsWithLastCase
  <2>1. \A c \in Cases : cases[c].state = "pending"
    BY <1>1 DEF Init, NewCase
  <2>2. \A k \in Workers : worker[k].pc = "idle"
    BY <1>1 DEF Init, Idle
  <2> QED
    BY <2>1, <2>2, CasesAssumption DEF EndsWithLastCase, OpenRow
<1>2. EndsWithLastCase => LastCaseEndsRun
  BY DEF EndsWithLastCase, LastCaseEndsRun, Open, States, OpenRow
<1> QED
  BY <1>1, <1>2, StepEndsWithLastCase, Invariance, PTL DEF Spec

\* A deployment with one evaluation worker ends all its runs.
THEOREM OneWorkerEndsTheRun ==
    ASSUME \A k, l \in Workers : k = l
    PROVE  Spec => []LastCaseEndsRun
<1>1. CommitsAreApart
  BY DEF CommitsAreApart
<1> QED
  BY <1>1, SerialCommitsEndTheRun, PTL

\* Every case is terminal and no transaction is left that could end the run.
RunIsStranded == /\ \A c \in Cases : ~ OpenRow(cases[c])
                 /\ \A k \in Workers : worker[k].pc # "committing"
                 /\ run \notin FinalRun

LEMMA StrandedStays ==
    ASSUME IInv, RunIsStranded, [Next]_vars
    PROVE  RunIsStranded'
<1>1. worker \in [Workers -> WorkerState]
  BY DEF IInv, TypeOK
<1>2. \A c \in Cases : cases[c].state \notin {"pending", "leased"}
  BY DEF RunIsStranded, OpenRow
<1>3. ASSUME NEW k \in Workers, NEW w \in WorkerState, w.pc # "committing",
             worker' = [worker EXCEPT ![k] = w], UNCHANGED <<run, cases>>
      PROVE  RunIsStranded'
  BY <1>1, <1>3 DEF RunIsStranded, OpenRow
<1>4. ASSUME NEW k \in Workers PROVE ~ Claim(k)
  BY <1>2 DEF Claim, Batch, Claimable
<1>5. ASSUME NEW k \in Workers, NEW c \in Cases
      PROVE  ~ Complete(k, c) /\ ~ ReleaseForRetry(k, c) /\ ~ RefuseUnscored(k, c)
  BY <1>2 DEF Complete, ReleaseForRetry, RefuseUnscored, Settle, HoldsLease
<1>6. ASSUME NEW k \in Workers PROVE ~ Commit(k)
  BY DEF Commit, RunIsStranded
<1>7. ASSUME NEW c \in Cases PROVE ~ Expire(c)
  BY <1>2 DEF Expire
<1>8. ASSUME NEW k \in Workers, NEW c \in Cases, LeaseLost(k, c) PROVE RunIsStranded'
  <2>1. worker[k].batch \ {c} \in SUBSET Cases
    BY <1>1 DEF WorkerState
  <2>2. /\ Working(worker[k].batch \ {c}) \in WorkerState
        /\ Working(worker[k].batch \ {c}).pc # "committing"
    BY <2>1, WorkingState
  <2>3. /\ worker' = [worker EXCEPT ![k] = Working(worker[k].batch \ {c})]
        /\ UNCHANGED <<run, cases>>
    BY <1>8 DEF LeaseLost
  <2> QED
    BY <1>3, <2>2, <2>3
<1>9. Idle \in WorkerState /\ Idle.pc # "committing"
  BY WorkingState
<1>10. ASSUME NEW k \in Workers, Abort(k) PROVE RunIsStranded'
  BY <1>3, <1>9, <1>10 DEF Abort
<1>11. CASE UNCHANGED vars
  BY <1>11 DEF vars, RunIsStranded, OpenRow
<1> QED
  BY <1>4, <1>5, <1>6, <1>7, <1>8, <1>10, <1>11 DEF Next

\* A run that its last cases failed to end never ends: no
\* claim, commit, retry or takeover of a lease leads out of it.
THEOREM StrandedRunsStay == Spec => [](RunIsStranded => []RunIsStranded)
<1>1. IInv /\ RunIsStranded /\ [Next]_vars => RunIsStranded'
  BY StrandedStays
<1> QED
  BY <1>1, Invariance, PTL DEF Spec

\* What LastCaseEndsRun excludes is a stranded run.
LEMMA StrandedIsNotEnded == LastCaseEndsRun <=> ~ RunIsStranded
BY DEF LastCaseEndsRun, RunIsStranded, Open, States, OpenRow
=============================================================================
