-------------------------- MODULE PayrollRunProofs --------------------------
(***************************************************************************)
(* Proofs about PayrollRun: a period never has two runs that count, runs   *)
(* keep what they were computed from, the periods follow PayrollLedger,    *)
(* no handler but a save touches what an admin typed, net pay stays        *)
(* between zero and gross pay whatever the sessions do, and with one       *)
(* session the deductions of a line never sum to more than its gross pay.  *)
(***************************************************************************)
EXTENDS PayrollRun, FiniteSetTheorems, WellFoundedInduction, TLAPS

Statuses == {"none", "draft", "finalized", "voided"}

\* The tables of runs are functions on Runs, with the statuses of the type
\* payroll_run_status.
RunTables ==
    /\ status \in [Runs -> Statuses]
    /\ period = [r \in Runs |-> period[r]]
    /\ hash = [r \in Runs |-> hash[r]]

RunInv == RunTables /\ OneActiveRun

\* What a step may do to the statuses of the runs.
Inserted(r) ==
    /\ status[r] = "none"
    /\ status' = [status EXCEPT ![r] = "draft"]
    /\ ActiveRuns(period'[r]) = {}
    /\ \E p : period' = [period EXCEPT ![r] = p]
    /\ \E h : hash' = [hash EXCEPT ![r] = h]
Ended(r, end) ==
    /\ status[r] = "draft"
    /\ status' = [status EXCEPT ![r] = end]
    /\ UNCHANGED <<period, hash>>
RunStep ==
    \/ UNCHANGED <<status, period, hash>>
    \/ \E r \in Runs : Inserted(r)
    \/ \E r \in Runs : Ended(r, "voided")
    \/ \E r \in Runs : Ended(r, "finalized")

\* A guarded UPDATE of a run's status ends a draft or changes nothing.
LEMMA GuardedUpdate ==
    ASSUME RunTables, NEW r, NEW end,
           status' = [status EXCEPT ![r] = IF @ = "draft" THEN end ELSE @],
           UNCHANGED <<period, hash>>
    PROVE  \/ UNCHANGED <<status, period, hash>>
           \/ r \in Runs /\ Ended(r, end)
<1>1. CASE r \in Runs /\ status[r] = "draft"
  BY <1>1 DEF Ended
<1>2. CASE ~(r \in Runs /\ status[r] = "draft")
  <2>1. status' = status
    BY <1>2 DEF RunTables
  <2> QED
    BY <2>1
<1> QED
  BY <1>1, <1>2

\* Only four of the actions write the table of runs.
LEMMA EveryStepIsRunStep ==
    ASSUME RunTables, [Next]_vars
    PROVE  RunStep
<1>1. ASSUME NEW s \in Sessions, CreateInsert(s) PROVE RunStep
  <2>1. CASE UNCHANGED books
    BY <2>1 DEF books, RunStep
  <2>2. CASE ~UNCHANGED books
    <3>1. PICK r \in Runs :
             /\ status[r] = "none"
             /\ ActiveRuns(job[s].period) = {}
             /\ status' = [status EXCEPT ![r] = "draft"]
             /\ period' = [period EXCEPT ![r] = job[s].period]
             /\ hash' = [hash EXCEPT ![r] = SnapshotHash(job[s].sheet)]
      BY <1>1, <2>2 DEF CreateInsert, ViolatesOneActive
    <3>2. period'[r] = job[s].period
      BY <3>1 DEF RunTables
    <3>3. Inserted(r)
      BY <3>1, <3>2 DEF Inserted
    <3> QED
      BY <3>3 DEF RunStep
  <2> QED
    BY <2>1, <2>2
<1>2. ASSUME NEW s \in Sessions, AutoVoid(s) PROVE RunStep
  BY <1>2, GuardedUpdate DEF AutoVoid, VoidIfDraft, RunStep
<1>3. ASSUME NEW r \in Runs, Void(r) PROVE RunStep
  BY <1>3, GuardedUpdate DEF Void, VoidIfDraft, RunStep
<1>4. ASSUME NEW s \in Sessions, FinalizeWrite(s) PROVE RunStep
  BY <1>4, GuardedUpdate DEF FinalizeWrite, RunStep
<1>5. ASSUME NEW s \in Sessions, Job(s),
             ~CreateInsert(s), ~AutoVoid(s), ~FinalizeWrite(s)
      PROVE  UNCHANGED <<status, period, hash>>
  BY <1>5 DEF Job, books, ReopenBegin, ReopenDelete, EditBegin, EditWrite,
       ReadSums, CreateBegin, CreateSummary, AutoBegin, Defaults, DefaultInsert, GovPlan,
       LwopPlan, WriteAuto, InsertAuto, Refresh, RecalcBegin, RecalcDelete,
       LwopBegin, SaveBegin, SaveWrite, FinalizeBegin, FinalizeStale,
       FinalizePreflight, FinalizeRefresh
<1>6. ASSUME \/ \E p \in Periods : ClosePeriod(p) \/ HolidayChange(p)
             \/ \E e \in Employees : DueChange(e)
             \/ ToggleChange
             \/ UNCHANGED vars
      PROVE  UNCHANGED <<status, period, hash>>
  BY <1>6 DEF ClosePeriod, HolidayChange, DueChange, ToggleChange, books, vars
<1> QED
  BY <1>1, <1>2, <1>3, <1>4, <1>5, <1>6 DEF Next, RunStep

\* The tables start empty, and every step leaves one active run per period.
LEMMA RunInvInductive ==
    /\ Init => RunInv
    /\ RunInv /\ [Next]_vars => RunInv'
<1>1. Init => RunInv
  BY DEF Init, RunInv, RunTables, OneActiveRun, Statuses, Active
<1>2. RunInv /\ [Next]_vars => RunInv'
  <2> SUFFICES ASSUME RunInv, [Next]_vars PROVE RunInv'
    OBVIOUS
  <2>1. RunStep
    BY EveryStepIsRunStep DEF RunInv
  <2>2. CASE UNCHANGED <<status, period, hash>>
    BY <2>2 DEF RunInv, RunTables, OneActiveRun
  <2>3. ASSUME NEW r \in Runs, Inserted(r) PROVE RunInv'
    <3>1. RunTables'
      BY <2>3 DEF RunInv, RunTables, Inserted, Statuses
    <3>2. \A q \in Runs \ {r} : period'[q] = period[q] /\ status'[q] = status[q]
      BY <2>3 DEF RunInv, RunTables, Inserted
    <3>3. \A q \in Runs \ {r} :
             ~(status'[q] \in Active /\ period'[q] = period'[r])
      BY <2>3, <3>2 DEF Inserted, ActiveRuns
    <3>4. OneActiveRun'
      BY <3>2, <3>3 DEF RunInv, OneActiveRun
    <3> QED
      BY <3>1, <3>4 DEF RunInv
  <2>4. ASSUME NEW r \in Runs, NEW end \in {"voided", "finalized"}, Ended(r, end)
        PROVE  RunInv'
    <3>1. RunTables'
      BY <2>4 DEF RunInv, RunTables, Ended, Statuses
    <3>2. \A q \in Runs : status'[q] \in Active => status[q] \in Active
      BY <2>4 DEF RunInv, RunTables, Ended, Active
    <3>3. OneActiveRun'
      BY <2>4, <3>2 DEF RunInv, OneActiveRun, Ended
    <3> QED
      BY <3>1, <3>3 DEF RunInv
  <2> QED
    BY <2>1, <2>2, <2>3, <2>4 DEF RunStep
<1> QED
  BY <1>1, <1>2

\* A pay period never has two runs that count (PayrollRun!OneActiveRun).
THEOREM OneRunPerPeriod == Spec => []OneActiveRun
<1>1. RunInv => OneActiveRun
  BY DEF RunInv
<1> QED
  BY <1>1, RunInvInductive, PTL DEF Spec

\* The tables keep their shape.
THEOREM RunsKnown == Spec => []RunInv
  BY RunInvInductive, PTL DEF Spec

\* A step that leaves a run's status and period alone leaves its entries alone.
LEMMA BookOfPeriod ==
    ASSUME RunInv, NEW p \in Periods, NEW r \in Runs,
           status[r] \in Active, period[r] = p
    PROVE  Book[p] = {Ledger!Entry(r, status[r] = "finalized")}
<1>1. ActiveRuns(p) = {r}
  BY DEF RunInv, OneActiveRun, ActiveRuns
<1> QED
  BY <1>1 DEF Book, Ledger!Entry

\* A step that ends the draft r changes no other period's book, and its own
\* to the entry of a finalized run, or to nothing.
LEMMA EndedBook ==
    ASSUME RunInv, RunInv', NEW r \in Runs,
           NEW end \in {"voided", "finalized"}, Ended(r, end),
           NEW p, p = period[r]
    PROVE  [Ledger!Next]_Book
<1>1. /\ status'[r] = end
      /\ \A q \in Runs \ {r} : status'[q] = status[q]
      /\ \A q \in Runs : period'[q] = period[q]
  BY DEF Ended, RunInv, RunTables
<1>2. \A x \in Periods \ {p} : Book'[x] = Book[x]
  <2> SUFFICES ASSUME NEW x \in Periods \ {p} PROVE Book'[x] = Book[x]
    OBVIOUS
  <2>1. ActiveRuns(x)' = ActiveRuns(x)
    BY <1>1 DEF ActiveRuns
  <2>2. \A q \in ActiveRuns(x) : q # r
    BY DEF ActiveRuns
  <2> QED
    BY <1>1, <2>1, <2>2 DEF Book, ActiveRuns
<1>3. CASE p \notin Periods
  BY <1>2, <1>3 DEF Book
<1>4. CASE p \in Periods
  <2>1. Book[p] = {Ledger!Entry(r, FALSE)}
    BY <1>4, BookOfPeriod DEF Ended, Active
  <2>2. Book = [x \in Periods |-> Book[x]] /\ Book' = [x \in Periods |-> Book'[x]]
    BY DEF Book
  <2>3. CASE end = "finalized"
    <3>1. Book'[p] = {Ledger!Entry(r, TRUE)}
      <4>1. ActiveRuns(p)' = {r}
        BY <1>1, <2>3 DEF RunInv, OneActiveRun, ActiveRuns, Active
      <4>2. Book'[p] = {Ledger!Entry(r, status'[r] = "finalized")}
        BY <1>4, <4>1 DEF Book, Ledger!Entry
      <4>3. (status'[r] = "finalized") = TRUE
        BY <1>1, <2>3
      <4> QED
        BY <4>2, <4>3
    <3>2. Book' = [Book EXCEPT ![p] = {Ledger!Entry(r, TRUE)}]
      BY <1>2, <1>4, <2>2, <3>1
    <3> QED
      BY <1>4, <2>1, <3>2 DEF Ledger!Next, Ledger!Pay
  <2>4. CASE end = "voided"
    <3>1. Book'[p] = {}
      <4>1. ActiveRuns(p)' = {}
        BY <1>1, <2>4 DEF RunInv, OneActiveRun, ActiveRuns, Active, Ended
      <4> QED
        BY <1>4, <4>1 DEF Book
    <3>2. Book' = [Book EXCEPT ![p] = {}]
      BY <1>2, <1>4, <2>2, <3>1
    <3> QED
      BY <1>4, <2>1, <3>2 DEF Ledger!Next, Ledger!GiveUp
  <2> QED
    BY <2>3, <2>4
<1> QED
  BY <1>3, <1>4

\* The insertion of a draft puts it in the empty book of its period.
LEMMA InsertedBook ==
    ASSUME RunInv, RunInv', NEW r \in Runs, Inserted(r),
           NEW p, p = period'[r]
    PROVE  [Ledger!Next]_Book
<1>1. /\ status[r] = "none"
      /\ status'[r] = "draft"
      /\ \A q \in Runs \ {r} : status'[q] = status[q] /\ period'[q] = period[q]
  BY DEF Inserted, RunInv, RunTables
<1>2. \A x \in Periods \ {p} : Book'[x] = Book[x]
  <2> SUFFICES ASSUME NEW x \in Periods \ {p} PROVE Book'[x] = Book[x]
    OBVIOUS
  <2>1. ActiveRuns(x)' = ActiveRuns(x)
    BY <1>1 DEF ActiveRuns, Active
  <2>2. \A q \in ActiveRuns(x) : q # r
    BY <1>1 DEF ActiveRuns, Active
  <2> QED
    BY <1>1, <2>1, <2>2 DEF Book, ActiveRuns
<1>3. CASE p \notin Periods
  BY <1>2, <1>3 DEF Book
<1>4. CASE p \in Periods
  <2>1. Book[p] = {}
    BY <1>4 DEF Inserted, Book
  <2>2. Book'[p] = {Ledger!Entry(r, FALSE)}
    <3>1. ActiveRuns(p)' = {r}
      BY <1>1 DEF RunInv, OneActiveRun, ActiveRuns, Active
    <3>2. Book'[p] = {[run |-> x, paid |-> status'[x] = "finalized"] : x \in ActiveRuns(p)'}
      BY <1>4 DEF Book
    <3>3. (status'[r] = "finalized") = FALSE
      BY <1>1
    <3> QED
      BY <3>1, <3>2, <3>3 DEF Ledger!Entry
  <2>3. Book' = [Book EXCEPT ![p] = {Ledger!Entry(r, FALSE)}]
    <3>1. Book = [x \in Periods |-> Book[x]] /\ Book' = [x \in Periods |-> Book'[x]]
      BY DEF Book
    <3> QED
      BY <1>2, <1>4, <2>2, <3>1
  <2> QED
    BY <1>4, <2>1, <2>3 DEF Ledger!Next, Ledger!Draft
<1> QED
  BY <1>3, <1>4

\* Payroll runs implement PayrollLedger: each period is drafted, given up and
\* paid as it says, whatever the handlers' interleaving.
THEOREM ImplementsLedger == Spec => LedgerSpec
<1>1. Init => Ledger!Init
  <2> SUFFICES ASSUME Init PROVE \A p \in Periods : Book[p] = {}
    BY DEF Ledger!Init, Book
  <2>1. \A p \in Periods : ActiveRuns(p) = {}
    BY DEF Init, ActiveRuns, Active
  <2> QED
    BY <2>1 DEF Book
<1>2. RunInv /\ RunInv' /\ [Next]_vars => [Ledger!Next]_Book
  <2> SUFFICES ASSUME RunInv, RunInv', [Next]_vars PROVE [Ledger!Next]_Book
    OBVIOUS
  <2>1. RunStep
    BY EveryStepIsRunStep DEF RunInv
  <2>2. CASE UNCHANGED <<status, period, hash>>
    BY <2>2 DEF Book, ActiveRuns
  <2> QED
    BY <2>1, <2>2, EndedBook, InsertedBook DEF RunStep
<1> QED
  BY <1>1, <1>2, RunsKnown, PTL DEF Spec, LedgerSpec, Ledger!Spec

(***************************************************************************)
(* What a job is at each of its steps.                                     *)
(***************************************************************************)
CreateSteps == {"auto_begin", "defaults", "default", "gov", "lwop", "write",
                "insert", "sums", "refresh", "auto_void"}
RecalcSteps == {"recalc", "lwop_begin", "gov", "lwop", "write", "insert",
                "sums", "refresh"}
OtherSteps == {"idle", "reopen", "edit", "summary", "insert_run", "save",
               "stale", "preflight", "fin_sums", "fin_refresh", "finalize"}

JobShape(j) ==
    j = [at |-> j.at, kind |-> j.kind, run |-> j.run, period |-> j.period,
         sheet |-> j.sheet, due |-> j.due, toggles |-> j.toggles,
         todo |-> j.todo, line |-> j.line, plan |-> j.plan,
         type |-> j.type, input |-> j.input, sums |-> j.sums]

JobOK(j) ==
    /\ JobShape(j)
    /\ \/ j.kind = "create" /\ j.at \in CreateSteps /\ j.run \in Runs
       \/ /\ j.kind \in {"recalc_gov", "recalc_lwop"}
          /\ j.at \in RecalcSteps
          /\ j.run \in Runs
       \/ j.kind = "none" /\ j.at \in OtherSteps
    /\ j.at = "save" => j.input \in [Types -> Typed]
    /\ j.at \in {"stale", "preflight", "fin_sums", "fin_refresh", "finalize"} =>
          j.run \in Runs

JobsOK ==
    /\ job = [s \in Sessions |-> job[s]]
    /\ \A s \in Sessions : JobOK(job[s])

\* Session s moves to a job of the right shape, and a creation stays one until
\* its refresh or its void.
JobMove(s) ==
    \E n : /\ Be(s, n)
           /\ JobOK(n)
           /\ job[s].kind = "create" /\ job[s].at \notin {"refresh", "auto_void"}
                => n.kind = "create"

LEMMA IdleOK == JobOK(Idle)
  BY DEF JobOK, JobShape, Idle, OtherSteps

\* The next line of a loop, and what follows a write, belong to the same loop.
LEMMA NextLineOK ==
    ASSUME NEW j, JobOK(j), j.kind # "none", NEW n \in NextLine(j)
    PROVE  JobOK(n) /\ n.kind = j.kind
<1>1. CASE j.todo = {}
  BY <1>1 DEF NextLine, JobOK, JobShape, CreateSteps, RecalcSteps, OtherSteps
<1>2. CASE j.todo # {}
  <2>1. PICK e \in j.todo :
           n = [j EXCEPT !.line = e, !.todo = @ \ {e}, !.plan = {},
                         !.type = None,
                         !.at = CASE j.kind = "create" -> "defaults"
                                  [] j.kind = "recalc_gov" -> "gov"
                                  [] j.kind = "recalc_lwop" -> "lwop"]
    BY <1>2 DEF NextLine
  <2> QED
    BY <2>1 DEF JobOK, JobShape, CreateSteps, RecalcSteps, OtherSteps
<1> QED
  BY <1>1, <1>2

LEMMA AfterGovOK ==
    ASSUME NEW j, JobOK(j), j.kind # "none", NEW n \in AfterGov(j)
    PROVE  JobOK(n) /\ n.kind = j.kind
<1>1. CASE j.kind = "create"
  <2>1. n = [j EXCEPT !.at = "lwop", !.plan = {}, !.type = None]
    BY <1>1 DEF AfterGov
  <2>2. JobShape(n) /\ n.at = "lwop" /\ n.kind = j.kind /\ n.run = j.run
    BY <2>1 DEF JobOK, JobShape
  <2> QED
    BY <1>1, <2>2 DEF JobOK, CreateSteps
<1>2. CASE j.kind # "create"
  BY <1>2, NextLineOK DEF AfterGov
<1> QED
  BY <1>1, <1>2

LEMMA AfterWriteOK ==
    ASSUME NEW j, JobOK(j), j.kind # "none", NEW t, NEW n \in AfterWrite(j, t)
    PROVE  JobOK(n) /\ n.kind = j.kind
<1>1. CASE j.plan = {t}
  BY <1>1, NextLineOK, AfterGovOK DEF AfterWrite
<1>2. CASE j.plan # {t}
  <2>1. n = [j EXCEPT !.at = "write", !.plan = @ \ {t}, !.type = None]
    BY <1>2 DEF AfterWrite
  <2>2. /\ JobShape(n) /\ n.at = "write" /\ n.kind = j.kind /\ n.run = j.run
    BY <2>1 DEF JobOK, JobShape
  <2> QED
    BY <2>2 DEF JobOK, CreateSteps, RecalcSteps, OtherSteps
<1> QED
  BY <1>1, <1>2

\* Going to another statement of the same handler keeps the shape.
LEMMA GoOK ==
    ASSUME NEW s \in Sessions, JobOK(job[s]), NEW at, Go(s, at),
           \/ job[s].kind = "create" /\ at \in CreateSteps
           \/ job[s].kind \in {"recalc_gov", "recalc_lwop"} /\ at \in RecalcSteps
           \/ /\ job[s].kind = "none" /\ at \in OtherSteps \ {"save"}
              /\ job[s].run \in Runs
    PROVE  JobMove(s)
<1>1. PICK n : n = [job[s] EXCEPT !.at = at] /\ Be(s, n)
  BY DEF Go
<1>2. /\ JobShape(n) /\ n.at = at /\ n.kind = job[s].kind /\ n.run = job[s].run
  BY <1>1 DEF JobOK, JobShape
<1>3. at # "save" /\ job[s].run \in Runs
  BY DEF JobOK, CreateSteps, RecalcSteps
<1>4. JobOK(n)
  BY <1>2, <1>3 DEF JobOK
<1> QED
  BY <1>1, <1>2, <1>4 DEF JobMove

\* A handler that is not a creation may return at any step.
LEMMA ReturnOK ==
    ASSUME NEW s \in Sessions, Return(s),
           job[s].kind # "create" \/ job[s].at \in {"refresh", "auto_void"}
    PROVE  JobMove(s)
  BY IdleOK DEF Return, JobMove

LEMMA FailOK ==
    ASSUME NEW s \in Sessions, JobOK(job[s]), Fail(s)
    PROVE  JobMove(s)
<1>1. CASE job[s].kind = "create"
  BY <1>1, GoOK DEF Fail, CreateSteps
<1>2. CASE job[s].kind # "create"
  BY <1>2, ReturnOK DEF Fail
<1> QED
  BY <1>1, <1>2

\* Every step of a handler is such a move.
LEMMA EveryJobMoves ==
    ASSUME JobsOK, NEW s \in Sessions, Job(s)
    PROVE  JobMove(s)
<1>1. JobOK(job[s])
  BY DEF JobsOK
<1> USE <1>1
<1>2. job[s].at = "idle" => job[s].kind = "none"
  BY DEF JobOK, CreateSteps, RecalcSteps
<1>3. CASE ReopenBegin(s) \/ EditBegin(s) \/ CreateBegin(s) \/ RecalcBegin(s)
           \/ FinalizeBegin(s)
  <2>1. ASSUME NEW at \in {"reopen", "edit", "summary"}, NEW p, NEW n,
               n = [Idle EXCEPT !.at = at, !.period = p]
        PROVE  JobOK(n)
    BY <2>1 DEF JobOK, JobShape, Idle, OtherSteps
  <2>2. ASSUME NEW r \in Runs, NEW n, n = [Idle EXCEPT !.at = "stale", !.run = r]
        PROVE  JobOK(n)
    BY <2>2 DEF JobOK, JobShape, Idle, OtherSteps
  <2>3. ASSUME NEW r \in Runs, NEW n,
               n = [Idle EXCEPT !.at = "recalc", !.kind = "recalc_gov", !.run = r]
        PROVE  JobOK(n)
    BY <2>3 DEF JobOK, JobShape, Idle, RecalcSteps
  <2>4. \/ \E at \in {"reopen", "edit", "summary"} : \E p :
              Be(s, [Idle EXCEPT !.at = at, !.period = p])
        \/ \E r \in Runs : Be(s, [Idle EXCEPT !.at = "stale", !.run = r])
        \/ \E r \in Runs : Be(s, [Idle EXCEPT !.at = "recalc",
                                              !.kind = "recalc_gov", !.run = r])
    BY <1>3 DEF ReopenBegin, EditBegin, ReadSums, CreateBegin, RecalcBegin, FinalizeBegin
  <2>5. \E n : Be(s, n) /\ JobOK(n)
    BY <2>1, <2>2, <2>3, <2>4 DEF OtherSteps
  <2>6. job[s].kind # "create"
    BY <1>2, <1>3 DEF ReopenBegin, EditBegin, ReadSums, CreateBegin, RecalcBegin, FinalizeBegin
  <2> QED
    BY <2>5, <2>6 DEF JobMove
<1>4. CASE SaveBegin(s)
  <2>1. \E r, e : \E f \in Inputs :
           Be(s, [Idle EXCEPT !.at = "save", !.run = r, !.line = e, !.input = f])
    BY <1>4 DEF SaveBegin
  <2>2. ASSUME NEW r, NEW e, NEW f \in Inputs, NEW n,
               n = [Idle EXCEPT !.at = "save", !.run = r, !.line = e, !.input = f]
        PROVE  JobOK(n)
    <3>1. f \in [Types -> Typed]
      BY DEF Inputs
    <3> QED
      BY <2>2, <3>1 DEF JobOK, JobShape, Idle, OtherSteps
  <2>3. job[s].kind # "create"
    BY <1>2, <1>4 DEF SaveBegin
  <2> QED
    BY <2>1, <2>2, <2>3 DEF JobMove
<1>5. CASE ReopenDelete(s) \/ EditWrite(s) \/ SaveWrite(s) \/ FinalizeWrite(s)
  <2>1. job[s].kind # "create"
    BY <1>5 DEF ReopenDelete, EditWrite, SaveWrite, FinalizeWrite, JobOK, CreateSteps
  <2> QED
    BY <1>5, <2>1, ReturnOK DEF ReopenDelete, EditWrite, SaveWrite, FinalizeWrite
<1>6. CASE CreateSummary(s)
  <2>1. job[s].kind = "none"
    BY <1>6 DEF CreateSummary, JobOK, CreateSteps, RecalcSteps
  <2>2. ASSUME NEW f, NEW n, n = [job[s] EXCEPT !.at = "insert_run", !.sheet = f]
        PROVE  JobOK(n)
    BY <2>1, <2>2 DEF JobOK, JobShape, OtherSteps
  <2> QED
    BY <1>6, <2>1, <2>2 DEF CreateSummary, JobMove
<1>7. CASE CreateInsert(s)
  <2>1. job[s].kind = "none"
    BY <1>7 DEF CreateInsert, JobOK, CreateSteps, RecalcSteps
  <2>2. CASE Return(s)
    BY <2>1, <2>2, ReturnOK
  <2>3. CASE \E r \in Runs : Be(s, [Idle EXCEPT !.at = "auto_begin",
                                               !.kind = "create", !.run = r])
    <3>1. ASSUME NEW r \in Runs, NEW n,
                 n = [Idle EXCEPT !.at = "auto_begin", !.kind = "create", !.run = r]
          PROVE  JobOK(n)
      BY <3>1 DEF JobOK, JobShape, Idle, CreateSteps
    <3> QED
      BY <2>1, <2>3, <3>1 DEF JobMove
  <2> QED
    BY <1>7, <2>2, <2>3 DEF CreateInsert
<1>8. CASE AutoBegin(s)
  <2>1. job[s].kind = "create"
    BY <1>8 DEF AutoBegin, JobOK, RecalcSteps, OtherSteps
  <2>2. CASE Fail(s)
    BY <2>2, FailOK
  <2>3. CASE \E j \in NextLine([job[s] EXCEPT !.due = due, !.toggles = toggles,
                                              !.todo = Lines(job[s].run)]) :
                Be(s, j)
    <3>1. PICK j : /\ j = [job[s] EXCEPT !.due = due, !.toggles = toggles,
                                         !.todo = Lines(job[s].run)]
                   /\ \E n \in NextLine(j) : Be(s, n)
      BY <2>3
    <3>2. JobOK(j) /\ j.kind = "create"
      BY <2>1, <3>1 DEF JobOK, JobShape
    <3>3. PICK n \in NextLine(j) : Be(s, n)
      BY <3>1
    <3>4. JobOK(n) /\ n.kind = "create"
      BY <3>2, NextLineOK
    <3> QED
      BY <2>1, <3>3, <3>4 DEF JobMove
  <2> QED
    BY <1>8, <2>2, <2>3 DEF AutoBegin
<1>9. CASE Defaults(s) \/ DefaultInsert(s)
  <2>1. job[s].kind = "create"
    BY <1>9 DEF Defaults, DefaultInsert, JobOK, RecalcSteps, OtherSteps
  <2>2. ASSUME NEW plan, NEW at \in {"default", "gov"}, NEW n,
               n = [job[s] EXCEPT !.at = at, !.plan = plan]
        PROVE  JobOK(n) /\ n.kind = "create"
    BY <2>1, <2>2 DEF JobOK, JobShape, CreateSteps
  <2>3. CASE Defaults(s)
    <3>1. \E n : /\ Be(s, n)
                 /\ \/ \E plan : n = [job[s] EXCEPT !.at = "default", !.plan = plan]
                    \/ n = [job[s] EXCEPT !.at = "gov"]
      BY <2>3 DEF Defaults
    <3>2. ASSUME NEW n, n = [job[s] EXCEPT !.at = "gov"]
          PROVE  JobOK(n) /\ n.kind = "create"
      BY <2>1, <3>2 DEF JobOK, JobShape, CreateSteps
    <3> QED
      BY <2>2, <3>1, <3>2 DEF JobMove
  <2>4. CASE DefaultInsert(s)
    <3>1. \/ Fail(s)
          \/ Be(s, [job[s] EXCEPT !.at = "gov", !.plan = {}])
          \/ \E t : Be(s, [job[s] EXCEPT !.plan = @ \ {t}])
      BY <2>4 DEF DefaultInsert
    <3>2. ASSUME NEW t, NEW n, n = [job[s] EXCEPT !.plan = @ \ {t}]
          PROVE  JobOK(n) /\ n.kind = "create"
      BY <2>1, <3>2 DEF JobOK, JobShape
    <3> QED
      BY <2>2, <3>1, <3>2, FailOK DEF JobMove
  <2> QED
    BY <1>9, <2>3, <2>4
<1>10. CASE GovPlan(s) \/ LwopPlan(s)
  <2>1. job[s].kind # "none" /\ job[s].at \in {"gov", "lwop"}
    BY <1>10 DEF GovPlan, LwopPlan, JobOK, OtherSteps
  <2>2. ASSUME NEW plan, NEW n, n = [job[s] EXCEPT !.at = "write", !.plan = plan]
        PROVE  JobOK(n) /\ n.kind = job[s].kind
    BY <2>1, <2>2 DEF JobOK, JobShape, CreateSteps, RecalcSteps, OtherSteps
  <2>3. \/ \E plan : Be(s, [job[s] EXCEPT !.at = "write", !.plan = plan])
        \/ \E n \in AfterGov(job[s]) : Be(s, n)
        \/ \E n \in NextLine(job[s]) : Be(s, n)
    BY <1>10 DEF GovPlan, LwopPlan
  <2>4. \A n \in AfterGov(job[s]) \cup NextLine(job[s]) :
           JobOK(n) /\ n.kind = job[s].kind
    BY <2>1, NextLineOK, AfterGovOK
  <2> QED
    BY <2>2, <2>3, <2>4 DEF JobMove
<1>11. CASE WriteAuto(s) \/ InsertAuto(s)
  <2>1. job[s].kind # "none"
    BY <1>11 DEF WriteAuto, InsertAuto, JobOK, OtherSteps
  <2>2. ASSUME NEW t, NEW n, n = [job[s] EXCEPT !.at = "insert", !.type = t]
        PROVE  JobOK(n) /\ n.kind = job[s].kind
    BY <2>1, <2>2 DEF JobOK, JobShape, CreateSteps, RecalcSteps, OtherSteps
  <2>3. \/ \E t : Be(s, [job[s] EXCEPT !.at = "insert", !.type = t])
        \/ \E t : \E n \in AfterWrite(job[s], t) : Be(s, n)
        \/ Fail(s)
    BY <1>11 DEF WriteAuto, InsertAuto
  <2>4. \A t : \A n \in AfterWrite(job[s], t) : JobOK(n) /\ n.kind = job[s].kind
    BY <2>1, AfterWriteOK
  <2> QED
    BY <2>2, <2>3, <2>4, FailOK DEF JobMove
<1>12. CASE Refresh(s)
  BY <1>12, FailOK, ReturnOK DEF Refresh
<1>17. CASE ReadSums(s)
  <2>1. PICK sums, n :
           /\ n = [job[s] EXCEPT !.at = IF @ = "sums" THEN "refresh" ELSE "fin_refresh",
                                 !.sums = sums]
           /\ Be(s, n)
    BY <1>17 DEF ReadSums
  <2>2. /\ JobShape(n) /\ n.kind = job[s].kind /\ n.run = job[s].run
        /\ job[s].at = "sums" => n.at = "refresh"
        /\ job[s].at # "sums" => n.at = "fin_refresh"
    BY <2>1 DEF JobOK, JobShape
  <2>3. JobOK(n)
    BY <1>17, <2>2 DEF ReadSums, JobOK, CreateSteps, RecalcSteps, OtherSteps
  <2> QED
    BY <2>1, <2>2, <2>3 DEF JobMove
<1>13. CASE AutoVoid(s)
  BY <1>13, ReturnOK DEF AutoVoid
<1>14. CASE RecalcDelete(s)
  <2>1. job[s].kind \in {"recalc_gov", "recalc_lwop"}
    BY <1>14 DEF RecalcDelete, JobOK, CreateSteps, OtherSteps
  <2>2. CASE Go(s, "lwop_begin")
    BY <2>1, <2>2, GoOK DEF RecalcSteps
  <2>3. CASE \E j \in NextLine([job[s] EXCEPT !.due = due, !.toggles = toggles,
                                              !.todo = Lines(job[s].run)]) :
                Be(s, j)
    <3>1. PICK j : /\ j = [job[s] EXCEPT !.due = due, !.toggles = toggles,
                                         !.todo = Lines(job[s].run)]
                   /\ \E n \in NextLine(j) : Be(s, n)
      BY <2>3
    <3>2. JobOK(j) /\ j.kind # "none"
      BY <2>1, <3>1 DEF JobOK, JobShape
    <3> QED
      BY <2>1, <3>1, <3>2, NextLineOK DEF JobMove
  <2> QED
    BY <1>14, <2>2, <2>3 DEF RecalcDelete
<1>15. CASE LwopBegin(s)
  <2>1. job[s].kind \in {"recalc_gov", "recalc_lwop"}
    BY <1>15 DEF LwopBegin, JobOK, CreateSteps, OtherSteps
  <2>2. CASE Fail(s)
    BY <2>2, FailOK
  <2>3. ASSUME NEW j, j = [job[s] EXCEPT !.kind = "recalc_lwop", !.due = due,
                                         !.todo = Lines(job[s].run)],
               \E n \in NextLine(j) : Be(s, n)
        PROVE  JobMove(s)
    <3>1. JobOK(j) /\ j.kind = "recalc_lwop"
      BY <1>15, <2>1, <2>3 DEF LwopBegin, JobOK, JobShape, RecalcSteps
    <3> QED
      BY <2>1, <2>3, <3>1, NextLineOK DEF JobMove
  <2> QED
    BY <1>15, <2>2, <2>3 DEF LwopBegin
<1>16. CASE FinalizeStale(s) \/ FinalizePreflight(s) \/ FinalizeRefresh(s)
  <2>1. job[s].kind = "none" /\ job[s].run \in Runs
    BY <1>16 DEF FinalizeStale, FinalizePreflight, FinalizeRefresh, JobOK,
         CreateSteps, RecalcSteps
  <2>2. \/ Return(s)
        \/ \E at \in {"preflight", "fin_sums"} : Go(s, at)
        \/ Be(s, [job[s] EXCEPT !.at = "finalize", !.sums = None])
    BY <1>16 DEF FinalizeStale, FinalizePreflight, FinalizeRefresh
  <2>3. ASSUME NEW n, n = [job[s] EXCEPT !.at = "finalize", !.sums = None], Be(s, n)
        PROVE  JobMove(s)
    <3>1. JobShape(n) /\ n.at = "finalize" /\ n.kind = "none" /\ n.run = job[s].run
      BY <2>1, <2>3 DEF JobOK, JobShape
    <3>2. JobOK(n)
      BY <2>1, <3>1 DEF JobOK, OtherSteps
    <3> QED
      BY <2>1, <2>3, <3>2 DEF JobMove
  <2> QED
    BY <2>1, <2>2, <2>3, ReturnOK, GoOK DEF OtherSteps
<1> QED
  BY <1>3, <1>4, <1>5, <1>6, <1>7, <1>8, <1>9, <1>10, <1>11, <1>12, <1>13,
     <1>14, <1>15, <1>16, <1>17 DEF Job

\* The jobs keep their shapes.
LEMMA JobsOKInductive ==
    /\ Init => JobsOK
    /\ JobsOK /\ [Next]_vars => JobsOK'
<1>1. Init => JobsOK
  BY IdleOK DEF Init, JobsOK
<1>2. JobsOK /\ [Next]_vars => JobsOK'
  <2> SUFFICES ASSUME JobsOK, [Next]_vars PROVE JobsOK'
    OBVIOUS
  <2>1. ASSUME NEW s \in Sessions, Job(s) PROVE JobsOK'
    BY <2>1, EveryJobMoves DEF JobMove, Be, JobsOK
  <2>2. CASE UNCHANGED job
    BY <2>2 DEF JobsOK
  <2> QED
    BY <2>1, <2>2 DEF Next, ClosePeriod, HolidayChange, DueChange, ToggleChange,
       Void, vars
<1> QED
  BY <1>1, <1>2

\* A creation that returns with its run in draft has come to its refresh.
THEOREM NoHalfDraft == Spec => CreateLeavesNoHalfDraft
<1> DEFINE Whole ==
        \A s \in Sessions :
          /\ job[s].kind = "create"
          /\ job'[s] = Idle
          /\ status'[job[s].run] = "draft"
          => job[s].at = "refresh"
<1>1. RunInv /\ JobsOK /\ [Next]_vars => [Whole]_vars
  <2> SUFFICES ASSUME RunInv, JobsOK, Next,
                      NEW s \in Sessions,
                      job[s].kind = "create",
                      job'[s] = Idle,
                      status'[job[s].run] = "draft",
                      job[s].at # "refresh"
               PROVE  FALSE
    OBVIOUS
  <2>1. Idle.kind = "none"
    BY DEF Idle
  <2>2. ASSUME NEW t \in Sessions, Job(t) PROVE t = s
    <3>1. PICK n : Be(t, n)
      BY <2>2, EveryJobMoves DEF JobMove
    <3>2. t # s => job'[s] = job[s]
      BY <3>1 DEF Be, JobsOK
    <3> QED
      BY <2>1, <3>2
  <2>3. UNCHANGED job => FALSE
    BY <2>1
  <2>4. Job(s)
    BY <2>2, <2>3 DEF Next, ClosePeriod, HolidayChange, DueChange, ToggleChange,
       Void
  <2>5. job[s].at = "auto_void"
    <3>1. PICK n : Be(s, n) /\ (job[s].at # "auto_void" => n.kind = "create")
      BY <2>4, EveryJobMoves DEF JobMove
    <3>2. job'[s] = n
      BY <3>1 DEF Be, JobsOK
    <3> QED
      BY <2>1, <3>1, <3>2
  <2>6. AutoVoid(s)
    BY <2>4, <2>5 DEF Job, ReopenBegin, ReopenDelete, EditBegin, EditWrite,
       ReadSums, CreateBegin, CreateSummary, CreateInsert, AutoBegin, Defaults,
       DefaultInsert, GovPlan, LwopPlan, WriteAuto, InsertAuto, Refresh,
       RecalcBegin, RecalcDelete, LwopBegin, SaveBegin, SaveWrite,
       FinalizeBegin, FinalizeStale, FinalizePreflight, FinalizeRefresh,
       FinalizeWrite
  <2>7. job[s].run \in Runs
    BY <2>5 DEF JobsOK, JobOK, RecalcSteps, OtherSteps
  <2>8. status'[job[s].run] # "draft"
    BY <2>6, <2>7 DEF AutoVoid, VoidIfDraft, RunInv, RunTables
  <2> QED
    BY <2>8
<1>2. Spec => []JobsOK
  BY JobsOKInductive, PTL DEF Spec
<1> QED
  BY <1>1, <1>2, RunsKnown, PTL DEF Spec, CreateLeavesNoHalfDraft

(***************************************************************************)
(* The lines of the runs.                                                  *)
(***************************************************************************)
Row(l) == l = [sheet |-> l.sheet, gross |-> l.gross, net |-> l.net]

LineTables ==
    /\ line = [r \in Runs |-> line[r]]
    /\ \A r \in Runs :
          /\ line[r] = [e \in Lines(r) |-> line[r][e]]
          /\ \A e \in Lines(r) : Row(line[r][e])

\* A new net pay is all that changes in a row.
LEMMA NewNet ==
    ASSUME NEW l, Row(l), NEW x, NEW m, m = [l EXCEPT !.net = x]
    PROVE  Row(m) /\ m.sheet = l.sheet /\ m.gross = l.gross
  BY DEF Row

\* The lines of q stay, with the summaries and the gross pay they have.
LinesKept(q) ==
    /\ Lines(q)' = Lines(q)
    /\ \A e \in Lines(q) :
          /\ line'[q][e].gross = line[q][e].gross
          /\ line'[q][e].sheet = line[q][e].sheet

\* A refresh of net pay keeps all lines.
LEMMA RefreshedKeeps ==
    ASSUME LineTables, NEW r, NEW sums, line' = Refreshed(r, sums)
    PROVE  LineTables' /\ \A q \in Runs : LinesKept(q)
<1>1. CASE r \notin Runs
  <2>1. line' = line
    BY <1>1 DEF Refreshed, LineTables
  <2> QED
    BY <2>1 DEF LineTables, LinesKept, Lines
<1>2. CASE r \in Runs
  <2>1. /\ line' = [q \in Runs |-> line'[q]]
        /\ \A q \in Runs \ {r} : line'[q] = line[q]
    BY <1>2 DEF Refreshed, LineTables
  <2>2. line'[r] = [e \in Lines(r) |->
            [line[r][e] EXCEPT !.net = line[r][e].gross - sums[e]]]
    BY <1>2 DEF Refreshed, LineTables
  <2>3. \A e \in Lines(r) : /\ Row(line'[r][e])
                            /\ line'[r][e].sheet = line[r][e].sheet
                            /\ line'[r][e].gross = line[r][e].gross
    <3> SUFFICES ASSUME NEW e \in Lines(r)
                 PROVE  /\ Row(line'[r][e])
                        /\ line'[r][e].sheet = line[r][e].sheet
                        /\ line'[r][e].gross = line[r][e].gross
      OBVIOUS
    <3>1. \E x : line'[r][e] = [line[r][e] EXCEPT !.net = x]
      BY <2>2
    <3>2. Row(line[r][e])
      BY <1>2 DEF LineTables
    <3> QED
      BY <3>1, <3>2, NewNet
  <2>4. Lines(r)' = Lines(r)
    BY <2>2 DEF Lines
  <2>5. \A q \in Runs \ {r} : Lines(q)' = Lines(q)
    BY <2>1 DEF Lines
  <2>6. LineTables'
    <3>1. line'[r] = [e \in Lines(r)' |-> line'[r][e]]
      BY <2>2, <2>4
    <3>2. \A e \in Lines(r)' : Row(line'[r][e])
      BY <2>3, <2>4
    <3>3. \A q \in Runs \ {r} : /\ line'[q] = [e \in Lines(q)' |-> line'[q][e]]
                                /\ \A e \in Lines(q)' : Row(line'[q][e])
      BY <2>1, <2>5 DEF LineTables
    <3> QED
      BY <2>1, <3>1, <3>2, <3>3 DEF LineTables, Row
  <2>7. \A q \in Runs : LinesKept(q)
    BY <2>1, <2>3, <2>4, <2>5 DEF LinesKept
  <2> QED
    BY <2>6, <2>7
<1> QED
  BY <1>1, <1>2

\* Lines are only made with their run; later steps keep them.
LEMMA EveryStepKeepsLines ==
    ASSUME RunInv, LineTables, [Next]_vars
    PROVE  /\ LineTables'
           /\ \A q \in Runs : status[q] # "none" => LinesKept(q)
<1> DEFINE Goal == /\ LineTables'
                   /\ \A q \in Runs : status[q] # "none" => LinesKept(q)
<1>1. CASE UNCHANGED line
  BY <1>1 DEF LineTables, LinesKept, Lines
<1>2. ASSUME NEW s \in Sessions, CreateInsert(s) PROVE Goal
  <2>1. CASE UNCHANGED line
    BY <1>1, <2>1
  <2>2. CASE ~UNCHANGED line
    <3>1. PICK r \in Runs :
             /\ status[r] = "none"
             /\ line' = [line EXCEPT ![r] = NewLines(job[s].period, job[s].sheet)]
      BY <1>2, <2>2 DEF CreateInsert, books
    <3>2. /\ line' = [q \in Runs |-> line'[q]]
          /\ \A q \in Runs \ {r} : line'[q] = line[q]
          /\ line'[r] = NewLines(job[s].period, job[s].sheet)
      BY <3>1 DEF LineTables
    <3>3. \A q \in Runs \ {r} : Lines(q)' = Lines(q)
      BY <3>2 DEF Lines
    <3>4. \A q \in Runs \ {r} : LinesKept(q)
      BY <3>2, <3>3 DEF LinesKept
    <3>5. line'[r] = [e \in Lines(r)' |-> line'[r][e]]
      BY <3>2 DEF NewLines, Lines
    <3>6. \A e \in Lines(r)' : Row(line'[r][e])
      <4>1. ASSUME NEW w, NEW g, NEW l, l = [sheet |-> w, gross |-> g, net |-> g]
            PROVE  Row(l)
        BY <4>1 DEF Row
      <4>2. \A e \in Lines(r)' :
               line'[r][e] = NewLine(e, job[s].period, job[s].sheet)
        BY <3>2 DEF NewLines, Lines
      <4> QED
        BY <4>1, <4>2 DEF NewLine
    <3>7. LineTables'
      BY <3>2, <3>3, <3>5, <3>6 DEF LineTables
    <3> QED
      BY <3>1, <3>4, <3>7
  <2> QED
    BY <2>1, <2>2
<1>3. ASSUME NEW s \in Sessions, Refresh(s) \/ FinalizeRefresh(s) PROVE Goal
  <2>1. UNCHANGED line \/ line' = Refreshed(job[s].run, job[s].sums)
    BY <1>3 DEF Refresh, FinalizeRefresh, WriteNet
  <2> QED
    BY <1>1, <2>1, RefreshedKeeps
<1>4. ASSUME NEW s \in Sessions, SaveWrite(s) PROVE Goal
  <2>1. PICK r, e, x : line' = [line EXCEPT ![r][e].net = x]
    BY <1>4 DEF SaveWrite
  <2>2. line' = [q \in Runs |-> line'[q]]
    BY <2>1 DEF LineTables
  <2>3. \A q \in Runs :
           line'[q] = IF q = r THEN [line[q] EXCEPT ![e].net = x] ELSE line[q]
    BY <2>1 DEF LineTables
  <2>4. \A q \in Runs : Lines(q)' = Lines(q) /\ line'[q] = [d \in Lines(q) |-> line'[q][d]]
    BY <2>3 DEF LineTables, Lines
  <2>5. \A q \in Runs : \A d \in Lines(q) :
           /\ Row(line'[q][d])
           /\ line'[q][d].sheet = line[q][d].sheet
           /\ line'[q][d].gross = line[q][d].gross
    <3> SUFFICES ASSUME NEW q \in Runs, NEW d \in Lines(q)
                 PROVE  /\ Row(line'[q][d])
                        /\ line'[q][d].sheet = line[q][d].sheet
                        /\ line'[q][d].gross = line[q][d].gross
      OBVIOUS
    <3>1. Row(line[q][d])
      BY DEF LineTables
    <3>2. CASE q = r /\ d = e
      <4>1. line'[q][d] = [line[q][d] EXCEPT !.net = x]
        BY <2>3, <3>2 DEF Lines
      <4> QED
        BY <3>1, <4>1, NewNet
    <3>3. CASE ~(q = r /\ d = e)
      <4>1. line'[q][d] = line[q][d]
        BY <2>3, <3>3 DEF Lines
      <4> QED
        BY <3>1, <4>1
    <3> QED
      BY <3>2, <3>3
  <2> QED
    BY <2>2, <2>4, <2>5 DEF LineTables, LinesKept
<1>5. ASSUME NEW s \in Sessions, Job(s), ~CreateInsert(s), ~Refresh(s),
             ~FinalizeRefresh(s), ~SaveWrite(s)
      PROVE  UNCHANGED line
  BY <1>5 DEF Job, books, ReopenBegin, ReopenDelete, EditBegin, EditWrite,
       ReadSums, CreateBegin, CreateSummary, AutoBegin, Defaults, DefaultInsert, GovPlan,
       LwopPlan, WriteAuto, InsertAuto, AutoVoid, RecalcBegin, RecalcDelete,
       LwopBegin, SaveBegin, FinalizeBegin, FinalizeStale, FinalizePreflight,
       FinalizeWrite
<1> QED
  BY <1>1, <1>2, <1>3, <1>4, <1>5 DEF Next, ClosePeriod, HolidayChange,
     DueChange, ToggleChange, Void, books, vars

\* A run that is finalized or voided stays so, and a run keeps its period, its
\* snapshot and its lines' attendance and gross pay from its insertion on.
THEOREM FinalRuns == Spec => RunIsFinal
<1> DEFINE Final ==
        \A r \in Runs :
          /\ status[r] \in {"finalized", "voided"} => status'[r] = status[r]
          /\ status[r] # "none" =>
                /\ period'[r] = period[r]
                /\ hash'[r] = hash[r]
                /\ Lines(r)' = Lines(r)
                /\ \A e \in Lines(r) :
                      /\ line'[r][e].gross = line[r][e].gross
                      /\ line'[r][e].sheet = line[r][e].sheet
<1>1. RunInv /\ LineTables /\ [Next]_vars => [Final]_vars
  <2> SUFFICES ASSUME RunInv, LineTables, [Next]_vars, NEW r \in Runs
               PROVE  /\ status[r] \in {"finalized", "voided"} => status'[r] = status[r]
                      /\ status[r] # "none" => /\ period'[r] = period[r]
                                               /\ hash'[r] = hash[r]
                                               /\ LinesKept(r)
    BY DEF LinesKept
  <2>1. RunStep
    BY EveryStepIsRunStep DEF RunInv
  <2>2. status[r] # "none" => LinesKept(r)
    BY EveryStepKeepsLines
  <2> QED
    BY <2>1, <2>2 DEF RunStep, Inserted, Ended, RunInv, RunTables
<1>2. Init => LineTables
  BY DEF Init, LineTables, Lines
<1>3. RunInv /\ LineTables /\ [Next]_vars => LineTables'
  BY EveryStepKeepsLines
<1> QED
  BY <1>1, <1>2, <1>3, RunsKnown, PTL DEF Spec, RunIsFinal

(***************************************************************************)
(* The deductions.                                                         *)
(***************************************************************************)
DedTables == \E R : ded \in [Runs -> [Employees -> [Types -> R]]]

\* The rows may be taken from any larger set.
LEMMA Widened ==
    ASSUME DedTables, NEW S
    PROVE  \E R : S \subseteq R /\ ded \in [Runs -> [Employees -> [Types -> R]]]
<1>1. PICK Q : ded \in [Runs -> [Employees -> [Types -> Q]]]
  BY DEF DedTables
<1>2. \A q \in Runs, e \in Employees, t \in Types : ded[q][e][t] \in Q \cup S
  BY <1>1
<1>3. \A q \in Runs, e \in Employees : ded[q][e] \in [Types -> Q \cup S]
  BY <1>1, <1>2
<1>4. \A q \in Runs : ded[q] \in [Employees -> [Types -> Q \cup S]]
  BY <1>1, <1>3
<1>5. ded \in [Runs -> [Employees -> [Types -> Q \cup S]]]
  BY <1>1, <1>4
<1> QED
  BY <1>5

\* A row that an admin typed, under a note of their own.
OwnRow(r, e, t) == ded[r][e][t].amount > 0 /\ ~ded[r][e][t].auto

OwnRowsKept ==
    \A r \in Runs, e \in Employees, t \in Types :
        OwnRow(r, e, t) => ded'[r][e][t] = ded[r][e][t]

\* The write of one row keeps the others.
LEMMA PutKeeps ==
    ASSUME DedTables, NEW r, NEW e, NEW t, NEW a, NEW b, Put(r, e, t, a, b),
           ded[r][e][t].amount = 0 \/ IsAuto(r, e, t)
    PROVE  DedTables' /\ OwnRowsKept
<1>1. PICK v : ded' = [ded EXCEPT ![r][e][t] = v]
  BY DEF Put
<1>2. PICK R : {v} \subseteq R /\ ded \in [Runs -> [Employees -> [Types -> R]]]
  BY Widened
<1>3. ded' \in [Runs -> [Employees -> [Types -> R]]]
  BY <1>1, <1>2
<1>4. \A q \in Runs, d \in Employees, u \in Types :
         ded'[q][d][u] = IF q = r /\ d = e /\ u = t THEN v ELSE ded[q][d][u]
  BY <1>1, <1>2
<1>5. DedTables'
  BY <1>3 DEF DedTables
<1>6. OwnRowsKept
  BY <1>4 DEF OwnRowsKept, OwnRow, IsAuto
<1> QED
  BY <1>5, <1>6

\* The deletion of automatic rows keeps the others.
LEMMA WithoutKeeps ==
    ASSUME DedTables, NEW r, NEW e, NEW types, types \subseteq AutoTypes(r, e),
           ded' = Without(r, e, types)
    PROVE  DedTables' /\ OwnRowsKept
<1>1. PICK R : {NoRow} \subseteq R /\ ded \in [Runs -> [Employees -> [Types -> R]]]
  BY Widened
<1>2. ded' \in [Runs -> [Employees -> [Types -> R]]]
  <2>1. CASE r \in Runs /\ e \in Employees
    <3>1. [t \in Types |-> IF t \in types THEN NoRow ELSE ded[r][e][t]]
             \in [Types -> R]
      BY <1>1, <2>1
    <3> QED
      BY <1>1, <3>1 DEF Without
  <2>2. CASE ~(r \in Runs /\ e \in Employees)
    BY <1>1, <2>2 DEF Without
  <2> QED
    BY <2>1, <2>2
<1>3. \A q \in Runs, d \in Employees, u \in Types :
         ded'[q][d][u] = IF q = r /\ d = e /\ u \in types THEN NoRow
                                                          ELSE ded[q][d][u]
  BY <1>1 DEF Without
<1>4. DedTables'
  BY <1>2 DEF DedTables
<1>5. \A t \in types : IsAuto(r, e, t)
  BY DEF AutoTypes
<1>6. OwnRowsKept
  BY <1>3, <1>5 DEF OwnRowsKept, OwnRow, IsAuto
<1> QED
  BY <1>4, <1>6

\* A save replaces the rows of its line, and of no other.
LEMMA SaveReplacesOneLine ==
    ASSUME DedTables, JobsOK, NEW s \in Sessions, SaveWrite(s)
    PROVE  /\ DedTables'
           /\ job'[s] = Idle
           /\ \A r \in Runs, e \in Employees, t \in Types :
                 ded'[r][e][t] = ded[r][e][t] \/ (job[s].run = r /\ job[s].line = e)
<1>1. PICK r, e, f :
         /\ r = job[s].run /\ e = job[s].line
         /\ f \in [Types -> Typed]
         /\ ded' = [ded EXCEPT ![r][e] = f]
  BY DEF SaveWrite, JobsOK, JobOK
<1>2. PICK R : Typed \subseteq R /\ ded \in [Runs -> [Employees -> [Types -> R]]]
  BY Widened
<1>3. ded' \in [Runs -> [Employees -> [Types -> R]]]
  BY <1>1, <1>2
<1>4. \A q \in Runs, d \in Employees :
         ded'[q][d] = IF q = r /\ d = e THEN f ELSE ded[q][d]
  BY <1>1, <1>2
<1>5. job'[s] = Idle
  BY DEF SaveWrite, Return, Be, JobsOK
<1> QED
  BY <1>1, <1>3, <1>4, <1>5 DEF DedTables

\* Every other step keeps what admins typed.
LEMMA EveryOtherStepKeepsOwnRows ==
    ASSUME DedTables, [Next]_vars
    PROVE  \/ DedTables' /\ OwnRowsKept
           \/ \E s \in Sessions : SaveWrite(s)
<1> DEFINE Goal == DedTables' /\ OwnRowsKept
<1>1. ASSUME UNCHANGED ded PROVE Goal
  BY <1>1 DEF DedTables, OwnRowsKept
<1>2. ASSUME NEW s \in Sessions,
             DefaultInsert(s) \/ WriteAuto(s) \/ InsertAuto(s)
      PROVE  Goal
  <2>1. \/ UNCHANGED ded
        \/ \E r, e, t, a, b : /\ Put(r, e, t, a, b)
                              /\ ded[r][e][t].amount = 0 \/ IsAuto(r, e, t)
    BY <1>2 DEF DefaultInsert, WriteAuto, InsertAuto
  <2>2. ASSUME NEW r, NEW e, NEW t, NEW a, NEW b, Put(r, e, t, a, b),
               ded[r][e][t].amount = 0 \/ IsAuto(r, e, t)
        PROVE  Goal
    BY <2>2, PutKeeps
  <2>3. CASE UNCHANGED ded
    BY <1>1, <2>3
  <2>4. CASE ~UNCHANGED ded
    <3>1. PICK r, e, t, a, b : /\ Put(r, e, t, a, b)
                               /\ ded[r][e][t].amount = 0 \/ IsAuto(r, e, t)
      BY <2>1, <2>4
    <3> QED
      BY <2>2, <3>1
  <2> QED
    BY <2>3, <2>4
<1>3. ASSUME NEW s \in Sessions, GovPlan(s) \/ LwopPlan(s) PROVE Goal
  <2>1. \/ UNCHANGED ded
        \/ \E r, e, types : /\ types \subseteq AutoTypes(r, e)
                             /\ ded' = Without(r, e, types)
    BY <1>3 DEF GovPlan, LwopPlan
  <2>2. ASSUME NEW r, NEW e, NEW types, types \subseteq AutoTypes(r, e),
               ded' = Without(r, e, types)
        PROVE  Goal
    BY <2>2, WithoutKeeps
  <2>3. CASE UNCHANGED ded
    BY <1>1, <2>3
  <2>4. CASE ~UNCHANGED ded
    <3>1. PICK r, e, types : /\ types \subseteq AutoTypes(r, e)
                             /\ ded' = Without(r, e, types)
      BY <2>1, <2>4
    <3> QED
      BY <2>2, <3>1
  <2> QED
    BY <2>3, <2>4
<1>4. ASSUME NEW s \in Sessions, RecalcDelete(s) PROVE Goal
  <2>1. PICK r : ded' = [ded EXCEPT ![r] = [e \in Employees |-> [t \in Types |->
                           IF t \in Gov /\ IsAuto(r, e, t) THEN NoRow ELSE @[e][t]]]]
    BY <1>4 DEF RecalcDelete
  <2>2. PICK R : {NoRow} \subseteq R /\ ded \in [Runs -> [Employees -> [Types -> R]]]
    BY Widened
  <2>3. DedTables'
    <3>1. CASE r \in Runs
      <4>1. [e \in Employees |-> [t \in Types |->
                IF t \in Gov /\ IsAuto(r, e, t) THEN NoRow ELSE ded[r][e][t]]]
               \in [Employees -> [Types -> R]]
        BY <2>2, <3>1
      <4>2. ded' \in [Runs -> [Employees -> [Types -> R]]]
        BY <2>1, <2>2, <4>1
      <4> QED
        BY <4>2 DEF DedTables
    <3>2. CASE r \notin Runs
      <4>1. ded' = ded
        BY <2>1, <2>2, <3>2
      <4> QED
        BY <2>2, <4>1 DEF DedTables
    <3> QED
      BY <3>1, <3>2
  <2>4. OwnRowsKept
    <3>1. \A q \in Runs, e \in Employees, t \in Types :
             ded'[q][e][t] = IF q = r /\ t \in Gov /\ IsAuto(r, e, t)
                             THEN NoRow ELSE ded[q][e][t]
      BY <2>1, <2>2
    <3> QED
      BY <3>1 DEF OwnRowsKept, OwnRow, IsAuto
  <2> QED
    BY <2>3, <2>4
<1>5. ASSUME NEW s \in Sessions, Job(s), ~DefaultInsert(s), ~WriteAuto(s),
             ~InsertAuto(s), ~GovPlan(s), ~LwopPlan(s), ~RecalcDelete(s),
             ~SaveWrite(s)
      PROVE  UNCHANGED ded
  BY <1>5 DEF Job, books, ReopenBegin, ReopenDelete, EditBegin, EditWrite,
       ReadSums, CreateBegin, CreateSummary, CreateInsert, AutoBegin, Defaults, Refresh,
       AutoVoid, RecalcBegin, LwopBegin, SaveBegin, FinalizeBegin,
       FinalizeStale, FinalizePreflight, FinalizeRefresh, FinalizeWrite
<1> QED
  BY <1>1, <1>2, <1>3, <1>4, <1>5 DEF Next, ClosePeriod, HolidayChange,
     DueChange, ToggleChange, Void, books, vars

\* What an admin typed is only replaced by another save of that line.
THEOREM OwnRowsStay == Spec => ManualRowsKept
<1> DEFINE Kept ==
        \A r \in Runs, e \in Employees, t \in Types :
          ded[r][e][t].amount > 0 /\ ~ded[r][e][t].auto =>
             \/ ded'[r][e][t] = ded[r][e][t]
             \/ \E s \in Sessions : /\ job[s].at = "save"
                                    /\ job[s].run = r
                                    /\ job[s].line = e
                                    /\ job'[s] = Idle
<1>1. JobsOK /\ DedTables /\ [Next]_vars => [Kept]_vars /\ DedTables'
  <2> SUFFICES ASSUME JobsOK, DedTables, [Next]_vars PROVE Kept /\ DedTables'
    OBVIOUS
  <2>1. CASE DedTables' /\ OwnRowsKept
    BY <2>1 DEF OwnRowsKept, OwnRow
  <2>2. ASSUME NEW s \in Sessions, SaveWrite(s) PROVE Kept /\ DedTables'
    <3>1. job[s].at = "save"
      BY <2>2 DEF SaveWrite
    <3> QED
      BY <2>2, <3>1, SaveReplacesOneLine
  <2> QED
    BY <2>1, <2>2, EveryOtherStepKeepsOwnRows
<1>2. Init => DedTables
  <2> SUFFICES ASSUME Init PROVE ded \in [Runs -> [Employees -> [Types -> {NoRow}]]]
    BY DEF DedTables
  <2> QED
    BY DEF Init
<1>3. Spec => []JobsOK
  BY JobsOKInductive, PTL DEF Spec
<1> QED
  BY <1>1, <1>2, <1>3, PTL DEF Spec, ManualRowsKept

(***************************************************************************)
(* Who works on which run.                                                 *)
(***************************************************************************)
\* The next lines of a loop and the rest of a plan are of the same run.
LEMMA LoopsStayOnRun ==
    ASSUME NEW j, JobShape(j), NEW t,
           NEW n \in NextLine(j) \cup AfterGov(j) \cup AfterWrite(j, t)
    PROVE  n.run = j.run
<1>1. ASSUME NEW m \in NextLine(j) PROVE m.run = j.run
  <2>1. CASE j.todo = {}
    BY <1>1, <2>1 DEF NextLine, JobShape
  <2>2. CASE j.todo # {}
    <3>1. PICK e, at : m = [j EXCEPT !.line = e, !.todo = @ \ {e}, !.plan = {},
                                     !.type = None, !.at = at]
      BY <1>1, <2>2 DEF NextLine
    <3> QED
      BY <3>1 DEF JobShape
  <2> QED
    BY <2>1, <2>2
<1>2. ASSUME NEW m \in AfterGov(j) PROVE m.run = j.run
  <2>1. CASE j.kind = "create"
    BY <1>2, <2>1 DEF AfterGov, JobShape
  <2> QED
    BY <1>1, <1>2, <2>1 DEF AfterGov
<1>3. ASSUME NEW m \in AfterWrite(j, t) PROVE m.run = j.run
  <2>1. CASE j.plan = {t}
    BY <1>1, <1>2, <1>3, <2>1 DEF AfterWrite
  <2>2. CASE j.plan # {t}
    BY <1>3, <2>2 DEF AfterWrite, JobShape
  <2> QED
    BY <2>1, <2>2
<1> QED
  BY <1>1, <1>2, <1>3

\* Session s goes on with its run, returns, or begins on a run that is not
\* there yet or a draft.
StaysOnRun(s) ==
    \E n : /\ Be(s, n)
           /\ \/ n.run \in {job[s].run, None}
              \/ \E r \in Runs : n.run = r /\ status[r] \in {"none", "draft"}

LEMMA GoStays ==
    ASSUME JobsOK, NEW s \in Sessions, NEW at, Go(s, at) \/ Return(s) \/ Fail(s)
    PROVE  StaysOnRun(s)
<1>1. ASSUME NEW a, Go(s, a) PROVE StaysOnRun(s)
  <2> DEFINE n == [job[s] EXCEPT !.at = a]
  <2>1. n.run = job[s].run
    BY DEF JobsOK, JobOK, JobShape
  <2> QED
    BY <1>1, <2>1 DEF Go, StaysOnRun
<1>2. CASE Return(s)
  <2>1. Idle.run = None
    BY DEF Idle
  <2> QED
    BY <1>2, <2>1 DEF Return, StaysOnRun
<1> QED
  BY <1>1, <1>2 DEF Fail

\* The steps by which a handler comes to a run check that it is a draft.
LEMMA BeginningsStay ==
    ASSUME NEW s \in Sessions,
           \/ ReopenBegin(s) \/ EditBegin(s) \/ CreateBegin(s)
           \/ RecalcBegin(s) \/ SaveBegin(s) \/ FinalizeBegin(s)
    PROVE  StaysOnRun(s)
<1>1. CASE ReopenBegin(s) \/ EditBegin(s) \/ CreateBegin(s)
  <2>1. PICK at, p : Be(s, [Idle EXCEPT !.at = at, !.period = p])
    BY <1>1 DEF ReopenBegin, EditBegin, CreateBegin
  <2>2. [Idle EXCEPT !.at = at, !.period = p].run = None
    BY DEF Idle
  <2> QED
    BY <2>1, <2>2 DEF StaysOnRun
<1>2. CASE RecalcBegin(s)
  <2>1. PICK r \in Runs : /\ status[r] = "draft"
                          /\ Be(s, [Idle EXCEPT !.at = "recalc",
                                      !.kind = "recalc_gov", !.run = r])
    BY <1>2 DEF RecalcBegin
  <2>2. [Idle EXCEPT !.at = "recalc", !.kind = "recalc_gov", !.run = r].run = r
    BY DEF Idle
  <2> QED
    BY <2>1, <2>2 DEF StaysOnRun
<1>3. CASE SaveBegin(s)
  <2>1. PICK r, e, f :
           /\ r \in Runs /\ status[r] = "draft"
           /\ Be(s, [Idle EXCEPT !.at = "save", !.run = r, !.line = e, !.input = f])
    BY <1>3 DEF SaveBegin
  <2>2. [Idle EXCEPT !.at = "save", !.run = r, !.line = e, !.input = f].run = r
    BY DEF Idle
  <2> QED
    BY <2>1, <2>2 DEF StaysOnRun
<1>4. CASE FinalizeBegin(s)
  <2>1. PICK r \in Runs : /\ status[r] = "draft"
                          /\ Be(s, [Idle EXCEPT !.at = "stale", !.run = r])
    BY <1>4 DEF FinalizeBegin
  <2>2. [Idle EXCEPT !.at = "stale", !.run = r].run = r
    BY DEF Idle
  <2> QED
    BY <2>1, <2>2 DEF StaysOnRun
<1> QED
  BY <1>1, <1>2, <1>3, <1>4

\* The steps of the loops over the lines.
LEMMA LoopStepsStay ==
    ASSUME JobsOK, NEW s \in Sessions,
           \/ AutoBegin(s) \/ RecalcDelete(s) \/ LwopBegin(s)
           \/ GovPlan(s) \/ LwopPlan(s) \/ WriteAuto(s) \/ InsertAuto(s)
    PROVE  StaysOnRun(s)
<1>0. JobShape(job[s])
  BY DEF JobsOK, JobOK
<1>1. ASSUME NEW j, JobShape(j), j.run = job[s].run, NEW n \in NextLine(j), Be(s, n)
      PROVE  StaysOnRun(s)
  BY <1>1, LoopsStayOnRun DEF StaysOnRun
<1>2. CASE AutoBegin(s) \/ RecalcDelete(s)
  <2>1. \/ Fail(s) \/ Go(s, "lwop_begin")
        \/ \E n \in NextLine([job[s] EXCEPT !.due = due, !.toggles = toggles,
                                            !.todo = Lines(job[s].run)]) : Be(s, n)
    BY <1>2 DEF AutoBegin, RecalcDelete
  <2>2. ASSUME NEW j, j = [job[s] EXCEPT !.due = due, !.toggles = toggles,
                                         !.todo = Lines(job[s].run)]
        PROVE  JobShape(j) /\ j.run = job[s].run
    BY <1>0, <2>2 DEF JobShape
  <2> QED
    BY <1>1, <2>1, <2>2, GoStays
<1>3. CASE LwopBegin(s)
  <2>1. \/ Fail(s)
        \/ \E n \in NextLine([job[s] EXCEPT !.kind = "recalc_lwop", !.due = due,
                                            !.todo = Lines(job[s].run)]) : Be(s, n)
    BY <1>3 DEF LwopBegin
  <2>2. ASSUME NEW j, j = [job[s] EXCEPT !.kind = "recalc_lwop", !.due = due,
                                         !.todo = Lines(job[s].run)]
        PROVE  JobShape(j) /\ j.run = job[s].run
    BY <1>0, <2>2 DEF JobShape
  <2> QED
    BY <1>1, <2>1, <2>2, GoStays
<1>4. CASE GovPlan(s) \/ LwopPlan(s)
  <2>1. \/ \E plan : Be(s, [job[s] EXCEPT !.at = "write", !.plan = plan])
        \/ \E n \in AfterGov(job[s]) \cup NextLine(job[s]) : Be(s, n)
    BY <1>4 DEF GovPlan, LwopPlan
  <2>2. ASSUME NEW plan
        PROVE  [job[s] EXCEPT !.at = "write", !.plan = plan].run = job[s].run
    BY <1>0 DEF JobShape
  <2> QED
    BY <1>0, <2>1, <2>2, LoopsStayOnRun DEF StaysOnRun
<1>5. CASE WriteAuto(s) \/ InsertAuto(s)
  <2>1. \/ \E t : Be(s, [job[s] EXCEPT !.at = "insert", !.type = t])
        \/ \E t : \E n \in AfterWrite(job[s], t) : Be(s, n)
        \/ Fail(s)
    BY <1>5 DEF WriteAuto, InsertAuto
  <2>2. ASSUME NEW t
        PROVE  [job[s] EXCEPT !.at = "insert", !.type = t].run = job[s].run
    BY <1>0 DEF JobShape
  <2>3. \A t : \A n \in AfterWrite(job[s], t) : n.run = job[s].run
    BY <1>0, LoopsStayOnRun
  <2> QED
    BY <2>1, <2>2, <2>3, GoStays DEF StaysOnRun
<1> QED
  BY <1>2, <1>3, <1>4, <1>5

\* The other steps.
LEMMA OtherStepsStay ==
    ASSUME JobsOK, NEW s \in Sessions,
           \/ CreateSummary(s) \/ CreateInsert(s) \/ Defaults(s) \/ DefaultInsert(s)
    PROVE  StaysOnRun(s)
<1>0. JobShape(job[s])
  BY DEF JobsOK, JobOK
<1>1. CASE CreateSummary(s)
  <2>1. PICK f : Be(s, [job[s] EXCEPT !.at = "insert_run", !.sheet = f])
    BY <1>1 DEF CreateSummary
  <2>2. [job[s] EXCEPT !.at = "insert_run", !.sheet = f].run = job[s].run
    BY <1>0 DEF JobShape
  <2> QED
    BY <2>1, <2>2 DEF StaysOnRun
<1>2. CASE CreateInsert(s)
  <2>1. \/ Return(s)
        \/ \E r \in Runs : /\ status[r] = "none"
                           /\ Be(s, [Idle EXCEPT !.at = "auto_begin",
                                                 !.kind = "create", !.run = r])
    BY <1>2 DEF CreateInsert
  <2>2. ASSUME NEW r
        PROVE  [Idle EXCEPT !.at = "auto_begin", !.kind = "create", !.run = r].run = r
    BY DEF Idle
  <2>3. ASSUME NEW r \in Runs, NEW n, status[r] = "none", n.run = r, Be(s, n)
        PROVE  StaysOnRun(s)
    BY <2>3 DEF StaysOnRun
  <2>4. CASE Return(s)
    BY <2>4, GoStays
  <2> QED
    BY <2>1, <2>2, <2>3, <2>4
<1>3. CASE Defaults(s)
  <2>1. \/ \E plan : Be(s, [job[s] EXCEPT !.at = "default", !.plan = plan])
        \/ Go(s, "gov")
    BY <1>3 DEF Defaults, Go
  <2>2. ASSUME NEW plan
        PROVE  [job[s] EXCEPT !.at = "default", !.plan = plan].run = job[s].run
    BY <1>0 DEF JobShape
  <2> QED
    BY <2>1, <2>2, GoStays DEF StaysOnRun
<1>4. CASE DefaultInsert(s)
  <2>1. \/ Fail(s)
        \/ Be(s, [job[s] EXCEPT !.at = "gov", !.plan = {}])
        \/ \E t : Be(s, [job[s] EXCEPT !.plan = @ \ {t}])
    BY <1>4 DEF DefaultInsert
  <2>2. [job[s] EXCEPT !.at = "gov", !.plan = {}].run = job[s].run
    BY <1>0 DEF JobShape
  <2>3. ASSUME NEW t PROVE [job[s] EXCEPT !.plan = @ \ {t}].run = job[s].run
    BY <1>0 DEF JobShape
  <2> QED
    BY <2>1, <2>2, <2>3, GoStays DEF StaysOnRun
<1> QED
  BY <1>1, <1>2, <1>3, <1>4

LEMMA EveryJobStays ==
    ASSUME JobsOK, NEW s \in Sessions, Job(s)
    PROVE  StaysOnRun(s)
<1>0. JobShape(job[s])
  BY DEF JobsOK, JobOK
<1>3. ASSUME NEW at, NEW sums, Be(s, [job[s] EXCEPT !.at = at, !.sums = sums])
      PROVE  StaysOnRun(s)
  <2>1. PICK n : n = [job[s] EXCEPT !.at = at, !.sums = sums] /\ Be(s, n)
    BY <1>3
  <2>2. n.run = job[s].run
    BY <1>0, <2>1 DEF JobShape
  <2> QED
    BY <2>1, <2>2 DEF StaysOnRun
<1>1. CASE \/ ReopenDelete(s) \/ EditWrite(s) \/ AutoVoid(s) \/ Refresh(s)
           \/ SaveWrite(s) \/ FinalizeStale(s) \/ FinalizePreflight(s)
           \/ FinalizeRefresh(s) \/ FinalizeWrite(s)
  <2>1. \/ Return(s) \/ Fail(s)
        \/ \E at : Go(s, at)
        \/ \E at, sums : Be(s, [job[s] EXCEPT !.at = at, !.sums = sums])
    BY <1>1 DEF ReopenDelete, EditWrite, AutoVoid, Refresh, SaveWrite,
         FinalizeStale, FinalizePreflight, FinalizeRefresh, FinalizeWrite
  <2> QED
    BY <1>3, <2>1, GoStays
<1>2. CASE ReadSums(s)
  <2>1. PICK at, sums : Be(s, [job[s] EXCEPT !.at = at, !.sums = sums])
    BY <1>2 DEF ReadSums
  <2> QED
    BY <1>3, <2>1
<1> QED
  BY <1>1, <1>2, BeginningsStay, LoopStepsStay, OtherStepsStay DEF Job

\* A handler writes the deductions and lines of the run it works on.
LEMMA EveryJobWritesItsRun ==
    ASSUME DedTables, LineTables, NEW s \in Sessions, Job(s),
           NEW r \in Runs, status[r] # "none", job[s].run # r
    PROVE  ded'[r] = ded[r] /\ line'[r] = line[r]
<1>1. CASE UNCHANGED <<ded, line>>
  BY <1>1
<1>2. CASE CreateInsert(s)
  <2>1. \/ UNCHANGED line
        \/ \E q \in Runs : \E x : status[q] = "none" /\ line' = [line EXCEPT ![q] = x]
    BY <1>2 DEF CreateInsert, books
  <2>2. UNCHANGED ded
    BY <1>2 DEF CreateInsert, books
  <2> QED
    BY <2>1, <2>2 DEF LineTables
<1>3. CASE Refresh(s) \/ FinalizeRefresh(s)
  <2>1. /\ UNCHANGED ded
        /\ UNCHANGED line \/ \E x : line' = [line EXCEPT ![job[s].run] = x]
    BY <1>3 DEF Refresh, FinalizeRefresh, WriteNet, Refreshed
  <2> QED
    BY <2>1 DEF LineTables
<1>4. CASE SaveWrite(s)
  <2>1. /\ \E x : line' = [line EXCEPT ![job[s].run] = x]
        /\ \E y : ded' = [ded EXCEPT ![job[s].run] = y]
    BY <1>4 DEF SaveWrite
  <2> QED
    BY <2>1 DEF LineTables, DedTables
<1>5. CASE \/ DefaultInsert(s) \/ GovPlan(s) \/ LwopPlan(s) \/ WriteAuto(s)
           \/ InsertAuto(s) \/ RecalcDelete(s)
  <2>1. /\ UNCHANGED line
        /\ UNCHANGED ded \/ \E y : ded' = [ded EXCEPT ![job[s].run] = y]
    BY <1>5 DEF DefaultInsert, GovPlan, LwopPlan, WriteAuto, InsertAuto,
         RecalcDelete, Put, Without
  <2> QED
    BY <2>1 DEF DedTables
<1>6. CASE ~(\/ CreateInsert(s) \/ Refresh(s) \/ FinalizeRefresh(s) \/ SaveWrite(s)
             \/ DefaultInsert(s) \/ GovPlan(s) \/ LwopPlan(s) \/ WriteAuto(s)
             \/ InsertAuto(s) \/ RecalcDelete(s))
  BY <1>1, <1>6 DEF Job, books, ReopenBegin, ReopenDelete, EditBegin, EditWrite,
       ReadSums, CreateBegin, CreateSummary, AutoBegin, Defaults, AutoVoid, RecalcBegin,
       LwopBegin, SaveBegin, FinalizeBegin, FinalizeStale, FinalizePreflight,
       FinalizeWrite
<1> QED
  BY <1>2, <1>3, <1>4, <1>5, <1>6

\* Nobody begins to work on a finalized or voided run, and when the handlers
\* that were at work on it have returned, its deductions and lines stay.
THEOREM FinalRunsStay == Spec => FinalRunsSettle
<1> DEFINE Settle ==
        \A r \in Runs :
          status[r] \in {"finalized", "voided"} =>
             /\ Workers(r)' \subseteq Workers(r)
             /\ Workers(r) = {} => /\ ded'[r] = ded[r]
                                   /\ line'[r] = line[r]
<1>1. JobsOK /\ DedTables /\ LineTables /\ [Next]_vars => [Settle]_vars
  <2> SUFFICES ASSUME JobsOK, DedTables, LineTables, Next,
                      NEW r \in Runs, status[r] \in {"finalized", "voided"}
               PROVE  /\ Workers(r)' \subseteq Workers(r)
                      /\ Workers(r) = {} => /\ ded'[r] = ded[r]
                                            /\ line'[r] = line[r]
    OBVIOUS
  <2>1. CASE UNCHANGED <<job, ded, line>>
    BY <2>1 DEF Workers
  <2>2. ASSUME NEW s \in Sessions, Job(s)
        PROVE  /\ Workers(r)' \subseteq Workers(r)
               /\ Workers(r) = {} => /\ ded'[r] = ded[r]
                                     /\ line'[r] = line[r]
    <3>1. PICK n : /\ Be(s, n)
                   /\ \/ n.run \in {job[s].run, None}
                      \/ \E q \in Runs : n.run = q /\ status[q] \in {"none", "draft"}
      BY <2>2, EveryJobStays DEF StaysOnRun
    <3>2. n.run = r => job[s].run = r
      BY <3>1, PayrollAssumption
    <3>3. \A u \in Sessions : job'[u].run = r => job[u].run = r
      BY <3>1, <3>2 DEF Be, JobsOK
    <3>4. Workers(r) = {} => job[s].run # r
      BY DEF Workers
    <3> QED
      BY <2>2, <3>3, <3>4, EveryJobWritesItsRun DEF Workers
  <2> QED
    BY <2>1, <2>2 DEF Next, ClosePeriod, HolidayChange, DueChange, ToggleChange,
       Void, books
<1>2. Init => DedTables /\ LineTables
  <2> SUFFICES ASSUME Init PROVE DedTables /\ LineTables
    OBVIOUS
  <2>1. ded \in [Runs -> [Employees -> [Types -> {NoRow}]]]
    BY DEF Init
  <2>2. LineTables
    BY DEF Init, LineTables, Lines
  <2> QED
    BY <2>1, <2>2 DEF DedTables
<1>3. RunInv /\ JobsOK /\ DedTables /\ LineTables /\ [Next]_vars => DedTables' /\ LineTables'
  BY EveryStepKeepsLines, EveryOtherStepKeepsOwnRows, SaveReplacesOneLine
<1>4. Spec => []JobsOK
  BY JobsOKInductive, PTL DEF Spec
<1> QED
  BY <1>1, <1>2, <1>3, <1>4, RunsKnown, PTL DEF Spec, FinalRunsSettle

(***************************************************************************)
(* Sums. Total is a fold of the library: what it is of a finite set, for   *)
(* any amounts, is proved here once, by induction on the subsets.          *)
(***************************************************************************)
LEMMA LeastOf ==
    ASSUME NEW S \in SUBSET Nat, S # {}
    PROVE  \E t \in S : \A u \in S : t <= u
<1>1. PICK t \in S : \A u \in S : ~(<<u, t>> \in OpToRel(<, Nat))
  BY NatLessThanWellFounded, WFMin
<1>2. \A u \in S : ~(u < t)
  BY <1>1 DEF OpToRel
<1> QED
  BY <1>2

\* A set of subsets that has the empty set, and every set whose elements can
\* each be taken away without leaving it, has them all.
LEMMA SubsetInduction ==
    ASSUME NEW S, IsFiniteSet(S), NEW Good, {} \in Good,
           \A s \in SUBSET S : s # {} /\ (\A x \in s : s \ {x} \in Good) => s \in Good
    PROVE  SUBSET S \subseteq Good
<1> SUFFICES ASSUME NEW bad \in SUBSET S, bad \notin Good PROVE FALSE
  OBVIOUS
<1> DEFINE Sizes == {n \in Nat : \E s \in SUBSET S : s \notin Good /\ Cardinality(s) = n}
<1>1. \A s \in SUBSET S : IsFiniteSet(s) /\ Cardinality(s) \in Nat
  BY FS_Subset, FS_CardinalityType
<1>2. Sizes # {} /\ Sizes \subseteq Nat
  BY <1>1
<1>3. PICK n \in Sizes : \A m \in Sizes : n <= m
  <2> HIDE DEF Sizes
  <2> QED
    BY <1>2, LeastOf
<1>4. PICK s \in SUBSET S : s \notin Good /\ Cardinality(s) = n
  OBVIOUS
<1>5. PICK x \in s : s \ {x} \notin Good
  BY <1>4
<1>6. Cardinality(s \ {x}) = n - 1 /\ s \ {x} \in SUBSET S
  BY <1>1, <1>4, FS_RemoveElement
<1>7. n - 1 \in Sizes
  BY <1>1, <1>5, <1>6
<1> QED
  BY <1>2, <1>3, <1>7

\* What the fold of the library is a function of: the sums over the subsets,
\* an element at a time.
Any(s) == CHOOSE x \in s : TRUE
Sums(f, S, g) ==
    g = [s \in SUBSET S |-> IF s = {} THEN 0 ELSE f[Any(s)] + g[s \ {Any(s)}]]

LEMMA TotalIsSum ==
    ASSUME NEW f, NEW S
    PROVE  Total(f, S) = (CHOOSE g : Sums(f, S, g))[S]
  BY DEF Total, MapThenSumSet, MapThenFoldSet, Sums, Any

LEMMA AnyElement ==
    ASSUME NEW s, s # {}
    PROVE  Any(s) \in s
  BY DEF Any

LEMMA SumsAgree ==
    ASSUME NEW f, NEW S, IsFiniteSet(S), NEW T, S \subseteq T,
           NEW g, Sums(f, S, g), NEW h, Sums(f, T, h)
    PROVE  \A s \in SUBSET S : g[s] = h[s]
<1> DEFINE Good == {s \in SUBSET S : g[s] = h[s]}
<1>1. \A s \in SUBSET S : g[s] = IF s = {} THEN 0 ELSE f[Any(s)] + g[s \ {Any(s)}]
  BY DEF Sums
<1>2. \A s \in SUBSET S : h[s] = IF s = {} THEN 0 ELSE f[Any(s)] + h[s \ {Any(s)}]
  BY DEF Sums
<1>3. {} \in Good
  BY <1>1, <1>2
<1>4. ASSUME NEW s \in SUBSET S, s # {}, \A x \in s : s \ {x} \in Good
      PROVE  s \in Good
  BY <1>1, <1>2, <1>4, AnyElement
<1> HIDE DEF Good
<1>5. SUBSET S \subseteq Good
  BY <1>3, <1>4, SubsetInduction
<1> QED
  BY <1>5 DEF Good

\* Where the sums over every subset exist, a sum is that of any element and
\* of the others.
LEMMA TotalStep ==
    ASSUME NEW f, NEW S, IsFiniteSet(S), \A s \in SUBSET S : \E g : Sums(f, s, g)
    PROVE  Total(f, S) = IF S = {} THEN 0 ELSE f[Any(S)] + Total(f, S \ {Any(S)})
<1> DEFINE G(s) == CHOOSE g : Sums(f, s, g)
<1>1. \A s \in SUBSET S : Sums(f, s, G(s)) /\ Total(f, s) = G(s)[s]
  BY TotalIsSum
<1> HIDE DEF G
<1>2. Sums(f, S, G(S)) /\ Total(f, S) = G(S)[S]
  BY <1>1
<1>3. G(S)[S] = IF S = {} THEN 0 ELSE f[Any(S)] + G(S)[S \ {Any(S)}]
  BY <1>2 DEF Sums
<1>4. ASSUME S # {}
      PROVE  G(S)[S \ {Any(S)}] = Total(f, S \ {Any(S)})
  <2> DEFINE R == S \ {Any(S)}
  <2>1. R \in SUBSET S /\ IsFiniteSet(R)
    BY FS_Subset
  <2>2. Sums(f, R, G(R)) /\ Total(f, R) = G(R)[R]
    BY <1>1, <2>1
  <2> HIDE DEF R
  <2>3. \A s \in SUBSET R : G(R)[s] = G(S)[s]
    BY <1>2, <2>1, <2>2, SumsAgree
  <2> QED
    BY <2>2, <2>3 DEF R
<1> QED
  BY <1>2, <1>3, <1>4

LEMMA SumsExist ==
    ASSUME NEW f, NEW S, IsFiniteSet(S)
    PROVE  \A s \in SUBSET S : \E g : Sums(f, s, g)
<1> DEFINE Good == {s \in SUBSET S : \A u \in SUBSET s : \E g : Sums(f, u, g)}
<1>1. {} \in Good
  <2> DEFINE g == [s \in SUBSET {} |-> IF s = {} THEN 0 ELSE 1]
             h == [s \in SUBSET {} |-> IF s = {} THEN 0 ELSE f[Any(s)] + g[s \ {Any(s)}]]
  <2>1. \A s \in SUBSET {} : s = {}
    OBVIOUS
  <2>2. g = h
    BY <2>1
  <2>3. \E x : Sums(f, {}, x)
    <3> HIDE DEF g
    <3>1. Sums(f, {}, g)
      BY <2>2 DEF Sums
    <3> QED
      BY <3>1
  <2> HIDE DEF g, h
  <2> QED
    BY <2>1, <2>3
<1>2. ASSUME NEW s \in SUBSET S, s # {}, \A x \in s : s \ {x} \in Good
      PROVE  s \in Good
  <2>1. ASSUME NEW u \in SUBSET s, u # s
        PROVE  IsFiniteSet(u) /\ \A v \in SUBSET u : \E g : Sums(f, v, g)
    <3>1. PICK x \in s : u \subseteq s \ {x}
      BY <2>1
    <3>2. \A v \in SUBSET u : v \in SUBSET (s \ {x})
      BY <3>1
    <3>3. IsFiniteSet(u)
      BY FS_Subset
    <3> QED
      BY <1>2, <3>2, <3>3
  <2>2. ASSUME NEW u \in SUBSET s, u # s
        PROVE  Total(f, u) = IF u = {} THEN 0 ELSE f[Any(u)] + Total(f, u \ {Any(u)})
    <3> HIDE DEF Good
    <3> QED
      BY <2>1, <2>2, TotalStep
  <2> DEFINE h == [u \in SUBSET s |-> IF u = {} THEN 0 ELSE f[Any(u)] + Total(f, u \ {Any(u)})]
  <2>3. ASSUME NEW u \in SUBSET s, u # {}
        PROVE  h[u \ {Any(u)}] = Total(f, u \ {Any(u)})
    <3>1. Any(u) \in u
      BY <2>3, AnyElement
    <3>2. u \ {Any(u)} \in SUBSET s /\ u \ {Any(u)} # s
      BY <3>1
    <3> QED
      BY <2>2, <3>2
  <2>4. h = [u \in SUBSET s |-> IF u = {} THEN 0 ELSE f[Any(u)] + h[u \ {Any(u)}]]
    BY <2>3
  <2> HIDE DEF h
  <2>5. Sums(f, s, h)
    BY <2>4 DEF Sums
  <2> HIDE DEF Good
  <2>6. \A u \in SUBSET s : \E g : Sums(f, u, g)
    BY <2>1, <2>5
  <2> QED
    BY <2>6 DEF Good
<1> HIDE DEF Good
<1>3. SUBSET S \subseteq Good
  BY <1>1, <1>2, SubsetInduction
<1> QED
  BY <1>3 DEF Good

\* A sum is that of one element and of the others.
LEMMA TotalAny ==
    ASSUME NEW f, NEW S, IsFiniteSet(S)
    PROVE  Total(f, S) = IF S = {} THEN 0 ELSE f[Any(S)] + Total(f, S \ {Any(S)})
  BY SumsExist, TotalStep

LEMMA TotalNat ==
    ASSUME NEW f, NEW S, IsFiniteSet(S), \A x \in S : f[x] \in Nat
    PROVE  Total(f, S) \in Nat
<1> DEFINE Good == {s \in SUBSET S : Total(f, s) \in Nat}
<1>1. {} \in Good
  <2>1. Total(f, {}) = 0
    BY TotalAny, FS_EmptySet
  <2> QED
    BY <2>1
<1>2. ASSUME NEW s \in SUBSET S, s # {}, \A x \in s : s \ {x} \in Good
      PROVE  s \in Good
  <2>1. Any(s) \in s /\ IsFiniteSet(s)
    BY <1>2, AnyElement, FS_Subset
  <2>2. Total(f, s) = f[Any(s)] + Total(f, s \ {Any(s)})
    BY <1>2, <2>1, TotalAny
  <2> QED
    BY <1>2, <2>1, <2>2
<1> HIDE DEF Good
<1>3. SUBSET S \subseteq Good
  BY <1>1, <1>2, SubsetInduction
<1> QED
  BY <1>3 DEF Good

\* It does not matter which element is added first.
LEMMA TotalOne ==
    ASSUME NEW f, NEW S, IsFiniteSet(S), \A y \in S : f[y] \in Nat, NEW x \in S
    PROVE  Total(f, S) = f[x] + Total(f, S \ {x})
<1> DEFINE Good == {s \in SUBSET S : \A y \in s : Total(f, s) = f[y] + Total(f, s \ {y})}
<1>1. {} \in Good
  OBVIOUS
<1>2. ASSUME NEW s \in SUBSET S, s # {}, \A y \in s : s \ {y} \in Good
      PROVE  s \in Good
  <2> DEFINE a == Any(s)
  <2>1. a \in s /\ IsFiniteSet(s)
    BY <1>2, AnyElement, FS_Subset
  <2>2. Total(f, s) = f[a] + Total(f, s \ {a})
    BY <1>2, <2>1, TotalAny
  <2> HIDE DEF a
  <2>3. ASSUME NEW y \in s, y # a
        PROVE  Total(f, s) = f[y] + Total(f, s \ {y})
    <3>1. IsFiniteSet((s \ {a}) \ {y}) /\ IsFiniteSet(s \ {a}) /\ IsFiniteSet(s \ {y})
      BY <2>1, FS_Subset
    <3>2. Total(f, s \ {a}) = f[y] + Total(f, (s \ {a}) \ {y})
      BY <1>2, <2>1, <2>3
    <3>3. Total(f, s \ {y}) = f[a] + Total(f, (s \ {y}) \ {a})
      BY <1>2, <2>1, <2>3
    <3>4. (s \ {a}) \ {y} = (s \ {y}) \ {a}
      OBVIOUS
    <3>5. Total(f, (s \ {a}) \ {y}) \in Nat /\ f[a] \in Nat /\ f[y] \in Nat
      BY <2>1, <3>1, TotalNat
    <3> QED
      BY <2>2, <3>2, <3>3, <3>4, <3>5
  <2>4. \A y \in s : Total(f, s) = f[y] + Total(f, s \ {y})
    BY <2>2, <2>3
  <2> QED
    BY <2>4
<1> HIDE DEF Good
<1>3. SUBSET S \subseteq Good
  BY <1>1, <1>2, SubsetInduction
<1> QED
  BY <1>3 DEF Good

LEMMA TotalSame ==
    ASSUME NEW f, NEW g, NEW S, IsFiniteSet(S), \A x \in S : f[x] = g[x]
    PROVE  Total(f, S) = Total(g, S)
<1> DEFINE Good == {s \in SUBSET S : Total(f, s) = Total(g, s)}
<1>1. {} \in Good
  BY TotalAny, FS_EmptySet
<1>2. ASSUME NEW s \in SUBSET S, s # {}, \A x \in s : s \ {x} \in Good
      PROVE  s \in Good
  <2>1. Any(s) \in s /\ IsFiniteSet(s)
    BY <1>2, AnyElement, FS_Subset
  <2>2. Total(f, s) = f[Any(s)] + Total(f, s \ {Any(s)})
    BY <1>2, <2>1, TotalAny
  <2>3. Total(g, s) = g[Any(s)] + Total(g, s \ {Any(s)})
    BY <1>2, <2>1, TotalAny
  <2> QED
    BY <1>2, <2>1, <2>2, <2>3
<1> HIDE DEF Good
<1>3. SUBSET S \subseteq Good
  BY <1>1, <1>2, SubsetInduction
<1> QED
  BY <1>3 DEF Good

\* The sum over two sets that have nothing in common.
LEMMA TotalSplit ==
    ASSUME NEW f, NEW S, IsFiniteSet(S), \A x \in S : f[x] \in Nat, NEW T \in SUBSET S
    PROVE  Total(f, S) = Total(f, T) + Total(f, S \ T)
<1> DEFINE Good == {s \in SUBSET S : Total(f, s) = Total(f, s \cap T) + Total(f, s \ T)}
<1>0. \A s \in SUBSET S : IsFiniteSet(s) /\ Total(f, s) \in Nat
  BY FS_Subset, TotalNat
<1>1. {} \in Good
  <2>1. Total(f, {}) = 0
    BY TotalAny, FS_EmptySet
  <2>2. {} \cap T = {} /\ {} \ T = {}
    OBVIOUS
  <2> QED
    BY <2>1, <2>2
<1>2. ASSUME NEW s \in SUBSET S, s # {}, \A x \in s : s \ {x} \in Good
      PROVE  s \in Good
  <2>1. PICK x \in s : TRUE
    BY <1>2
  <2>2. Total(f, s) = f[x] + Total(f, s \ {x})
    BY <1>0, TotalOne
  <2>3. Total(f, s \ {x}) = Total(f, (s \ {x}) \cap T) + Total(f, (s \ {x}) \ T)
    BY <1>2
  <2>4. /\ f[x] \in Nat /\ Total(f, s \cap T) \in Nat /\ Total(f, s \ T) \in Nat
        /\ Total(f, (s \ {x}) \cap T) \in Nat /\ Total(f, (s \ {x}) \ T) \in Nat
    BY <1>0
  <2>5. CASE x \in T
    <3>1. (s \ {x}) \cap T = (s \cap T) \ {x} /\ (s \ {x}) \ T = s \ T
      BY <2>5
    <3>2. Total(f, s \cap T) = f[x] + Total(f, (s \cap T) \ {x})
      <4>1. s \cap T \in SUBSET S /\ x \in s \cap T
        BY <2>5
      <4>2. IsFiniteSet(s \cap T) /\ \A y \in s \cap T : f[y] \in Nat
        BY <1>0, <4>1
      <4> QED
        BY <4>1, <4>2, TotalOne
    <3> QED
      BY <2>2, <2>3, <2>4, <3>1, <3>2
  <2>6. CASE x \notin T
    <3>1. (s \ {x}) \cap T = s \cap T /\ (s \ {x}) \ T = (s \ T) \ {x}
      BY <2>6
    <3>2. Total(f, s \ T) = f[x] + Total(f, (s \ T) \ {x})
      <4>1. s \ T \in SUBSET S /\ x \in s \ T
        BY <2>6
      <4>2. IsFiniteSet(s \ T) /\ \A y \in s \ T : f[y] \in Nat
        BY <1>0, <4>1
      <4> QED
        BY <4>1, <4>2, TotalOne
    <3>3. Total(f, (s \ {x}) \cap T) = Total(f, s \cap T)
      BY <3>1
    <3>4. Total(f, (s \ {x}) \ T) = Total(f, (s \ T) \ {x})
      BY <3>1
    <3>5. Total(f, s) = Total(f, s \cap T) + Total(f, s \ T)
      BY <2>2, <2>3, <2>4, <3>2, <3>3, <3>4
    <3> QED
      BY <3>5
  <2> QED
    BY <2>5, <2>6
<1> HIDE DEF Good
<1>3. SUBSET S \subseteq Good
  BY <1>1, <1>2, SubsetInduction
<1>4. S \cap T = T
  OBVIOUS
<1> QED
  BY <1>3, <1>4 DEF Good

(***************************************************************************)
(* Net pay within gross pay.                                               *)
(***************************************************************************)
\* The summaries that edits and changes of the holidays make of a summary.
LEMMA SummariesClosed ==
    /\ FirstSheet \in Summaries
    /\ Sheets \subseteq Summaries
    /\ \A w \in Summaries : w.premium \in PremiumInputs
    /\ \A w \in Summaries, x \in PremiumInputs :
          [w EXCEPT !.premium = x] \in Summaries
<1> DEFINE Base == Sheets \cup {FirstSheet}
<1>1. \A w \in Base : w \in Sheet
  BY PayrollAssumption
<1>2. \A w \in Base : \A x :
         /\ [w EXCEPT !.premium = x].premium = x
         /\ \A y : [[w EXCEPT !.premium = x] EXCEPT !.premium = y]
                    = [w EXCEPT !.premium = y]
  BY <1>1 DEF Sheet
<1>3. \A w \in Base : w = [w EXCEPT !.premium = w.premium]
  BY <1>1 DEF Sheet
<1>4. \A w \in Base : w.premium \in PremiumInputs
  BY DEF PremiumInputs
<1>5. \A w \in Base : w \in Summaries
  BY <1>3, <1>4 DEF Summaries
<1>6. ASSUME NEW w \in Summaries
      PROVE  /\ w.premium \in PremiumInputs
             /\ \A x \in PremiumInputs : [w EXCEPT !.premium = x] \in Summaries
  <2>1. PICK v \in Base, y \in PremiumInputs : w = [v EXCEPT !.premium = y]
    BY DEF Summaries
  <2>2. \A x \in PremiumInputs : [w EXCEPT !.premium = x] = [v EXCEPT !.premium = x]
    BY <1>2, <2>1
  <2>3. \A x \in PremiumInputs : [v EXCEPT !.premium = x] \in Summaries
    BY DEF Summaries
  <2> QED
    BY <1>2, <2>1, <2>2, <2>3
<1> QED
  BY <1>5, <1>6

World ==
    /\ closed \in SUBSET Periods
    /\ sheet \in [Periods -> [Employees -> Summaries]]
    /\ due \in [Employees -> Dues]
    /\ toggles \in SUBSET Gov

\* Whatever is edited, the summaries stay among Summaries.
LEMMA WorldInductive ==
    /\ Init => World
    /\ World /\ [Next]_vars => World'
<1>1. Init => World
  <2> SUFFICES ASSUME Init PROVE World
    OBVIOUS
  <2>1. toggles \in SUBSET Gov
    BY PayrollAssumption DEF Init
  <2>2. [e \in Employees |-> FirstSheet] \in [Employees -> Summaries]
    BY SummariesClosed
  <2>3. sheet \in [Periods -> [Employees -> Summaries]]
    BY <2>2 DEF Init
  <2> QED
    BY <2>1, <2>3 DEF Init, World
<1>2. World /\ [Next]_vars => World'
  <2> SUFFICES ASSUME World, [Next]_vars PROVE World'
    OBVIOUS
  <2>1. ASSUME NEW s \in Sessions, EditWrite(s) PROVE World'
    <3>1. PICK e \in Employees, w \in Summaries :
             sheet' = [sheet EXCEPT ![job[s].period][e] = w]
      BY <2>1, SummariesClosed DEF EditWrite
    <3>2. sheet' \in [Periods -> [Employees -> Summaries]]
      BY <3>1 DEF World
    <3> QED
      BY <2>1, <3>2 DEF EditWrite, World
  <2>2. ASSUME NEW p \in Periods, HolidayChange(p) PROVE World'
    <3>1. PICK x \in PremiumInputs :
             sheet' = [sheet EXCEPT ![p] =
                         [e \in Employees |-> [sheet[p][e] EXCEPT !.premium = x]]]
      BY <2>2 DEF HolidayChange, PremiumInputs
    <3> DEFINE row == [e \in Employees |-> [sheet[p][e] EXCEPT !.premium = x]]
    <3>2. \A e \in Employees : [sheet[p][e] EXCEPT !.premium = x] \in Summaries
      BY SummariesClosed DEF World
    <3>3. row \in [Employees -> Summaries]
      BY <3>2
    <3> HIDE DEF row
    <3>4. sheet' \in [Periods -> [Employees -> Summaries]]
      BY <3>1, <3>3 DEF World, row
    <3> QED
      BY <2>2, <3>4 DEF HolidayChange, World
  <2>3. ASSUME NEW e \in Employees, DueChange(e) PROVE World'
    BY <2>3 DEF DueChange, World
  <2>4. CASE ToggleChange
    BY <2>4, PayrollAssumption DEF ToggleChange, World
  <2>5. ASSUME NEW s \in Sessions, Job(s), ~EditWrite(s)
        PROVE  UNCHANGED <<sheet, due, toggles>> /\ closed' \subseteq closed
    BY <2>5 DEF Job, world, books, ReopenBegin, ReopenDelete, EditBegin,
         ReadSums, CreateBegin, CreateSummary, CreateInsert, AutoBegin, Defaults,
         DefaultInsert, GovPlan, LwopPlan, WriteAuto, InsertAuto, Refresh,
         AutoVoid, RecalcBegin, RecalcDelete, LwopBegin, SaveBegin, SaveWrite,
         FinalizeBegin, FinalizeStale, FinalizePreflight, FinalizeRefresh,
         FinalizeWrite
  <2>6. ASSUME \/ \E p \in Periods : ClosePeriod(p)
               \/ \E r \in Runs : Void(r)
               \/ UNCHANGED vars
        PROVE  /\ UNCHANGED <<sheet, due, toggles>>
               /\ closed' \subseteq closed \cup Periods
    BY <2>6 DEF ClosePeriod, Void, world, vars
  <2>7. /\ UNCHANGED <<sheet, due, toggles>>
        /\ closed' \subseteq closed \cup Periods
        => World'
    BY DEF World
  <2> QED
    BY <2>1, <2>2, <2>3, <2>4, <2>5, <2>6, <2>7 DEF Next
<1> QED
  BY <1>1, <1>2

\* What a job has read, and what it is about to write.
LineSteps == {"defaults", "default", "gov", "lwop", "write", "insert"}

\* The amounts that job j is to save, on the lines ln of the runs st.
Fits(j, st, ln) ==
    /\ j.run \in Runs /\ st[j.run] # "none"
    /\ j.line \in DOMAIN ln[j.run]
    /\ j.input \in [Types -> Deductions]
    /\ TotalOf(j.input) <= ln[j.run][j.line].gross

Read(j) ==
    /\ j.at \in {"summary", "insert_run"} => j.period \in Periods
    /\ j.at = "insert_run" => j.sheet \in [Employees -> Summaries]
    /\ j.toggles \in SUBSET Gov
    /\ j.todo \in SUBSET Employees
    /\ j.at \in LineSteps => j.due \in [Employees -> Dues] /\ j.line \in Employees
    /\ j.at = "default" => j.plan \in SUBSET Manual
    /\ j.at \in {"write", "insert"} =>
          j.plan \in SUBSET Automatic /\ j.due[j.line] # None
    /\ j.at = "insert" => j.type \in j.plan
    /\ j.at = "save" => Fits(j, status, line)
    /\ j.at \in {"refresh", "fin_refresh"} => j.sums \in [Employees -> Nat]

ReadMove(s) == \E n : Be(s, n) /\ Read(n)

LEMMA IdleReads == Read(Idle)
  BY DEF Read, Idle, LineSteps

LEMMA NextLineReads ==
    ASSUME NEW j, JobOK(j), j.kind # "none", Read(j),
           j.due \in [Employees -> Dues], NEW n \in NextLine(j)
    PROVE  Read(n)
<1>1. CASE j.todo = {}
  <2>1. n = [j EXCEPT !.line = None, !.plan = {}, !.type = None,
                      !.at = IF j.kind = "recalc_gov" THEN "lwop_begin" ELSE "sums"]
    BY <1>1 DEF NextLine
  <2>2. /\ n.at \in {"lwop_begin", "sums"}
        /\ n.toggles = j.toggles /\ n.todo = j.todo
    BY <2>1 DEF JobOK, JobShape
  <2> QED
    BY <2>2 DEF Read, LineSteps
<1>2. CASE j.todo # {}
  <2>1. PICK e \in j.todo :
           n = [j EXCEPT !.line = e, !.todo = @ \ {e}, !.plan = {},
                         !.type = None,
                         !.at = CASE j.kind = "create" -> "defaults"
                                  [] j.kind = "recalc_gov" -> "gov"
                                  [] j.kind = "recalc_lwop" -> "lwop"]
    BY <1>2 DEF NextLine
  <2>2. /\ n.at \in {"defaults", "gov", "lwop"}
        /\ n.toggles = j.toggles /\ n.due = j.due
        /\ n.line = e /\ n.todo = j.todo \ {e}
    BY <2>1 DEF JobOK, JobShape
  <2> QED
    BY <2>2 DEF Read
<1> QED
  BY <1>1, <1>2

LEMMA AfterGovReads ==
    ASSUME NEW j, JobOK(j), j.kind # "none", Read(j), j.at \in LineSteps,
           NEW n \in AfterGov(j)
    PROVE  Read(n)
<1>1. CASE j.kind = "create"
  <2>1. n = [j EXCEPT !.at = "lwop", !.plan = {}, !.type = None]
    BY <1>1 DEF AfterGov
  <2>2. /\ n.at = "lwop" /\ n.toggles = j.toggles /\ n.due = j.due
        /\ n.line = j.line /\ n.todo = j.todo
    BY <2>1 DEF JobOK, JobShape
  <2> QED
    BY <2>2 DEF Read, LineSteps
<1>2. CASE j.kind # "create"
  BY <1>2, NextLineReads DEF AfterGov, Read
<1> QED
  BY <1>1, <1>2

LEMMA AfterWriteReads ==
    ASSUME NEW j, JobOK(j), j.kind # "none", Read(j),
           j.at \in {"write", "insert"}, NEW t, NEW n \in AfterWrite(j, t)
    PROVE  Read(n)
<1>1. CASE j.plan = {t}
  BY <1>1, NextLineReads, AfterGovReads DEF AfterWrite, Read, LineSteps
<1>2. CASE j.plan # {t}
  <2>1. n = [j EXCEPT !.at = "write", !.plan = @ \ {t}, !.type = None]
    BY <1>2 DEF AfterWrite
  <2>2. /\ n.at = "write" /\ n.toggles = j.toggles /\ n.due = j.due
        /\ n.line = j.line /\ n.todo = j.todo /\ n.plan = j.plan \ {t}
    BY <2>1 DEF JobOK, JobShape
  <2> QED
    BY <2>2 DEF Read, LineSteps
<1> QED
  BY <1>1, <1>2

\* A job that goes on at a statement that is not one of a line's.
LEMMA GoReads ==
    ASSUME NEW s, JobOK(job[s]), Read(job[s]), NEW at, Go(s, at),
           at \notin LineSteps
                      \cup {"summary", "insert_run", "save", "refresh", "fin_refresh"}
    PROVE  ReadMove(s)
<1> DEFINE n == [job[s] EXCEPT !.at = at]
<1>1. n.at = at /\ n.toggles = job[s].toggles /\ n.todo = job[s].todo
  BY DEF JobOK, JobShape
<1>2. Be(s, n)
  BY DEF Go
<1> HIDE DEF n
<1>3. Read(n)
  BY <1>1 DEF Read, LineSteps
<1> QED
  BY <1>2, <1>3 DEF ReadMove

LEMMA FailReads ==
    ASSUME NEW s, JobOK(job[s]), Read(job[s]), Fail(s)
    PROVE  ReadMove(s)
<1>1. CASE job[s].kind = "create"
  BY <1>1, GoReads DEF Fail, LineSteps
<1>2. CASE job[s].kind # "create"
  BY <1>2, IdleReads DEF Fail, Return, ReadMove
<1> QED
  BY <1>1, <1>2

\* The next line of a loop that starts with the compensation as it is now.
LEMMA LoopReads ==
    ASSUME World, NEW i, JobOK(i), i.kind # "none",
           i.at \in {"auto_begin", "recalc", "lwop_begin"}, i.due = due,
           i.toggles \in SUBSET Gov, i.todo \in SUBSET Employees,
           NEW n \in NextLine(i)
    PROVE  Read(n)
<1>1. Read(i) /\ i.due \in [Employees -> Dues]
  BY DEF Read, LineSteps, World
<1> QED
  BY <1>1, NextLineReads

\* What passes the checks of a save is an amount of deductions for each type.
LEMMA InputsTyped ==
    ASSUME NEW f \in Inputs, NoNegativeAmount(f)
    PROVE  f \in [Types -> Deductions]
<1>1. f \in [Types -> Typed] /\ \A t \in Types : f[t].amount >= 0
  BY DEF Inputs, NoNegativeAmount
<1>2. ASSUME NEW d \in Typed, d.amount >= 0
      PROVE  d \in Deductions
  <2>1. CASE d = NoRow
    BY <2>1 DEF NoRow, Deductions
  <2>2. CASE d \in [amount : Amounts \ {0}, auto : BOOLEAN]
    <3>1. PICK a \in Amounts \ {0}, b \in BOOLEAN : d = [amount |-> a, auto |-> b]
      BY <2>2
    <3>2. a \in Nat
      BY <1>2, <3>1, PayrollAssumption
    <3> QED
      BY <3>1, <3>2 DEF Deductions
  <2> QED
    BY <2>1, <2>2 DEF Typed
<1> QED
  BY <1>1, <1>2

\* The deductions are amounts of pay.
DedTyped == ded \in [Runs -> [Employees -> [Types -> Deductions]]]

\* Sums of deductions are amounts of pay.
LEMMA RowsTotal ==
    ASSUME NEW f \in [Types -> Deductions], NEW T \in SUBSET Types
    PROVE  Total(AmountOf(f), T) \in Nat
<1>1. \A t \in T : AmountOf(f)[t] \in Nat
  BY DEF AmountOf, Deductions
<1>2. IsFiniteSet(T)
  BY PayrollAssumption, FS_Subset
<1> QED
  BY <1>1, <1>2, TotalNat

LEMMA SumOfNat ==
    ASSUME DedTyped, NEW r \in Runs, NEW e \in Employees, NEW T \in SUBSET Types
    PROVE  SumOf(r, e, T) \in Nat
  BY RowsTotal DEF SumOf, DedTyped

LEMMA DeductedTyped ==
    ASSUME DedTyped, NEW r \in Runs
    PROVE  Deducted(r) \in [Employees -> Nat]
<1>1. \A e \in Employees : SumOf(r, e, Types) \in Nat
  BY SumOfNat
<1> QED
  BY <1>1 DEF Deducted

\* Every step of a handler reads and plans what it should.
LEMMA EveryJobReads ==
    ASSUME World, JobsOK, DedTyped, \A r \in Runs : Lines(r) \in SUBSET Employees,
           NEW s \in Sessions, Read(job[s]), Job(s)
    PROVE  ReadMove(s)
<1>1. JobOK(job[s])
  BY DEF JobsOK
<1>2. job[s].at = "idle" => job[s].kind = "none"
  BY <1>1 DEF JobOK, CreateSteps, RecalcSteps
<1>3. CASE Return(s)
  BY <1>3, IdleReads DEF Return, ReadMove
<1>4. CASE Fail(s)
  BY <1>1, <1>4, FailReads
<1>5. CASE \E at : /\ at \notin LineSteps
                            \cup {"summary", "insert_run", "save", "refresh", "fin_refresh"}
                  /\ Go(s, at)
  BY <1>1, <1>5, GoReads
<1>6. ASSUME NEW n, Be(s, n), n.toggles = {}, n.todo = {}, n.at \notin LineSteps,
             n.at \notin {"summary", "insert_run", "save", "refresh", "fin_refresh"}
      PROVE  ReadMove(s)
  BY <1>6 DEF ReadMove, Read, LineSteps
<1>7. CASE ReopenBegin(s) \/ EditBegin(s) \/ RecalcBegin(s) \/ FinalizeBegin(s)
  <2>1. ASSUME NEW at \in {"reopen", "edit"}, NEW p, NEW n,
               n = [Idle EXCEPT !.at = at, !.period = p]
        PROVE  n.toggles = {} /\ n.todo = {} /\ n.at = at
    BY <2>1 DEF Idle
  <2>2. ASSUME NEW r, NEW n, n = [Idle EXCEPT !.at = "stale", !.run = r]
        PROVE  n.toggles = {} /\ n.todo = {} /\ n.at = "stale"
    BY <2>2 DEF Idle
  <2>3. ASSUME NEW r, NEW n, n = [Idle EXCEPT !.at = "recalc",
                                             !.kind = "recalc_gov", !.run = r]
        PROVE  n.toggles = {} /\ n.todo = {} /\ n.at = "recalc"
    BY <2>3 DEF Idle
  <2>5. CASE ReopenBegin(s) \/ EditBegin(s)
    <3>1. PICK at, p, n :
             at \in {"reopen", "edit"} /\ n = [Idle EXCEPT !.at = at, !.period = p] /\ Be(s, n)
      BY <2>5 DEF ReopenBegin, EditBegin
    <3> QED
      BY <1>6, <2>1, <3>1 DEF LineSteps
  <2>6. CASE FinalizeBegin(s)
    <3>1. PICK r, n : n = [Idle EXCEPT !.at = "stale", !.run = r] /\ Be(s, n)
      BY <2>6 DEF FinalizeBegin
    <3> QED
      BY <1>6, <2>2, <3>1 DEF LineSteps
  <2>7. CASE RecalcBegin(s)
    <3>1. PICK r, n : /\ n = [Idle EXCEPT !.at = "recalc",
                                          !.kind = "recalc_gov", !.run = r]
                      /\ Be(s, n)
      BY <2>7 DEF RecalcBegin
    <3> QED
      BY <1>6, <2>3, <3>1 DEF LineSteps
  <2> QED
    BY <1>7, <2>5, <2>6, <2>7
<1>8. CASE CreateBegin(s)
  <2>1. PICK p, n : /\ p \in closed
                    /\ n = [Idle EXCEPT !.at = "summary", !.period = p]
                    /\ Be(s, n)
    BY <1>8 DEF CreateBegin
  <2>2. n.at = "summary" /\ n.period = p /\ n.toggles = {} /\ n.todo = {}
    BY <2>1 DEF Idle
  <2>3. Read(n)
    BY <2>1, <2>2 DEF Read, LineSteps, World
  <2> QED
    BY <2>1, <2>3 DEF ReadMove
<1>9. CASE CreateSummary(s)
  <2>1. PICK n : /\ n = [job[s] EXCEPT !.at = "insert_run",
                                       !.sheet = sheet[job[s].period]]
                 /\ Be(s, n)
    BY <1>9 DEF CreateSummary
  <2>2. /\ n.at = "insert_run" /\ n.period = job[s].period
        /\ n.toggles = job[s].toggles /\ n.todo = job[s].todo
        /\ n.sheet = sheet[job[s].period]
    BY <1>1, <2>1 DEF JobOK, JobShape
  <2>3. job[s].period \in Periods
    BY <1>9 DEF CreateSummary, Read
  <2>4. Read(n)
    BY <2>2, <2>3 DEF Read, LineSteps, World
  <2> QED
    BY <2>1, <2>4 DEF ReadMove
<1>10. CASE CreateInsert(s)
  <2>1. CASE Return(s)
    BY <1>3, <2>1
  <2>2. CASE ~Return(s)
    <3>1. PICK r, n : /\ n = [Idle EXCEPT !.at = "auto_begin", !.kind = "create",
                                          !.run = r]
                      /\ Be(s, n)
      BY <1>10, <2>2 DEF CreateInsert
    <3>2. n.toggles = {} /\ n.todo = {} /\ n.at = "auto_begin"
      BY <3>1 DEF Idle
    <3> QED
      BY <1>6, <3>1, <3>2 DEF LineSteps
  <2> QED
    BY <2>1, <2>2
<1>11. CASE AutoBegin(s) \/ RecalcDelete(s) \/ LwopBegin(s)
  <2>1. /\ job[s].kind # "none" /\ job[s].run \in Runs
        /\ job[s].at \in {"auto_begin", "recalc", "lwop_begin"}
    BY <1>1, <1>11 DEF AutoBegin, RecalcDelete, LwopBegin, JobOK, OtherSteps
  <2>2. CASE Return(s) \/ Fail(s)
    BY <1>3, <1>4, <2>2
  <2>3. CASE Go(s, "lwop_begin")
    BY <1>5, <2>3 DEF LineSteps
  <2>4. CASE ~(Return(s) \/ Fail(s) \/ Go(s, "lwop_begin"))
    <3>1. PICK i, n :
             /\ \/ i = [job[s] EXCEPT !.due = due, !.toggles = toggles,
                                      !.todo = Lines(job[s].run)]
                \/ /\ job[s].at = "lwop_begin"
                   /\ i = [job[s] EXCEPT !.kind = "recalc_lwop", !.due = due,
                                         !.todo = Lines(job[s].run)]
             /\ n \in NextLine(i)
             /\ Be(s, n)
      BY <1>11, <2>4 DEF AutoBegin, RecalcDelete, LwopBegin
    <3>2. /\ i.at = job[s].at /\ i.kind # "none" /\ i.due = due
          /\ i.toggles \in {toggles, job[s].toggles}
          /\ i.todo = Lines(job[s].run)
          /\ JobOK(i)
      BY <1>1, <2>1, <3>1 DEF JobOK, JobShape, CreateSteps, RecalcSteps
    <3>3. i.toggles \in SUBSET Gov /\ i.todo \in SUBSET Employees
      BY <2>1, <3>2 DEF Read, World
    <3>4. Read(n)
      BY <2>1, <3>1, <3>2, <3>3, LoopReads
    <3> QED
      BY <3>1, <3>4 DEF ReadMove
  <2> QED
    BY <2>2, <2>3, <2>4
<1>12. CASE Defaults(s) \/ DefaultInsert(s)
  <2>1. /\ job[s].at \in LineSteps /\ job[s].due \in [Employees -> Dues]
        /\ job[s].line \in Employees
    BY <1>12 DEF Defaults, DefaultInsert, LineSteps, Read
  <2>2. ASSUME NEW plan \in SUBSET Manual, NEW at \in {"default", "gov"}, NEW n,
               \/ n = [job[s] EXCEPT !.at = at, !.plan = plan]
               \/ at = job[s].at /\ n = [job[s] EXCEPT !.plan = plan]
               \/ at = "gov" /\ n = [job[s] EXCEPT !.at = at],
               Be(s, n)
        PROVE  ReadMove(s)
    <3>1. /\ n.at = at /\ n.toggles = job[s].toggles /\ n.due = job[s].due
          /\ n.line = job[s].line /\ n.todo = job[s].todo
          /\ n.plan = plan \/ at = "gov"
      BY <1>1, <2>2 DEF JobOK, JobShape
    <3>2. Read(n)
      BY <2>1, <3>1 DEF Read
    <3> QED
      BY <2>2, <3>2 DEF ReadMove
  <2>3. CASE Defaults(s)
    <3>1. {} \in SUBSET Manual /\ {t \in Manual : Default[t] > 0} \in SUBSET Manual
      OBVIOUS
    <3>2. \/ Be(s, [job[s] EXCEPT !.at = "default",
                                  !.plan = {t \in Manual : Default[t] > 0}])
          \/ Be(s, [job[s] EXCEPT !.at = "gov"])
      BY <2>3 DEF Defaults
    <3> QED
      BY <2>2, <3>1, <3>2
  <2>4. CASE DefaultInsert(s)
    <3>1. CASE Fail(s)
      BY <1>4, <3>1
    <3>2. CASE ~Fail(s)
      <4>1. job[s].plan \in SUBSET Manual
        BY <2>4 DEF DefaultInsert, Read
      <4>2. PICK t \in job[s].plan :
               \/ Be(s, [job[s] EXCEPT !.at = "gov", !.plan = {}])
               \/ Be(s, [job[s] EXCEPT !.plan = @ \ {t}])
        BY <2>4, <3>2 DEF DefaultInsert
      <4>3. {} \in SUBSET Manual /\ job[s].plan \ {t} \in SUBSET Manual
        BY <4>1
      <4>4. CASE Be(s, [job[s] EXCEPT !.at = "gov", !.plan = {}])
        BY <2>2, <4>3, <4>4
      <4>5. CASE Be(s, [job[s] EXCEPT !.plan = @ \ {t}])
        <5>1. job[s].at = "default"
          BY <2>4 DEF DefaultInsert
        <5> QED
          BY <2>2, <4>3, <4>5, <5>1
      <4> QED
        BY <4>2, <4>4, <4>5
    <3> QED
      BY <3>1, <3>2
  <2> QED
    BY <1>12, <2>3, <2>4
<1>13. CASE GovPlan(s) \/ LwopPlan(s)
  <2>1. /\ job[s].at \in LineSteps /\ job[s].due \in [Employees -> Dues]
        /\ job[s].line \in Employees /\ job[s].kind # "none"
    BY <1>1, <1>13 DEF GovPlan, LwopPlan, LineSteps, Read, JobOK, OtherSteps
  <2>2. CASE \E n \in AfterGov(job[s]) \cup NextLine(job[s]) : Be(s, n)
    BY <1>1, <2>1, <2>2, NextLineReads, AfterGovReads DEF ReadMove
  <2>3. ASSUME NEW plan \in SUBSET Automatic, job[s].due[job[s].line] # None,
               NEW n, n = [job[s] EXCEPT !.at = "write", !.plan = plan], Be(s, n)
        PROVE  ReadMove(s)
    <3>1. /\ n.at = "write" /\ n.toggles = job[s].toggles /\ n.due = job[s].due
          /\ n.line = job[s].line /\ n.todo = job[s].todo /\ n.plan = plan
      BY <1>1, <2>3 DEF JobOK, JobShape
    <3>2. Read(n)
      BY <2>1, <2>3, <3>1 DEF Read
    <3> QED
      BY <2>3, <3>2 DEF ReadMove
  <2>4. CASE GovPlan(s) /\ ~(\E n \in AfterGov(job[s]) : Be(s, n))
    <3>1. /\ Planned(job[s], job[s].line) # {}
          /\ Be(s, [job[s] EXCEPT !.at = "write",
                                  !.plan = Planned(job[s], job[s].line)])
      BY <2>4 DEF GovPlan
    <3>2. Planned(job[s], job[s].line) \in SUBSET Automatic
      BY DEF Planned, Read, Automatic
    <3>3. job[s].due[job[s].line] # None
      BY <3>1 DEF Planned
    <3> QED
      BY <2>3, <3>1, <3>2, <3>3
  <2>5. CASE LwopPlan(s) /\ ~(\E n \in NextLine(job[s]) : Be(s, n))
    <3>1. /\ job[s].due[job[s].line] # None
          /\ Be(s, [job[s] EXCEPT !.at = "write", !.plan = {Lwop}])
      <4>1. /\ LwopAmount(job[s], job[s].line) > 0
            /\ Be(s, [job[s] EXCEPT !.at = "write", !.plan = {Lwop}])
        BY <2>5 DEF LwopPlan
      <4> QED
        BY <4>1 DEF LwopAmount
    <3>2. {Lwop} \in SUBSET Automatic
      BY DEF Automatic
    <3> QED
      BY <2>3, <3>1, <3>2
  <2> QED
    BY <1>13, <2>2, <2>4, <2>5
<1>14. CASE WriteAuto(s) \/ InsertAuto(s)
  <2>1. /\ job[s].at \in {"write", "insert"} /\ job[s].at \in LineSteps
        /\ job[s].kind # "none"
    BY <1>1, <1>14 DEF WriteAuto, InsertAuto, LineSteps, JobOK, OtherSteps
  <2>2. CASE Fail(s)
    BY <1>4, <2>2
  <2>3. CASE \E t : \E n \in AfterWrite(job[s], t) : Be(s, n)
    BY <1>1, <2>1, <2>3, AfterWriteReads DEF ReadMove
  <2>4. ASSUME NEW t \in job[s].plan, NEW n,
               n = [job[s] EXCEPT !.at = "insert", !.type = t], Be(s, n)
        PROVE  ReadMove(s)
    <3>1. /\ n.at = "insert" /\ n.toggles = job[s].toggles /\ n.due = job[s].due
          /\ n.line = job[s].line /\ n.todo = job[s].todo
          /\ n.plan = job[s].plan /\ n.type = t
      BY <1>1, <2>4 DEF JobOK, JobShape
    <3>2. Read(n)
      BY <2>1, <2>4, <3>1 DEF Read
    <3> QED
      BY <2>4, <3>2 DEF ReadMove
  <2> QED
    BY <1>14, <2>2, <2>3, <2>4 DEF WriteAuto, InsertAuto
<1>15. CASE Refresh(s) \/ AutoVoid(s) \/ FinalizeStale(s) \/ FinalizePreflight(s)
            \/ FinalizeRefresh(s)
  <2>1. \/ Return(s) \/ Fail(s)
        \/ \E at \in {"preflight", "fin_sums"} : Go(s, at)
        \/ \E n : n = [job[s] EXCEPT !.at = "finalize", !.sums = None] /\ Be(s, n)
    BY <1>15 DEF Refresh, AutoVoid, FinalizeStale, FinalizePreflight,
         FinalizeRefresh
  <2>2. ASSUME NEW n, n = [job[s] EXCEPT !.at = "finalize", !.sums = None], Be(s, n)
        PROVE  ReadMove(s)
    <3>1. n.at = "finalize" /\ n.toggles = job[s].toggles /\ n.todo = job[s].todo
      BY <1>1, <2>2 DEF JobOK, JobShape
    <3>2. Read(n)
      BY <1>1, <3>1 DEF Read, LineSteps
    <3> QED
      BY <2>2, <3>2 DEF ReadMove
  <2> QED
    BY <1>3, <1>4, <1>5, <2>1, <2>2 DEF LineSteps
<1>18. CASE ReadSums(s)
  <2>1. PICK n :
           /\ n = [job[s] EXCEPT !.at = IF @ = "sums" THEN "refresh" ELSE "fin_refresh",
                                 !.sums = Deducted(job[s].run)]
           /\ Be(s, n)
    BY <1>18 DEF ReadSums
  <2>2. /\ n.at \in {"refresh", "fin_refresh"} /\ n.toggles = job[s].toggles
        /\ n.todo = job[s].todo /\ n.sums = Deducted(job[s].run)
    BY <1>1, <2>1 DEF JobOK, JobShape
  <2>3. job[s].run \in Runs
    BY <1>1, <1>18 DEF ReadSums, JobOK, CreateSteps, RecalcSteps, OtherSteps
  <2>4. n.sums \in [Employees -> Nat]
    BY <2>2, <2>3, DeductedTyped
  <2>5. Read(n)
    BY <1>1, <2>2, <2>4 DEF Read, LineSteps
  <2> QED
    BY <2>1, <2>5 DEF ReadMove
<1>16. CASE ReopenDelete(s) \/ EditWrite(s) \/ SaveWrite(s) \/ FinalizeWrite(s)
  BY <1>3, <1>16 DEF ReopenDelete, EditWrite, SaveWrite, FinalizeWrite
<1>17. CASE SaveBegin(s)
  <2>1. PICK r, e, f, n :
           /\ r \in Runs /\ status[r] = "draft" /\ e \in Lines(r) /\ f \in Inputs
           /\ TotalOf(f) <= line[r][e].gross
           /\ NoNegativeAmount(f)
           /\ n = [Idle EXCEPT !.at = "save", !.run = r, !.line = e, !.input = f]
           /\ Be(s, n)
    BY <1>17 DEF SaveBegin
  <2>2. /\ n.at = "save" /\ n.run = r /\ n.line = e /\ n.input = f
        /\ n.toggles = {} /\ n.todo = {}
    BY <2>1 DEF Idle
  <2>3. f \in [Types -> Deductions]
    BY <2>1, InputsTyped
  <2>4. Fits(n, status, line)
    BY <2>1, <2>2, <2>3 DEF Fits, Lines
  <2>5. Read(n)
    BY <2>2, <2>4 DEF Read, LineSteps
  <2> QED
    BY <2>1, <2>5 DEF ReadMove
<1> QED
  BY <1>7, <1>8, <1>9, <1>10, <1>11, <1>12, <1>13, <1>14, <1>15, <1>16, <1>17, <1>18
     DEF Job

\* The write of one row.
LEMMA PutRow ==
    ASSUME DedTyped, NEW r, NEW e, NEW t, NEW a \in Nat, NEW b \in BOOLEAN,
           Put(r, e, t, a, b)
    PROVE  /\ DedTyped'
           /\ \A q \in Runs, d \in Employees, u \in Types :
                 ded'[q][d][u] = IF q = r /\ d = e /\ u = t
                                 THEN [amount |-> a, auto |-> b] ELSE ded[q][d][u]
<1> DEFINE v == [amount |-> a, auto |-> b]
<1>1. v \in Deductions /\ ded' = [ded EXCEPT ![r][e][t] = v]
  BY DEF Deductions, Put
<1> HIDE DEF v
<1>2. DedTyped'
  BY <1>1 DEF DedTyped
<1>3. \A q \in Runs, d \in Employees, u \in Types :
         ded'[q][d][u] = IF q = r /\ d = e /\ u = t THEN v ELSE ded[q][d][u]
  BY <1>1 DEF DedTyped
<1> QED
  BY <1>2, <1>3 DEF v

\* The deletion of rows of one line.
LEMMA WithoutRows ==
    ASSUME DedTyped, NEW r, NEW e, NEW types, ded' = Without(r, e, types)
    PROVE  /\ DedTyped'
           /\ \A q \in Runs, d \in Employees, u \in Types :
                 ded'[q][d][u] = IF q = r /\ d = e /\ u \in types
                                 THEN NoRow ELSE ded[q][d][u]
<1>1. NoRow \in Deductions
  BY DEF NoRow, Deductions
<1>2. CASE r \in Runs /\ e \in Employees
  <2> DEFINE rows == [t \in Types |-> IF t \in types THEN NoRow ELSE ded[r][e][t]]
  <2>1. rows \in [Types -> Deductions]
    BY <1>1, <1>2 DEF DedTyped
  <2>2. ded' = [ded EXCEPT ![r][e] = rows]
    BY <1>2 DEF DedTyped, Without
  <2>3. \A u \in Types : rows[u] = IF u \in types THEN NoRow ELSE ded[r][e][u]
    OBVIOUS
  <2> HIDE DEF rows
  <2>4. DedTyped'
    <3>1. [ded[r] EXCEPT ![e] = rows] \in [Employees -> [Types -> Deductions]]
      BY <1>2, <2>1 DEF DedTyped
    <3>2. ded' = [ded EXCEPT ![r] = [ded[r] EXCEPT ![e] = rows]]
      BY <1>2, <2>2 DEF DedTyped
    <3> QED
      BY <1>2, <3>1, <3>2 DEF DedTyped
  <2>5. \A q \in Runs, d \in Employees :
           ded'[q][d] = IF q = r /\ d = e THEN rows ELSE ded[q][d]
    BY <2>2 DEF DedTyped
  <2> QED
    BY <2>3, <2>4, <2>5
<1>3. CASE ~(r \in Runs /\ e \in Employees)
  <2>1. ded' = ded
    BY <1>3 DEF DedTyped, Without
  <2> QED
    BY <1>3, <2>1 DEF DedTyped
<1> QED
  BY <1>2, <1>3

\* The deletion of a run's automatic government rows.
LEMMA RecalcRows ==
    ASSUME DedTyped, NEW s, RecalcDelete(s), NEW r, r = job[s].run, r \in Runs
    PROVE  /\ DedTyped'
           /\ \A q \in Runs, d \in Employees, u \in Types :
                 ded'[q][d][u] = IF q = r /\ u \in Gov /\ IsAuto(r, d, u)
                                 THEN NoRow ELSE ded[q][d][u]
<1> DEFINE rows == [e \in Employees |-> [t \in Types |->
                       IF t \in Gov /\ IsAuto(r, e, t) THEN NoRow ELSE ded[r][e][t]]]
<1>1. NoRow \in Deductions
  BY DEF NoRow, Deductions
<1>2. rows \in [Employees -> [Types -> Deductions]]
  BY <1>1 DEF DedTyped
<1>3. ded' = [ded EXCEPT ![r] = rows]
  BY DEF DedTyped, RecalcDelete
<1>4. \A d \in Employees, u \in Types :
         rows[d][u] = IF u \in Gov /\ IsAuto(r, d, u) THEN NoRow ELSE ded[r][d][u]
  OBVIOUS
<1> HIDE DEF rows
<1>5. DedTyped'
  BY <1>2, <1>3 DEF DedTyped
<1>6. \A q \in Runs : ded'[q] = IF q = r THEN rows ELSE ded[q]
  BY <1>3 DEF DedTyped
<1> QED
  BY <1>4, <1>5, <1>6

\* What an automatic deduction adds is an amount of the compensation.
LEMMA DueAmounts ==
    ASSUME NEW j, Read(j), j.at \in {"write", "insert"}
    PROVE  /\ j.due[j.line] \in [Automatic -> Nat]
           /\ \A t \in j.plan : j.due[j.line][t] \in Nat
<1>1. j.due[j.line] \in Dues /\ j.due[j.line] # None
  BY DEF Read, LineSteps
<1>2. j.due[j.line] \in [Automatic -> Nat]
  BY <1>1, PayrollAssumption
<1> QED
  BY <1>2 DEF Read

LEMMA DedTypedInductive ==
    ASSUME JobsOK, \A s \in Sessions : Read(job[s]), DedTyped, [Next]_vars
    PROVE  DedTyped'
<1>1. ASSUME NEW s \in Sessions, DefaultInsert(s) PROVE DedTyped'
  <2>1. CASE UNCHANGED ded
    BY <2>1 DEF DedTyped
  <2>2. CASE ~UNCHANGED ded
    <3>1. PICK t \in job[s].plan : Put(job[s].run, job[s].line, t, Default[t], FALSE)
      BY <1>1, <2>2 DEF DefaultInsert
    <3>2. Default[t] \in Nat
      BY <1>1, PayrollAssumption DEF DefaultInsert, Read
    <3> QED
      BY <3>1, <3>2, PutRow
  <2> QED
    BY <2>1, <2>2
<1>2. ASSUME NEW s \in Sessions, WriteAuto(s) \/ InsertAuto(s) PROVE DedTyped'
  <2>1. CASE UNCHANGED ded
    BY <2>1 DEF DedTyped
  <2>2. CASE ~UNCHANGED ded
    <3>1. PICK t \in job[s].plan :
             Put(job[s].run, job[s].line, t, job[s].due[job[s].line][t], TRUE)
      BY <1>2, <2>2 DEF WriteAuto, InsertAuto, Read
    <3>2. job[s].due[job[s].line][t] \in Nat
      BY <1>2, DueAmounts DEF WriteAuto, InsertAuto
    <3> QED
      BY <3>1, <3>2, PutRow
  <2> QED
    BY <2>1, <2>2
<1>3. ASSUME NEW s \in Sessions, GovPlan(s) \/ LwopPlan(s) PROVE DedTyped'
  <2>1. UNCHANGED ded \/ \E r, e, types : ded' = Without(r, e, types)
    BY <1>3 DEF GovPlan, LwopPlan
  <2>2. UNCHANGED ded => DedTyped'
    BY DEF DedTyped
  <2> QED
    BY <2>1, <2>2, WithoutRows
<1>4. ASSUME NEW s \in Sessions, RecalcDelete(s) PROVE DedTyped'
  <2>1. job[s].run \in Runs
    BY <1>4 DEF RecalcDelete, JobsOK, JobOK, CreateSteps, OtherSteps
  <2> QED
    BY <1>4, <2>1, RecalcRows
<1>5. ASSUME NEW s \in Sessions, SaveWrite(s) PROVE DedTyped'
  <2>1. PICK r, e, f : /\ f \in [Types -> Deductions]
                       /\ ded' = [ded EXCEPT ![r][e] = f]
    BY <1>5 DEF SaveWrite, Read, Fits
  <2> QED
    BY <2>1 DEF DedTyped
<1>6. ASSUME NEW s \in Sessions, Job(s), ~DefaultInsert(s), ~WriteAuto(s),
             ~InsertAuto(s), ~GovPlan(s), ~LwopPlan(s), ~RecalcDelete(s),
             ~SaveWrite(s)
      PROVE  UNCHANGED ded
  BY <1>6 DEF Job, books, ReopenBegin, ReopenDelete, EditBegin, EditWrite,
       ReadSums, CreateBegin, CreateSummary, CreateInsert, AutoBegin, Defaults, Refresh,
       AutoVoid, RecalcBegin, LwopBegin, SaveBegin, FinalizeBegin,
       FinalizeStale, FinalizePreflight, FinalizeRefresh, FinalizeWrite
<1>7. UNCHANGED ded => DedTyped'
  BY DEF DedTyped
<1> QED
  BY <1>1, <1>2, <1>3, <1>4, <1>5, <1>6, <1>7 DEF Next, ClosePeriod,
     HolidayChange, DueChange, ToggleChange, Void, books, vars

\* A save that passed its check fits whatever happens before it is written.
LEMMA FitsKept ==
    ASSUME RunInv, LineTables, [Next]_vars, NEW j, Fits(j, status, line)
    PROVE  Fits(j, status', line')
<1>1. LinesKept(j.run) /\ j.line \in Lines(j.run)
  BY EveryStepKeepsLines DEF Fits, Lines
<1>2. status'[j.run] # "none"
  BY EveryStepIsRunStep DEF RunStep, Inserted, Ended, RunInv, RunTables, Fits
<1> QED
  BY <1>1, <1>2 DEF Fits, LinesKept, Lines

\* A line's gross pay is an amount, and its net pay is between zero and it.
Paid ==
    \A r \in Runs :
        /\ Lines(r) \in SUBSET Employees
        /\ \A e \in Lines(r) : /\ line[r][e].gross \in Nat
                               /\ line[r][e].net \in 0 .. line[r][e].gross

PaidInv ==
    /\ World
    /\ DedTyped
    /\ \A s \in Sessions : Read(job[s])
    /\ Paid

\* The lines of a new run are paid in full.
LEMMA NewLinesPaid ==
    ASSUME World, NEW p \in Periods, NEW f \in [Employees -> Summaries],
           NEW l, l = NewLines(p, f)
    PROVE  /\ DOMAIN l \in SUBSET Employees
           /\ \A e \in DOMAIN l : l[e].gross \in Nat /\ l[e].net \in 0 .. l[e].gross
<1>1. DOMAIN l \in SUBSET Employees /\ \A e \in DOMAIN l : l[e] = NewLine(e, p, f)
  BY DEF NewLines
<1>2. ASSUME NEW e \in Employees, NEW m, m = NewLine(e, p, f)
      PROVE  m.gross \in Nat /\ m.net = m.gross
  <2> DEFINE w == [f[e] EXCEPT !.premium = sheet[p][e].premium]
  <2>1. w \in Summaries
    BY SummariesClosed DEF World
  <2>2. m = [sheet |-> w, gross |-> Gross(w), net |-> Gross(w)]
    BY <1>2 DEF NewLine
  <2> HIDE DEF w
  <2>3. m.gross = Gross(w) /\ m.net = Gross(w)
    BY <2>2
  <2> QED
    BY <2>1, <2>3, PayrollAssumption
<1> QED
  BY <1>1, <1>2

LEMMA PaidInductive ==
    ASSUME RunInv, LineTables, PaidInv, [Next]_vars
    PROVE  Paid'
<1>1. CASE UNCHANGED line
  BY <1>1 DEF PaidInv, Paid, Lines
<1>2. ASSUME NEW r \in Runs, \A q \in Runs \ {r} : line'[q] = line[q],
             DOMAIN line'[r] \in SUBSET Employees,
             \A e \in DOMAIN line'[r] : /\ line'[r][e].gross \in Nat
                                        /\ line'[r][e].net \in 0 .. line'[r][e].gross
      PROVE  Paid'
  <2>1. \A q \in Runs \ {r} :
           /\ DOMAIN line'[q] \in SUBSET Employees
           /\ \A e \in DOMAIN line'[q] : /\ line'[q][e].gross \in Nat
                                         /\ line'[q][e].net \in 0 .. line'[q][e].gross
    BY <1>2 DEF PaidInv, Paid, Lines
  <2> QED
    BY <1>2, <2>1 DEF Paid, Lines
<1>3. ASSUME NEW s \in Sessions, CreateInsert(s) PROVE Paid'
  <2>1. CASE UNCHANGED line
    BY <1>1, <2>1
  <2>2. CASE ~UNCHANGED line
    <3>1. PICK r \in Runs :
             line' = [line EXCEPT ![r] = NewLines(job[s].period, job[s].sheet)]
      BY <1>3, <2>2 DEF CreateInsert, books
    <3>2. /\ line'[r] = NewLines(job[s].period, job[s].sheet)
          /\ \A q \in Runs \ {r} : line'[q] = line[q]
      BY <3>1 DEF LineTables
    <3>3. job[s].period \in Periods /\ job[s].sheet \in [Employees -> Summaries]
      BY <1>3 DEF CreateInsert, PaidInv, Read
    <3>4. /\ DOMAIN line'[r] \in SUBSET Employees
          /\ \A e \in DOMAIN line'[r] : /\ line'[r][e].gross \in Nat
                                        /\ line'[r][e].net \in 0 .. line'[r][e].gross
      BY <3>2, <3>3, NewLinesPaid DEF PaidInv
    <3> QED
      BY <1>2, <3>2, <3>4
  <2> QED
    BY <2>1, <2>2
<1>4. ASSUME NEW s \in Sessions, Refresh(s) \/ FinalizeRefresh(s) PROVE Paid'
  <2> DEFINE r == job[s].run
  <2> DEFINE sums == job[s].sums
  <2>1. UNCHANGED line \/ (~OverGross(r, sums) /\ line' = Refreshed(r, sums))
    BY <1>4 DEF Refresh, FinalizeRefresh, WriteNet
  <2>2. CASE UNCHANGED line \/ r \notin Runs
    <3>1. UNCHANGED line
      BY <2>1, <2>2 DEF Refreshed, LineTables
    <3> QED
      BY <1>1, <3>1
  <2>3. CASE ~(UNCHANGED line \/ r \notin Runs)
    <3>1. /\ line'[r] = [e \in Lines(r) |->
                 [line[r][e] EXCEPT !.net = line[r][e].gross - sums[e]]]
          /\ \A q \in Runs \ {r} : line'[q] = line[q]
      BY <2>1, <2>3 DEF Refreshed, LineTables
    <3>2. Lines(r) \in SUBSET Employees
      BY <2>3 DEF PaidInv, Paid
    <3>3. ASSUME NEW e \in Lines(r)
          PROVE  /\ line'[r][e].gross \in Nat
                 /\ line'[r][e].net \in 0 .. line'[r][e].gross
      <4>1. line[r][e].gross \in Nat /\ Row(line[r][e])
        BY <2>3 DEF PaidInv, Paid, LineTables
      <4>2. sums[e] \in Nat /\ sums[e] <= line[r][e].gross
        <5>1. sums[e] \in Nat
          BY <1>4, <3>2 DEF Refresh, FinalizeRefresh, PaidInv, Read
        <5>2. ~(sums[e] > line[r][e].gross)
          BY <2>1, <2>3 DEF OverGross
        <5> QED
          BY <4>1, <5>1, <5>2
      <4>3. line'[r][e] = [line[r][e] EXCEPT !.net = line[r][e].gross - sums[e]]
        BY <3>1
      <4>4. /\ line'[r][e].gross = line[r][e].gross
            /\ line'[r][e].net = line[r][e].gross - sums[e]
        BY <4>1, <4>3 DEF Row
      <4> QED
        BY <4>1, <4>2, <4>4
    <3> QED
      BY <1>2, <2>3, <3>1, <3>2, <3>3
  <2> QED
    BY <2>2, <2>3
<1>5. ASSUME NEW s \in Sessions, SaveWrite(s) PROVE Paid'
  <2>1. PICK r, e, f :
           /\ r \in Runs /\ e \in Lines(r)
           /\ f \in [Types -> Deductions] /\ TotalOf(f) <= line[r][e].gross
           /\ line' = [line EXCEPT ![r][e].net = line[r][e].gross - TotalOf(f)]
    BY <1>5 DEF SaveWrite, PaidInv, Read, Fits, Lines
  <2>2. /\ line'[r] = [line[r] EXCEPT ![e].net = line[r][e].gross - TotalOf(f)]
        /\ \A q \in Runs \ {r} : line'[q] = line[q]
    BY <2>1 DEF LineTables
  <2>3. Lines(r) \in SUBSET Employees /\ DOMAIN line'[r] = Lines(r)
    BY <2>1, <2>2 DEF PaidInv, Paid, LineTables, Lines
  <2>4. ASSUME NEW d \in Lines(r)
        PROVE  /\ line'[r][d].gross \in Nat
               /\ line'[r][d].net \in 0 .. line'[r][d].gross
    <3>1. CASE d # e
      <4>1. line'[r][d] = line[r][d]
        BY <2>1, <2>2, <3>1 DEF LineTables, Lines
      <4> QED
        BY <2>1, <4>1 DEF PaidInv, Paid
    <3>2. CASE d = e
      <4>1. line[r][e].gross \in Nat /\ Row(line[r][e])
        BY <2>1 DEF PaidInv, Paid, LineTables
      <4>2. line'[r][e] = [line[r][e] EXCEPT !.net = line[r][e].gross - TotalOf(f)]
        BY <2>1, <2>2 DEF LineTables, Lines
      <4>3. /\ line'[r][e].gross = line[r][e].gross
            /\ line'[r][e].net = line[r][e].gross - TotalOf(f)
        BY <4>1, <4>2 DEF Row
      <4>4. TotalOf(f) \in Nat
        BY <2>1, RowsTotal DEF TotalOf
      <4> QED
        BY <2>1, <3>2, <4>1, <4>3, <4>4
    <3> QED
      BY <3>1, <3>2
  <2> QED
    BY <1>2, <2>1, <2>2, <2>3, <2>4
<1>6. ASSUME NEW s \in Sessions, Job(s), ~CreateInsert(s), ~Refresh(s),
             ~FinalizeRefresh(s), ~SaveWrite(s)
      PROVE  UNCHANGED line
  BY <1>6 DEF Job, books, ReopenBegin, ReopenDelete, EditBegin, EditWrite,
       ReadSums, CreateBegin, CreateSummary, AutoBegin, Defaults, DefaultInsert, GovPlan,
       LwopPlan, WriteAuto, InsertAuto, AutoVoid, RecalcBegin, RecalcDelete,
       LwopBegin, SaveBegin, FinalizeBegin, FinalizeStale, FinalizePreflight,
       FinalizeWrite
<1> QED
  BY <1>1, <1>3, <1>4, <1>5, <1>6 DEF Next, ClosePeriod, HolidayChange,
     DueChange, ToggleChange, Void, books, vars

LEMMA PaidInvInductive ==
    /\ Init => PaidInv
    /\ RunInv /\ LineTables /\ JobsOK /\ PaidInv /\ [Next]_vars => PaidInv'
<1>1. Init => PaidInv
  <2> SUFFICES ASSUME Init PROVE PaidInv
    OBVIOUS
  <2>1. NoRow \in Deductions
    BY DEF NoRow, Deductions
  <2>2. DedTyped
    BY <2>1 DEF Init, DedTyped
  <2>3. \A s \in Sessions : Read(job[s])
    BY IdleReads DEF Init
  <2>4. Paid
    BY DEF Init, Paid, Lines
  <2> QED
    BY <2>2, <2>3, <2>4, WorldInductive DEF PaidInv
<1>2. ASSUME RunInv, LineTables, JobsOK, PaidInv, [Next]_vars
      PROVE  PaidInv'
  <2>1. World' /\ DedTyped' /\ Paid'
    BY <1>2, WorldInductive, DedTypedInductive, PaidInductive DEF PaidInv
  <2>2. ASSUME NEW s \in Sessions, NEW n, job'[s] = n, Read(n) PROVE Read(job[s])'
    <3>1. n.at = "save" => Fits(n, status', line')
      BY <1>2, <2>2, FitsKept DEF Read
    <3>2. n.at = "save" => Fits(job[s], status, line)'
      BY <2>2, <3>1 DEF Fits
    <3> QED
      BY <2>2, <3>2 DEF Read
  <2>3. ASSUME NEW s \in Sessions PROVE Read(job[s])'
    <3>1. CASE job'[s] = job[s]
      <4>1. PICK n : n = job[s]
        OBVIOUS
      <4>2. Read(n)
        BY <1>2, <4>1 DEF PaidInv
      <4> QED
        BY <2>2, <3>1, <4>1, <4>2
    <3>2. CASE job'[s] # job[s]
      <4>1. PICK t \in Sessions : Job(t)
        BY <1>2, <3>2 DEF Next, ClosePeriod, HolidayChange, DueChange,
           ToggleChange, Void, vars
      <4>2. PICK n : Be(t, n) /\ Read(n)
        BY <1>2, <4>1, EveryJobReads DEF PaidInv, Paid, ReadMove
      <4>3. job'[s] = n
        BY <1>2, <3>2, <4>2 DEF Be, JobsOK
      <4> QED
        BY <2>2, <4>2, <4>3
    <3> QED
      BY <3>1, <3>2
  <2> QED
    BY <2>1, <2>3 DEF PaidInv
<1> QED
  BY <1>1, <1>2

\* The net pay of a line is never negative nor above its gross pay, whichever
\* handler writes it last (PayrollRun!NetWithinGross).
THEOREM NetTheorem == Spec => []NetWithinGross
<1>1. Init => LineTables
  BY DEF Init, LineTables, Lines
<1>2. RunInv /\ LineTables /\ [Next]_vars => LineTables'
  BY EveryStepKeepsLines
<1>3. PaidInv => NetWithinGross
  BY DEF PaidInv, Paid, NetWithinGross
<1> QED
  BY <1>1, <1>2, <1>3, RunInvInductive, JobsOKInductive, PaidInvInductive, PTL
     DEF Spec

(***************************************************************************)
(* Net pay and deductions.                                                 *)
(***************************************************************************)
Balanced(r) ==
    \A e \in Lines(r) : line[r][e].net = line[r][e].gross - SumOf(r, e, Types)

AtWork(r) == \E s \in Workers(r) : job[s].kind # "none"

BalancedOrTold == \A r \in Runs : Balanced(r) \/ r \in torn \/ AtWork(r)

\* A run without a status has no lines yet.
NoLinesYet == \A r \in Runs : status[r] = "none" => Lines(r) = {}

\* What the handlers do to the history of torn runs.
LEMMA TornMoves ==
    ASSUME JobsOK, NEW s \in Sessions, Job(s)
    PROVE  \/ UNCHANGED torn
           \/ /\ job[s].run \in Runs
              /\ \/ Fail(s) \/ Tear(job[s].run)
                 \/ WriteNet(job[s].run, job[s].sums)
<1>1. job[s].at \in {"auto_begin", "default", "insert", "lwop_begin", "refresh",
                     "auto_void", "fin_refresh"} => job[s].run \in Runs
  BY DEF JobsOK, JobOK, OtherSteps
<1>2. CASE AutoBegin(s) \/ DefaultInsert(s) \/ InsertAuto(s) \/ LwopBegin(s)
  BY <1>1, <1>2 DEF AutoBegin, DefaultInsert, InsertAuto, LwopBegin
<1>3. CASE Refresh(s) \/ FinalizeRefresh(s) \/ AutoVoid(s)
  BY <1>1, <1>3 DEF Refresh, FinalizeRefresh, AutoVoid
<1>4. ASSUME ~AutoBegin(s), ~DefaultInsert(s), ~InsertAuto(s), ~LwopBegin(s),
             ~Refresh(s), ~FinalizeRefresh(s), ~AutoVoid(s)
      PROVE  UNCHANGED torn
  BY <1>4 DEF Job, books, ReopenBegin, ReopenDelete, EditBegin, EditWrite,
     ReadSums, CreateBegin, CreateSummary, CreateInsert, Defaults, GovPlan,
     LwopPlan, WriteAuto, RecalcBegin, RecalcDelete, SaveBegin, SaveWrite,
     FinalizeBegin, FinalizeStale, FinalizePreflight, FinalizeWrite
<1> QED
  BY <1>2, <1>3, <1>4

\* Only runs are torn, and only by a handler that works on them.
LEMMA TornKnown ==
    ASSUME JobsOK, torn \subseteq Runs, [Next]_vars
    PROVE  torn' \subseteq Runs
<1>1. ASSUME NEW s \in Sessions, Job(s) PROVE torn' \subseteq Runs
  BY <1>1, TornMoves DEF WriteNet, Fail, Tear
<1> QED
  BY <1>1 DEF Next, ClosePeriod, HolidayChange, DueChange, ToggleChange, Void,
     books, vars

LEMMA OtherRunsTorn ==
    ASSUME JobsOK, NEW s \in Sessions, Job(s), NEW r, r # job[s].run, r \in torn
    PROVE  r \in torn'
  BY TornMoves DEF WriteNet, Fail, Tear

\* A creation or recalculation stays one, on the same run, until it gives up,
\* voids or refreshes.
LEMMA WorkGoesOn ==
    ASSUME JobsOK, NEW s \in Sessions, Job(s), job[s].kind # "none"
    PROVE  \/ \E n : Be(s, n) /\ n.kind # "none" /\ n.run = job[s].run
           \/ Fail(s) /\ job[s].kind # "create"
           \/ AutoVoid(s)
           \/ Refresh(s)
<1> DEFINE Goal == \/ \E n : Be(s, n) /\ n.kind # "none" /\ n.run = job[s].run
                   \/ Fail(s) /\ job[s].kind # "create"
                   \/ AutoVoid(s)
                   \/ Refresh(s)
<1>1. JobOK(job[s]) /\ JobShape(job[s])
  BY DEF JobsOK, JobOK
<1>2. ASSUME NEW n, Be(s, n), n.kind = job[s].kind, n.run = job[s].run PROVE Goal
  BY <1>2
<1>3. ASSUME NEW j, JobOK(j), j.kind # "none", j.run = job[s].run, NEW t,
             NEW n \in NextLine(j) \cup AfterGov(j) \cup AfterWrite(j, t), Be(s, n)
      PROVE  Goal
  <2>1. n.run = job[s].run
    BY <1>3, LoopsStayOnRun DEF JobOK
  <2>2. n.kind # "none"
    BY <1>3, NextLineOK, AfterGovOK, AfterWriteOK
  <2> QED
    BY <1>3, <2>1, <2>2
<1>4. CASE Fail(s)
  <2>1. CASE job[s].kind = "create"
    <3>1. PICK n : n = [job[s] EXCEPT !.at = "auto_void"] /\ Be(s, n)
      BY <1>4, <2>1 DEF Fail, Go
    <3>2. n.kind = job[s].kind /\ n.run = job[s].run
      BY <1>1, <3>1 DEF JobShape
    <3> QED
      BY <1>2, <3>1, <3>2
  <2> QED
    BY <1>4, <2>1
<1>5. job[s].at \in CreateSteps \cup RecalcSteps
  BY <1>1 DEF JobOK
<1>6. CASE Defaults(s)
  <2>1. PICK at, plan, n : n = [job[s] EXCEPT !.at = at, !.plan = plan] /\ Be(s, n)
    <3>1. \/ Be(s, [job[s] EXCEPT !.at = "gov"])
          \/ \E plan : Be(s, [job[s] EXCEPT !.at = "default", !.plan = plan])
      BY <1>6 DEF Defaults
    <3>2. [job[s] EXCEPT !.at = "gov"] = [job[s] EXCEPT !.at = "gov", !.plan = job[s].plan]
      BY <1>1 DEF JobShape
    <3> QED
      BY <3>1, <3>2
  <2>2. n.kind = job[s].kind /\ n.run = job[s].run
    BY <1>1, <2>1 DEF JobShape
  <2> QED
    BY <1>2, <2>1, <2>2
<1>7. CASE DefaultInsert(s) /\ ~Fail(s)
  <2>1. PICK n : /\ Be(s, n)
                 /\ \/ n = [job[s] EXCEPT !.at = "gov", !.plan = {}]
                    \/ \E t : n = [job[s] EXCEPT !.plan = @ \ {t}]
    BY <1>7 DEF DefaultInsert
  <2>2. n.kind = job[s].kind /\ n.run = job[s].run
    BY <1>1, <2>1 DEF JobShape
  <2> QED
    BY <1>2, <2>1, <2>2
<1>8. CASE GovPlan(s) \/ LwopPlan(s)
  <2>1. \/ \E plan : Be(s, [job[s] EXCEPT !.at = "write", !.plan = plan])
        \/ \E n \in AfterGov(job[s]) \cup NextLine(job[s]) : Be(s, n)
    BY <1>8 DEF GovPlan, LwopPlan
  <2>2. ASSUME NEW plan, NEW n, n = [job[s] EXCEPT !.at = "write", !.plan = plan]
        PROVE  n.kind = job[s].kind /\ n.run = job[s].run
    BY <1>1, <2>2 DEF JobShape
  <2> QED
    BY <1>1, <1>2, <1>3, <2>1, <2>2
<1>9. CASE (WriteAuto(s) \/ InsertAuto(s)) /\ ~Fail(s)
  <2>1. \/ \E t : Be(s, [job[s] EXCEPT !.at = "insert", !.type = t])
        \/ \E t : \E n \in AfterWrite(job[s], t) : Be(s, n)
    BY <1>9 DEF WriteAuto, InsertAuto
  <2>2. ASSUME NEW t, NEW n, n = [job[s] EXCEPT !.at = "insert", !.type = t]
        PROVE  n.kind = job[s].kind /\ n.run = job[s].run
    BY <1>1, <2>2 DEF JobShape
  <2> QED
    BY <1>1, <1>2, <1>3, <2>1, <2>2
<1>10. CASE ReadSums(s)
  <2>1. PICK at, sums, n : n = [job[s] EXCEPT !.at = at, !.sums = sums] /\ Be(s, n)
    BY <1>10 DEF ReadSums
  <2>2. n.kind = job[s].kind /\ n.run = job[s].run
    BY <1>1, <2>1 DEF JobShape
  <2> QED
    BY <1>2, <2>1, <2>2
<1>11. CASE (AutoBegin(s) \/ RecalcDelete(s)) /\ ~Fail(s)
  <2>1. PICK j : /\ j = [job[s] EXCEPT !.due = due, !.toggles = toggles,
                                       !.todo = Lines(job[s].run)]
    OBVIOUS
  <2>2. JobOK(j) /\ j.kind = job[s].kind /\ j.run = job[s].run
    BY <1>1, <2>1 DEF JobOK, JobShape
  <2>3. Go(s, "lwop_begin") \/ \E n \in NextLine(j) : Be(s, n)
    BY <1>11, <2>1 DEF AutoBegin, RecalcDelete
  <2>4. ASSUME NEW n, n = [job[s] EXCEPT !.at = "lwop_begin"]
        PROVE  n.kind = job[s].kind /\ n.run = job[s].run
    BY <1>1, <2>4 DEF JobShape
  <2> QED
    BY <1>2, <1>3, <2>2, <2>3, <2>4 DEF Go
<1>12. CASE LwopBegin(s) /\ ~Fail(s)
  <2>1. PICK j : j = [job[s] EXCEPT !.kind = "recalc_lwop", !.due = due,
                                    !.todo = Lines(job[s].run)]
    OBVIOUS
  <2>2. JobOK(j) /\ j.kind = "recalc_lwop" /\ j.run = job[s].run
    BY <1>1, <1>12, <2>1 DEF LwopBegin, JobOK, JobShape, CreateSteps, RecalcSteps, OtherSteps
  <2>3. \E n \in NextLine(j) : Be(s, n)
    BY <1>12, <2>1 DEF LwopBegin
  <2> QED
    BY <1>3, <2>2, <2>3
<1>13. ~(\/ ReopenBegin(s) \/ ReopenDelete(s) \/ EditBegin(s) \/ EditWrite(s)
         \/ CreateBegin(s) \/ CreateSummary(s) \/ CreateInsert(s) \/ RecalcBegin(s)
         \/ SaveBegin(s) \/ SaveWrite(s) \/ FinalizeBegin(s) \/ FinalizeStale(s)
         \/ FinalizePreflight(s) \/ FinalizeRefresh(s) \/ FinalizeWrite(s))
  BY <1>5 DEF CreateSteps, RecalcSteps, ReopenBegin, ReopenDelete, EditBegin,
     EditWrite, CreateBegin, CreateSummary, CreateInsert, RecalcBegin, SaveBegin,
     SaveWrite, FinalizeBegin, FinalizeStale, FinalizePreflight, FinalizeRefresh,
     FinalizeWrite
<1> QED
  BY <1>4, <1>6, <1>7, <1>8, <1>9, <1>10, <1>11, <1>12, <1>13 DEF Job

LEMMA BalancedKept ==
    ASSUME NEW r, line'[r] = line[r], ded'[r] = ded[r], Balanced(r)
    PROVE  Balanced(r)'
<1>1. \A e : SumOf(r, e, Types)' = SumOf(r, e, Types)
  BY DEF SumOf
<1>2. Lines(r)' = Lines(r)
  BY DEF Lines
<1> QED
  BY <1>1, <1>2 DEF Balanced

\* A refresh from the sums of the table balances the run, another one is told.
LEMMA WriteBalances ==
    ASSUME LineTables, Paid, NEW r \in Runs, NEW sums, WriteNet(r, sums), UNCHANGED ded
    PROVE  Balanced(r)' \/ r \in torn'
<1>1. CASE sums = Deducted(r)
  <2>1. line'[r] = [e \in Lines(r) |->
            [line[r][e] EXCEPT !.net = line[r][e].gross - sums[e]]]
    BY DEF WriteNet, Refreshed, LineTables
  <2>2. ASSUME NEW e \in Lines(r)
        PROVE  line'[r][e].net = line'[r][e].gross - SumOf(r, e, Types)
    <3>1. e \in Employees /\ Row(line[r][e])
      BY DEF Paid, LineTables
    <3>2. sums[e] = SumOf(r, e, Types)
      BY <1>1, <3>1 DEF Deducted
    <3>3. line'[r][e] = [line[r][e] EXCEPT !.net = line[r][e].gross - sums[e]]
      BY <2>1
    <3>4. /\ line'[r][e].net = line[r][e].gross - sums[e]
          /\ line'[r][e].gross = line[r][e].gross
      BY <3>1, <3>3 DEF Row
    <3> QED
      BY <3>2, <3>4
  <2>3. Lines(r)' = Lines(r)
    BY <2>1 DEF Lines
  <2>4. \A e : SumOf(r, e, Types)' = SumOf(r, e, Types)
    BY DEF SumOf
  <2> QED
    BY <2>2, <2>3, <2>4 DEF Balanced
<1>2. CASE sums # Deducted(r)
  BY <1>2 DEF WriteNet
<1> QED
  BY <1>1, <1>2

\* A save writes the net pay of the line with its deductions.
LEMMA SaveBalances ==
    ASSUME LineTables, DedTyped, Paid, NEW s \in Sessions, SaveWrite(s), Read(job[s]),
           NEW r, r = job[s].run, Balanced(r)
    PROVE  Balanced(r)'
<1>1. PICK e, f :
         /\ r \in Runs /\ e \in Lines(r)
         /\ f \in [Types -> Deductions]
         /\ ded' = [ded EXCEPT ![r][e] = f]
         /\ line' = [line EXCEPT ![r][e].net = line[r][e].gross - TotalOf(f)]
  BY DEF SaveWrite, Read, Fits, Lines
<1>2. e \in Employees /\ Row(line[r][e])
  BY <1>1 DEF Paid, LineTables
<1>3. /\ line'[r] = [line[r] EXCEPT ![e].net = line[r][e].gross - TotalOf(f)]
      /\ Lines(r)' = Lines(r)
  BY <1>1 DEF LineTables, Lines
<1>4. ded'[r][e] = f /\ \A d : d # e => ded'[r][d] = ded[r][d]
  BY <1>1, <1>2 DEF DedTyped
<1>5. ASSUME NEW d \in Lines(r), d # e
      PROVE  line'[r][d].net = line'[r][d].gross - SumOf(r, d, Types)'
  <2>1. line'[r][d] = line[r][d]
    BY <1>1, <1>3, <1>5 DEF LineTables, Lines
  <2>2. SumOf(r, d, Types)' = SumOf(r, d, Types)
    BY <1>4, <1>5 DEF SumOf
  <2> QED
    BY <1>1, <2>1, <2>2 DEF Balanced
<1>6. line'[r][e].net = line'[r][e].gross - SumOf(r, e, Types)'
  <2>1. line'[r][e] = [line[r][e] EXCEPT !.net = line[r][e].gross - TotalOf(f)]
    BY <1>1, <1>3 DEF LineTables, Lines
  <2>2. /\ line'[r][e].gross = line[r][e].gross
        /\ line'[r][e].net = line[r][e].gross - TotalOf(f)
    BY <1>2, <2>1 DEF Row
  <2>3. SumOf(r, e, Types)' = TotalOf(f)
    BY <1>4 DEF SumOf, TotalOf
  <2> QED
    BY <2>2, <2>3
<1> QED
  BY <1>3, <1>5, <1>6 DEF Balanced

(***************************************************************************)
(* The types of the tables.                                                *)
(***************************************************************************)
LEMMA SummariesTyped == Summaries \subseteq Sheet
<1>1. \A w \in Sheets \cup {FirstSheet} : w \in Sheet
  BY PayrollAssumption
<1>2. PremiumInputs \subseteq Nat
  <2>1. \A w \in Sheets \cup {FirstSheet} : w.premium \in Nat
    BY <1>1 DEF Sheet
  <2>2. \A x \in {w.premium : w \in Sheets \cup {FirstSheet}} : x \in Nat
    BY <2>1
  <2>3. Premiums \subseteq Nat
    BY PayrollAssumption
  <2> QED
    BY <2>2, <2>3 DEF PremiumInputs
<1>3. ASSUME NEW w \in Sheet, NEW x \in Nat
      PROVE  [w EXCEPT !.premium = x] \in Sheet
  BY DEF Sheet
<1> QED
  BY <1>1, <1>2, <1>3 DEF Summaries

\* The columns that neither RunInv nor PaidInv says anything about.
Columns ==
    /\ toggles \in Toggles
    /\ period \in [Runs -> Periods \cup {None}]
    /\ \A r \in Runs : \A e \in Lines(r) : line[r][e].sheet \in Summaries

\* Only a creation gives a run its period and its lines.
LEMMA OthersKeepColumns ==
    ASSUME RunInv, LineTables, PaidInv, NEW s \in Sessions, Job(s), ~CreateInsert(s)
    PROVE  UNCHANGED period /\ \A q \in Runs : LinesKept(q)
<1>1. UNCHANGED line => \A q \in Runs : LinesKept(q)
  BY DEF LinesKept, Lines
<1>2. CASE Refresh(s) \/ FinalizeRefresh(s)
  <2>1. UNCHANGED line \/ line' = Refreshed(job[s].run, job[s].sums)
    BY <1>2 DEF Refresh, FinalizeRefresh, WriteNet
  <2>2. UNCHANGED period
    BY <1>2 DEF Refresh, FinalizeRefresh
  <2> QED
    BY <1>1, <2>1, <2>2, RefreshedKeeps
<1>3. CASE SaveWrite(s)
  <2>1. PICK r, e, x : /\ r \in Runs /\ status[r] # "none"
                       /\ line' = [line EXCEPT ![r][e].net = x]
    BY <1>3 DEF SaveWrite, PaidInv, Read, Fits
  <2>2. \A q \in Runs \ {r} : line'[q] = line[q]
    BY <2>1 DEF LineTables
  <2>3. \A q \in Runs \ {r} : LinesKept(q)
    BY <2>2 DEF LinesKept, Lines
  <2>4. [Next]_vars
    BY DEF Next
  <2>5. LinesKept(r)
    BY <2>1, <2>4, EveryStepKeepsLines
  <2> QED
    BY <1>3, <2>3, <2>5 DEF SaveWrite
<1>4. ASSUME ~Refresh(s), ~FinalizeRefresh(s), ~SaveWrite(s)
      PROVE  UNCHANGED <<line, period>>
  BY <1>4 DEF Job, books, ReopenBegin, ReopenDelete, EditBegin, EditWrite,
       ReadSums, CreateBegin, CreateSummary, AutoBegin, Defaults, DefaultInsert, GovPlan,
       LwopPlan, WriteAuto, InsertAuto, AutoVoid, RecalcBegin, RecalcDelete,
       LwopBegin, SaveBegin, FinalizeBegin, FinalizeStale, FinalizePreflight,
       FinalizeWrite
<1> QED
  BY <1>1, <1>2, <1>3, <1>4

LEMMA ColumnsInductive ==
    /\ Init => Columns
    /\ RunInv /\ LineTables /\ PaidInv /\ Columns /\ [Next]_vars => Columns'
<1>1. Init => Columns
  BY DEF Init, Columns, Lines
<1>2. ASSUME RunInv, LineTables, PaidInv, Columns, [Next]_vars
      PROVE  Columns'
  <2>1. toggles' \in Toggles
    <3>1. CASE ToggleChange
      BY <3>1 DEF ToggleChange
    <3>2. ASSUME ~ToggleChange PROVE UNCHANGED toggles
      <4>1. ASSUME NEW s \in Sessions, Job(s) PROVE UNCHANGED toggles
        <5>1. EditWrite(s) \/ UNCHANGED world \/ ReopenDelete(s)
          BY <4>1 DEF Job, ReopenBegin, EditBegin, ReadSums, CreateBegin, CreateSummary,
             CreateInsert, AutoBegin, Defaults, DefaultInsert, GovPlan,
             LwopPlan, WriteAuto, InsertAuto, Refresh, AutoVoid, RecalcBegin,
             RecalcDelete, LwopBegin, SaveBegin, SaveWrite, FinalizeBegin,
             FinalizeStale, FinalizePreflight, FinalizeRefresh, FinalizeWrite
        <5> QED
          BY <5>1 DEF world, EditWrite, ReopenDelete
      <4> QED
        BY <1>2, <3>2, <4>1 DEF Next, world, vars, ClosePeriod, HolidayChange,
           DueChange, Void
    <3> QED
      BY <1>2, <3>1, <3>2 DEF Columns
  <2>2. ASSUME UNCHANGED period, \A q \in Runs : LinesKept(q) PROVE Columns'
    <3>1. \A r \in Runs : \A e \in DOMAIN line'[r] :
             line'[r][e].sheet \in Summaries
      BY <1>2, <2>2 DEF Columns, LinesKept, Lines
    <3> QED
      BY <1>2, <2>1, <2>2, <3>1 DEF Columns, Lines
  <2>3. ASSUME UNCHANGED <<line, period>> PROVE Columns'
    BY <2>2, <2>3 DEF LinesKept, Lines
  <2>4. ASSUME NEW s \in Sessions, CreateInsert(s), ~UNCHANGED <<line, period>>
        PROVE  Columns'
    <3>1. PICK p, f : p = job[s].period /\ f = job[s].sheet
      OBVIOUS
    <3>2. p \in Periods /\ f \in [Employees -> Summaries]
      BY <1>2, <2>4, <3>1 DEF CreateInsert, PaidInv, Read
    <3>3. PICK r \in Runs : /\ period' = [period EXCEPT ![r] = p]
                            /\ line' = [line EXCEPT ![r] = NewLines(p, f)]
      BY <2>4, <3>1 DEF CreateInsert, books
    <3>4. period' \in [Runs -> Periods \cup {None}]
      BY <1>2, <3>2, <3>3 DEF Columns
    <3>5. /\ line'[r] = NewLines(p, f)
          /\ \A q \in Runs \ {r} : line'[q] = line[q]
      BY <1>2, <3>3 DEF LineTables
    <3>6. ASSUME NEW e \in DOMAIN line'[r] PROVE line'[r][e].sheet \in Summaries
      <4> DEFINE w == [f[e] EXCEPT !.premium = sheet[p][e].premium]
      <4>1. e \in Employees /\ line'[r][e] = NewLine(e, p, f)
        BY <3>5 DEF NewLines
      <4>2. w \in Summaries
        BY <1>2, <3>2, <4>1, SummariesClosed DEF PaidInv, World
      <4>3. line'[r][e].sheet = w
        BY <4>1 DEF NewLine
      <4> QED
        BY <4>2, <4>3
    <3>7. \A q \in Runs : \A e \in DOMAIN line'[q] : line'[q][e].sheet \in Summaries
      BY <1>2, <3>5, <3>6 DEF Columns, Lines
    <3> QED
      BY <2>1, <3>4, <3>7 DEF Columns, Lines
  <2>5. ASSUME NEW s \in Sessions, Job(s) PROVE Columns'
    BY <1>2, <2>2, <2>3, <2>4, <2>5, OthersKeepColumns
  <2> QED
    BY <1>2, <2>3, <2>5 DEF Next, ClosePeriod, HolidayChange, DueChange,
       ToggleChange, Void, books, vars
<1> QED
  BY <1>1, <1>2

\* Every table holds values of its type: amounts are amounts, lines are of
\* employees, periods are periods (PayrollRun!TypeOK).
THEOREM PayrollTypes == Spec => []TypeOK
<1>1. Init => LineTables
  BY DEF Init, LineTables, Lines
<1>2. RunInv /\ LineTables /\ [Next]_vars => LineTables'
  BY EveryStepKeepsLines
<1>3. ASSUME RunInv, LineTables, PaidInv, Columns, torn \subseteq Runs PROVE TypeOK
  <2>1. sheet \in [Periods -> [Employees -> Sheet]]
    BY <1>3, SummariesTyped DEF PaidInv, World
  <2>2. ASSUME NEW r \in Runs PROVE line[r] \in [Lines(r) -> Line]
    <3>1. ASSUME NEW e \in Lines(r) PROVE line[r][e] \in Line
      <4>1. PICK l : l = line[r][e]
        OBVIOUS
      <4>2. /\ l = [sheet |-> l.sheet, gross |-> l.gross, net |-> l.net]
            /\ l.sheet \in Sheet /\ l.gross \in Nat /\ l.net \in Int
        BY <1>3, <4>1, SummariesTyped DEF LineTables, Row, Columns, PaidInv, Paid
      <4> QED
        BY <4>1, <4>2 DEF Line
    <3>2. line[r] = [e \in Lines(r) |-> line[r][e]]
      BY <1>3 DEF LineTables
    <3> QED
      BY <3>1, <3>2
  <2>3. status \in [Runs -> {"none", "voided"} \cup Active]
    BY <1>3 DEF RunInv, RunTables, Statuses, Active
  <2> QED
    BY <1>3, <2>1, <2>2, <2>3 DEF TypeOK, PaidInv, World, DedTyped, Paid, Columns
<1>4. Init => torn \subseteq Runs
  BY DEF Init
<1>5. JobsOK /\ torn \subseteq Runs /\ [Next]_vars => (torn \subseteq Runs)'
  BY TornKnown
<1> QED
  BY <1>1, <1>2, <1>3, <1>4, <1>5, RunInvInductive, JobsOKInductive, PaidInvInductive,
     ColumnsInductive, PTL DEF Spec

(***************************************************************************)
(* Net pay follows the deductions.                                         *)
(***************************************************************************)
\* Lines come with the status.
LEMMA NoLinesKept ==
    /\ Init => NoLinesYet
    /\ RunInv /\ LineTables /\ PaidInv /\ NoLinesYet /\ [Next]_vars => NoLinesYet'
<1>1. Init => NoLinesYet
  BY DEF Init, NoLinesYet, Lines
<1>2. ASSUME RunInv, LineTables, PaidInv, NoLinesYet, [Next]_vars,
             NEW r \in Runs, status'[r] = "none"
      PROVE  Lines(r)' = {}
  <2>1. status[r] = "none"
    BY <1>2, EveryStepIsRunStep DEF RunStep, Inserted, Ended, RunInv, RunTables
  <2>2. Lines(r) = {}
    BY <1>2, <2>1 DEF NoLinesYet
  <2>3. CASE UNCHANGED line
    BY <2>2, <2>3 DEF Lines
  <2>4. ASSUME NEW s \in Sessions, CreateInsert(s) PROVE Lines(r)' = {}
    <3>1. \/ UNCHANGED line
          \/ \E q \in Runs : \E x : /\ status' = [status EXCEPT ![q] = "draft"]
                                    /\ line' = [line EXCEPT ![q] = x]
      BY <2>4 DEF CreateInsert, books
    <3>2. line'[r] = line[r]
      BY <1>2, <3>1 DEF RunInv, RunTables, LineTables
    <3> QED
      BY <2>2, <3>2 DEF Lines
  <2>5. ASSUME NEW s \in Sessions, Job(s), ~CreateInsert(s) PROVE Lines(r)' = {}
    BY <1>2, <2>2, <2>5, OthersKeepColumns DEF LinesKept
  <2> QED
    BY <1>2, <2>3, <2>4, <2>5 DEF Next, ClosePeriod, HolidayChange, DueChange,
       ToggleChange, Void, books, vars
<1> QED
  BY <1>1, <1>2 DEF NoLinesYet

\* A step of a handler leaves a run balanced, torn or being worked on.
LEMMA JobsBalance ==
    ASSUME RunInv, LineTables, JobsOK, PaidInv, NoLinesYet, BalancedOrTold,
           NEW s \in Sessions, Job(s)
    PROVE  BalancedOrTold'
<1> DEFINE Told(r) == Balanced(r)' \/ r \in torn' \/ AtWork(r)'
<1>1. ASSUME NEW r, NEW n, Be(s, n), n.kind # "none", n.run = r PROVE AtWork(r)'
  <2>1. job'[s] = n
    BY <1>1 DEF Be, JobsOK
  <2> QED
    BY <1>1, <2>1 DEF AtWork, Workers
<1>2. ASSUME NEW r, NEW q \in Workers(r), job[q].kind # "none", q # s
      PROVE  AtWork(r)'
  <2>1. job'[q] = job[q]
    BY <1>2, EveryJobMoves DEF JobMove, Be, JobsOK, Workers
  <2> QED
    BY <1>2, <2>1 DEF AtWork, Workers
<1>3. ASSUME NEW r \in Runs, line'[r] = line[r], ded'[r] = ded[r],
             r \in torn => r \in torn', s \notin Workers(r) \/ job[s].kind = "none"
      PROVE  Told(r)
  <2>1. CASE Balanced(r)
    BY <1>3, <2>1, BalancedKept
  <2>2. CASE r \in torn
    BY <1>3, <2>2
  <2>3. CASE AtWork(r)
    BY <1>2, <1>3, <2>3 DEF AtWork
  <2> QED
    BY <2>1, <2>2, <2>3 DEF BalancedOrTold
<1>4. ASSUME NEW r \in Runs, CreateInsert(s) PROVE Told(r)
  <2>1. job[s].kind = "none" /\ UNCHANGED <<ded, torn>>
    BY <1>4 DEF CreateInsert, books, JobsOK, JobOK, CreateSteps, RecalcSteps
  <2>2. CASE UNCHANGED line
    BY <1>3, <2>1, <2>2
  <2>3. CASE ~UNCHANGED line
    <3>1. PICK q, x : /\ line' = [line EXCEPT ![q] = x]
                      /\ Be(s, [Idle EXCEPT !.at = "auto_begin", !.kind = "create",
                                            !.run = q])
      BY <1>4, <2>3 DEF CreateInsert, books
    <3>2. CASE q = r
      <4>1. PICK n : n = [Idle EXCEPT !.at = "auto_begin", !.kind = "create",
                                      !.run = q]
        OBVIOUS
      <4>2. n.kind = "create" /\ n.run = r
        BY <3>2, <4>1 DEF Idle
      <4> QED
        BY <1>1, <3>1, <4>1, <4>2
    <3>3. CASE q # r
      <4>1. line'[r] = line[r]
        BY <3>1, <3>3 DEF LineTables
      <4> QED
        BY <1>3, <2>1, <4>1
    <3> QED
      BY <3>2, <3>3
  <2> QED
    BY <2>2, <2>3
<1>5. ASSUME NEW r \in Runs, ~CreateInsert(s), job[s].run # r PROVE Told(r)
  <2>1. CASE status[r] = "none"
    <3>1. Lines(r)' = {}
      BY <1>5, <2>1, OthersKeepColumns DEF LinesKept, NoLinesYet
    <3> QED
      BY <3>1 DEF Balanced
  <2>2. CASE status[r] # "none"
    <3>1. DedTables
      BY DEF PaidInv, DedTyped, DedTables
    <3>2. ded'[r] = ded[r] /\ line'[r] = line[r]
      BY <1>5, <2>2, <3>1, EveryJobWritesItsRun
    <3>3. s \notin Workers(r) /\ (r \in torn => r \in torn')
      BY <1>5, OtherRunsTorn DEF Workers
    <3> QED
      BY <1>3, <3>2, <3>3
  <2> QED
    BY <2>1, <2>2
<1>6. ASSUME NEW r \in Runs, job[s].run = r, job[s].kind # "none" PROVE Told(r)
  <2>1. CASE \E n : Be(s, n) /\ n.kind # "none" /\ n.run = job[s].run
    BY <1>1, <1>6, <2>1
  <2>2. CASE \/ Fail(s) /\ job[s].kind # "create"
             \/ AutoVoid(s)
    BY <1>6, <2>2 DEF Fail, AutoVoid, Tear
  <2>3. CASE Refresh(s)
    <3>1. CASE Fail(s)
      <4>1. CASE job[s].kind = "create"
        <5>1. PICK n : n = [job[s] EXCEPT !.at = "auto_void"] /\ Be(s, n)
          BY <3>1, <4>1 DEF Fail, Go
        <5>2. n.kind = "create" /\ n.run = r
          BY <1>6, <4>1, <5>1 DEF JobsOK, JobOK, JobShape
        <5> QED
          BY <1>1, <5>1, <5>2
      <4>2. CASE job[s].kind # "create"
        BY <1>6, <3>1, <4>2 DEF Fail, Tear
      <4> QED
        BY <4>1, <4>2
    <3>2. CASE ~Fail(s)
      <4>1. WriteNet(r, job[s].sums) /\ UNCHANGED ded
        BY <1>6, <2>3, <3>2 DEF Refresh
      <4> QED
        BY <4>1, WriteBalances DEF PaidInv
    <3> QED
      BY <3>1, <3>2
  <2> QED
    BY <1>6, <2>1, <2>2, <2>3, WorkGoesOn
<1>7. ASSUME NEW r \in Runs, job[s].run = r, job[s].kind = "none", SaveWrite(s)
      PROVE  Told(r)
  <2>1. UNCHANGED torn
    BY <1>7 DEF SaveWrite
  <2>2. CASE Balanced(r)
    BY <1>7, <2>2, SaveBalances DEF PaidInv
  <2>3. CASE AtWork(r)
    BY <1>2, <1>7, <2>3 DEF AtWork
  <2> QED
    BY <2>1, <2>2, <2>3 DEF BalancedOrTold
<1>8. ASSUME NEW r \in Runs, job[s].run = r, job[s].kind = "none", FinalizeRefresh(s)
      PROVE  Told(r)
  <2>1. CASE UNCHANGED <<line, torn>>
    BY <1>3, <1>8, <2>1 DEF FinalizeRefresh
  <2>2. CASE WriteNet(r, job[s].sums)
    BY <1>8, <2>2, WriteBalances DEF FinalizeRefresh, PaidInv
  <2> QED
    BY <1>8, <2>1, <2>2 DEF FinalizeRefresh
<1>9. ASSUME NEW r \in Runs, job[s].run = r, job[s].kind = "none",
             ~CreateInsert(s), ~SaveWrite(s), ~FinalizeRefresh(s)
      PROVE  Told(r)
  <2>1. job[s].at \in OtherSteps
    BY <1>9 DEF JobsOK, JobOK
  <2>2. \/ ReopenBegin(s) \/ ReopenDelete(s) \/ EditBegin(s) \/ EditWrite(s)
        \/ CreateBegin(s) \/ CreateSummary(s) \/ ReadSums(s) \/ RecalcBegin(s)
        \/ SaveBegin(s) \/ FinalizeBegin(s) \/ FinalizeStale(s)
        \/ FinalizePreflight(s) \/ FinalizeWrite(s)
    BY <1>9, <2>1 DEF Job, OtherSteps, AutoBegin, Defaults, DefaultInsert, GovPlan,
       LwopPlan, WriteAuto, InsertAuto, Refresh, AutoVoid, RecalcDelete, LwopBegin
  <2>3. UNCHANGED <<line, ded, torn>>
    BY <2>2 DEF books, ReopenBegin, ReopenDelete, EditBegin, EditWrite, CreateBegin,
       CreateSummary, ReadSums, RecalcBegin, SaveBegin, FinalizeBegin, FinalizeStale,
       FinalizePreflight, FinalizeWrite
  <2> QED
    BY <1>3, <1>9, <2>3
<1>10. \A r \in Runs : Told(r)
  BY <1>4, <1>5, <1>6, <1>7, <1>8, <1>9
<1> QED
  BY <1>10 DEF BalancedOrTold

\* Net pay is gross pay less the deductions, on every run that no handler gave
\* up on, is still going through or refreshed from older sums
\* (PayrollRun!NetMatches).
THEOREM NetFollowsDeductions == Spec => []NetMatches
<1>1. Init => LineTables
  BY DEF Init, LineTables, Lines
<1>2. RunInv /\ LineTables /\ [Next]_vars => LineTables'
  BY EveryStepKeepsLines
<1>3. Init => BalancedOrTold
  BY DEF Init, BalancedOrTold, Balanced, Lines
<1>4. RunInv /\ LineTables /\ JobsOK /\ PaidInv /\ NoLinesYet /\ BalancedOrTold
          /\ [Next]_vars => BalancedOrTold'
  <2> SUFFICES ASSUME RunInv, LineTables, JobsOK, PaidInv, NoLinesYet,
                      BalancedOrTold, [Next]_vars
               PROVE  BalancedOrTold'
    OBVIOUS
  <2>1. ASSUME UNCHANGED <<line, ded, job, torn>> PROVE BalancedOrTold'
    <3>1. \A r \in Runs : Balanced(r) => Balanced(r)'
      BY <2>1, BalancedKept
    <3>2. \A r \in Runs : AtWork(r) => AtWork(r)'
      BY <2>1 DEF AtWork, Workers
    <3> QED
      BY <2>1, <3>1, <3>2 DEF BalancedOrTold
  <2> QED
    BY <2>1, JobsBalance DEF Next, ClosePeriod, HolidayChange, DueChange,
       ToggleChange, Void, books, vars
<1>5. BalancedOrTold => NetMatches
  BY DEF BalancedOrTold, Balanced, AtWork, NetMatches
<1> QED
  BY <1>1, <1>2, <1>3, <1>4, <1>5, RunInvInductive, JobsOKInductive, PaidInvInductive,
     NoLinesKept, PTL DEF Spec

(***************************************************************************)
(* The sum of the deductions, while nobody disturbs a run at work.         *)
(***************************************************************************)
\* A sum of smaller amounts is smaller, and one of zeros is zero.
LEMMA TotalLess ==
    ASSUME NEW f, NEW g, NEW S, IsFiniteSet(S),
           \A x \in S : f[x] \in Nat /\ g[x] \in Nat /\ f[x] <= g[x]
    PROVE  Total(f, S) <= Total(g, S)
<1> DEFINE Good == {s \in SUBSET S : Total(f, s) <= Total(g, s)}
<1>0. \A s \in SUBSET S : /\ IsFiniteSet(s)
                          /\ Total(f, s) \in Nat /\ Total(g, s) \in Nat
  BY FS_Subset, TotalNat
<1>1. {} \in Good
  <2>1. Total(f, {}) = 0 /\ Total(g, {}) = 0
    BY TotalAny, FS_EmptySet
  <2> QED
    BY <2>1
<1>2. ASSUME NEW s \in SUBSET S, s # {}, \A x \in s : s \ {x} \in Good
      PROVE  s \in Good
  <2>1. PICK x \in s : TRUE
    BY <1>2
  <2>2. /\ Total(f, s) = f[x] + Total(f, s \ {x})
        /\ Total(g, s) = g[x] + Total(g, s \ {x})
    <3>1. IsFiniteSet(s) /\ \A y \in s : f[y] \in Nat /\ g[y] \in Nat
      BY <1>0
    <3>2. Total(f, s) = f[x] + Total(f, s \ {x})
      BY <3>1, TotalOne
    <3>3. Total(g, s) = g[x] + Total(g, s \ {x})
      BY <3>1, TotalOne
    <3> QED
      BY <3>2, <3>3
  <2>3. Total(f, s \ {x}) <= Total(g, s \ {x})
    BY <1>2
  <2>4. /\ Total(f, s \ {x}) \in Nat /\ Total(g, s \ {x}) \in Nat
        /\ f[x] \in Nat /\ g[x] \in Nat /\ f[x] <= g[x]
    BY <1>0
  <2>5. Total(f, s) <= Total(g, s)
    BY <2>2, <2>3, <2>4
  <2> QED
    BY <2>5
<1> HIDE DEF Good
<1>3. SUBSET S \subseteq Good
  BY <1>1, <1>2, SubsetInduction
<1> QED
  BY <1>3 DEF Good

LEMMA TotalZero ==
    ASSUME NEW f, NEW S, IsFiniteSet(S), \A x \in S : f[x] = 0
    PROVE  Total(f, S) = 0
<1> DEFINE Good == {s \in SUBSET S : Total(f, s) = 0}
<1>1. {} \in Good
  <2>1. Total(f, {}) = 0
    BY TotalAny, FS_EmptySet
  <2> QED
    BY <2>1
<1>2. ASSUME NEW s \in SUBSET S, s # {}, \A x \in s : s \ {x} \in Good
      PROVE  s \in Good
  <2>1. Any(s) \in s /\ IsFiniteSet(s)
    BY <1>2, AnyElement, FS_Subset
  <2>2. Total(f, s) = f[Any(s)] + Total(f, s \ {Any(s)})
    BY <1>2, <2>1, TotalAny
  <2>3. Total(f, s) = 0
    BY <1>2, <2>1, <2>2
  <2> QED
    BY <2>3
<1> HIDE DEF Good
<1>3. SUBSET S \subseteq Good
  BY <1>1, <1>2, SubsetInduction
<1> QED
  BY <1>3 DEF Good

\* What the replacement of one row makes of the sum of a line.
LEMMA RowReplaced ==
    ASSUME NEW f \in [Types -> Deductions], NEW g \in [Types -> Deductions],
           NEW t \in Types, \A u \in Types \ {t} : g[u] = f[u]
    PROVE  /\ Total(AmountOf(f), Types) = f[t].amount + Total(AmountOf(f), Types \ {t})
           /\ Total(AmountOf(g), Types) = g[t].amount + Total(AmountOf(f), Types \ {t})
<1>1. IsFiniteSet(Types) /\ IsFiniteSet(Types \ {t})
  BY PayrollAssumption, FS_Subset
<1>2. \A u \in Types : /\ AmountOf(f)[u] = f[u].amount /\ AmountOf(f)[u] \in Nat
                       /\ AmountOf(g)[u] = g[u].amount /\ AmountOf(g)[u] \in Nat
  BY DEF AmountOf, Deductions
<1>3. /\ Total(AmountOf(f), Types) = AmountOf(f)[t] + Total(AmountOf(f), Types \ {t})
      /\ Total(AmountOf(g), Types) = AmountOf(g)[t] + Total(AmountOf(g), Types \ {t})
  BY <1>1, <1>2, TotalOne
<1>4. Total(AmountOf(g), Types \ {t}) = Total(AmountOf(f), Types \ {t})
  <2>1. \A u \in Types \ {t} : AmountOf(g)[u] = AmountOf(f)[u]
    BY <1>2
  <2> QED
    BY <1>1, <2>1, TotalSame
<1> QED
  BY <1>2, <1>3, <1>4

\* The sums, and the automatic rows, of a table dd of deductions.
SumIn(dd, r, e, types) == Total(AmountOf(dd[r][e]), types)
AutoIn(dd, r, e) == {t \in Types : dd[r][e][t].amount > 0 /\ dd[r][e][t].auto}
NoGov(dd, r, e) == \A t \in Gov : t \notin AutoIn(dd, r, e)

\* What job j plans for its line, over the lines ln and the deductions dd,
\* fits the gross pay with everything else that is there, and replaces at most
\* the LWOP deduction.
PlanFits(j, ln, dd) ==
    /\ \/ j.plan = {Lwop}
       \/ /\ j.kind # "recalc_lwop"
          /\ j.plan \in SUBSET Gov
          /\ j.plan \cap AutoIn(dd, j.run, j.line) = {}
    /\ SumIn(dd, j.run, j.line, Types \ (j.plan \cap AutoIn(dd, j.run, j.line)))
         + Total(j.due[j.line], j.plan) <= ln[j.run][j.line].gross

Bounded(j, st, ln, dd) ==
    /\ j.kind # "none" => st[j.run] # "none"
    /\ j.at = "auto_begin" => \A e \in Employees : NoGov(dd, j.run, e)
    /\ j.at \in LineSteps =>
          /\ j.line \in DOMAIN ln[j.run]
          /\ j.todo \in SUBSET (DOMAIN ln[j.run] \ {j.line})
          /\ j.kind # "recalc_lwop" => \A e \in j.todo : NoGov(dd, j.run, e)
    /\ j.at \in {"defaults", "default", "gov"} =>
          j.kind # "recalc_lwop" /\ NoGov(dd, j.run, j.line)
    /\ j.at = "default" =>
          SumIn(dd, j.run, j.line, Types) + Total(Default, j.plan)
            <= ln[j.run][j.line].gross
    /\ j.at \in {"write", "insert"} => PlanFits(j, ln, dd)

\* A run that is not inserted yet has no deductions.
Untouched(st, dd) ==
    \A r \in Runs : st[r] = "none" =>
        \A e \in Employees, t \in Types : dd[r][e][t].amount = 0

Within(ln, dd) ==
    \A r \in Runs : \A e \in DOMAIN ln[r] :
        SumIn(dd, r, e, Types) <= ln[r][e].gross

SumsInv ==
    /\ Untouched(status, ded)
    /\ Within(line, ded)
    /\ \A s \in Sessions : Bounded(job[s], status, line, ded)

\* A job that is not at a line is bounded when its run is there.
LEMMA QuietBounded ==
    ASSUME NEW st, NEW ln, NEW dd, NEW n,
           n.at \notin LineSteps, n.at # "auto_begin",
           n.kind = "none" \/ st[n.run] # "none"
    PROVE  Bounded(n, st, ln, dd)
  BY DEF Bounded, LineSteps

LEMMA NextLineBounded ==
    ASSUME NEW st, NEW ln, NEW dd, NEW j, JobOK(j), j.kind # "none",
           st[j.run] # "none", j.todo \in SUBSET DOMAIN ln[j.run],
           j.kind # "recalc_lwop" => \A e \in j.todo : NoGov(dd, j.run, e),
           NEW n \in NextLine(j)
    PROVE  Bounded(n, st, ln, dd)
<1>1. CASE j.todo = {}
  <2>1. n.at \in {"sums", "lwop_begin"} /\ n.run = j.run
    BY <1>1 DEF NextLine, JobOK, JobShape
  <2> QED
    BY <2>1, QuietBounded DEF LineSteps
<1>2. CASE j.todo # {}
  <2>1. PICK e \in j.todo :
           n = [j EXCEPT !.line = e, !.todo = @ \ {e}, !.plan = {},
                         !.type = None,
                         !.at = CASE j.kind = "create" -> "defaults"
                                  [] j.kind = "recalc_gov" -> "gov"
                                  [] j.kind = "recalc_lwop" -> "lwop"]
    BY <1>2 DEF NextLine
  <2>2. j.kind \in {"create", "recalc_gov", "recalc_lwop"}
    BY DEF JobOK
  <2>3. /\ n.at = CASE j.kind = "create" -> "defaults"
                    [] j.kind = "recalc_gov" -> "gov"
                    [] j.kind = "recalc_lwop" -> "lwop"
        /\ n.kind = j.kind /\ n.run = j.run
        /\ n.line = e /\ n.todo = j.todo \ {e}
    BY <2>1 DEF JobOK, JobShape
  <2>4. n.at \in {"defaults", "gov", "lwop"} /\ (n.at = "lwop" <=> n.kind = "recalc_lwop")
    BY <2>2, <2>3
  <2> QED
    BY <2>3, <2>4 DEF Bounded
<1> QED
  BY <1>1, <1>2

LEMMA AfterGovBounded ==
    ASSUME NEW st, NEW ln, NEW dd, NEW j, JobOK(j), j.kind \in {"create", "recalc_gov"},
           st[j.run] # "none", j.line \in DOMAIN ln[j.run],
           j.todo \in SUBSET (DOMAIN ln[j.run] \ {j.line}),
           \A e \in j.todo : NoGov(dd, j.run, e),
           NEW n \in AfterGov(j)
    PROVE  Bounded(n, st, ln, dd)
<1>1. CASE j.kind = "create"
  <2>1. n = [j EXCEPT !.at = "lwop", !.plan = {}, !.type = None]
    BY <1>1 DEF AfterGov
  <2>2. /\ n.at = "lwop" /\ n.kind = j.kind /\ n.run = j.run
        /\ n.line = j.line /\ n.todo = j.todo
    BY <2>1 DEF JobOK, JobShape
  <2> QED
    BY <2>2 DEF Bounded
<1>2. CASE j.kind # "create"
  <2>1. n \in NextLine(j)
    BY <1>2 DEF AfterGov
  <2> QED
    BY <2>1, NextLineBounded
<1> QED
  BY <1>1, <1>2

\* A step keeps the bounds of a job that it leaves as it is.
LEMMA BoundedKept ==
    ASSUME RunInv, LineTables, [Next]_vars, NEW n, NEW dd,
           n.kind # "none" => n.run \in Runs, JobOK(n),
           Bounded(n, status, line, dd)
    PROVE  Bounded(n, status', line', dd)
<1>1. CASE n.kind = "none"
  <2>1. n.at \notin LineSteps /\ n.at # "auto_begin"
    BY <1>1 DEF JobOK, OtherSteps, LineSteps
  <2> QED
    BY <1>1, <2>1, QuietBounded
<1>2. CASE n.kind # "none"
  <2>1. status[n.run] # "none" /\ n.run \in Runs
    BY <1>2 DEF Bounded
  <2>2. status'[n.run] # "none"
    BY <2>1, EveryStepIsRunStep DEF RunStep, Inserted, Ended, RunInv, RunTables
  <2>3. LinesKept(n.run)
    BY <2>1, EveryStepKeepsLines
  <2>4. /\ DOMAIN line'[n.run] = DOMAIN line[n.run]
        /\ \A e \in DOMAIN line[n.run] : line'[n.run][e].gross = line[n.run][e].gross
    BY <2>3 DEF LinesKept, Lines
  <2> QED
    BY <2>2, <2>4 DEF Bounded, PlanFits, LineSteps
<1> QED
  BY <1>1, <1>2

\* What a step of a session does to the deductions and to its own job: the
\* lines stay within their gross pay, and runs that are not there untouched.
DedMove ==
    /\ \A q \in Runs : status[q] = "none" => ded'[q] = ded[q]
    /\ Within(line, ded')
BoundedMove(s) == \E n : Be(s, n) /\ Bounded(n, status, line, ded')

LEMMA DedSame ==
    ASSUME SumsInv, ded' = ded
    PROVE  DedMove
  BY DEF DedMove, SumsInv

\* A step that writes the deductions of one line.
LEMMA OneLine ==
    ASSUME DedTyped, DedTyped', Paid, Within(line, ded), NEW r \in Runs, NEW e,
           status[r] # "none",
           \A q \in Runs, d \in Employees, u \in Types :
              ~(q = r /\ d = e) => ded'[q][d][u] = ded[q][d][u],
           SumIn(ded', r, e, Types) <= line[r][e].gross
    PROVE  /\ DedMove
           /\ \A q \in Runs, d \in Employees :
                 ~(q = r /\ d = e) => ded'[q][d] = ded[q][d]
<1>1. ASSUME NEW q \in Runs, NEW d \in Employees, ~(q = r /\ d = e)
      PROVE  ded'[q][d] = ded[q][d]
  <2>1. /\ ded'[q][d] \in [Types -> Deductions]
        /\ ded[q][d] \in [Types -> Deductions]
    BY DEF DedTyped
  <2>2. \A u \in Types : ded'[q][d][u] = ded[q][d][u]
    BY <1>1
  <2> QED
    BY <2>1, <2>2
<1>2. \A q \in Runs \ {r} : ded'[q] = ded[q]
  <2> SUFFICES ASSUME NEW q \in Runs \ {r} PROVE ded'[q] = ded[q]
    OBVIOUS
  <2>1. /\ ded'[q] \in [Employees -> [Types -> Deductions]]
        /\ ded[q] \in [Employees -> [Types -> Deductions]]
    BY DEF DedTyped
  <2>2. \A d \in Employees : ded'[q][d] = ded[q][d]
    BY <1>1
  <2> QED
    BY <2>1, <2>2
<1>3. ASSUME NEW q \in Runs, NEW d \in DOMAIN line[q]
      PROVE  SumIn(ded', q, d, Types) <= line[q][d].gross
  <2>1. CASE q = r /\ d = e
    BY <2>1
  <2>2. CASE ~(q = r /\ d = e)
    <3>1. d \in Employees
      BY DEF Paid, Lines
    <3>2. ded'[q][d] = ded[q][d]
      BY <1>1, <2>2, <3>1
    <3> QED
      BY <3>2 DEF SumIn, Within
  <2> QED
    BY <2>1, <2>2
<1> QED
  BY <1>1, <1>2, <1>3 DEF DedMove, Within

\* A new row adds its amount to the sum, and is the only row that changes.
LEMMA NewRow ==
    ASSUME DedTyped, NEW r \in Runs, NEW e \in Employees, NEW t \in Types,
           NEW a \in Nat, NEW b \in BOOLEAN, Put(r, e, t, a, b),
           ded[r][e][t].amount = 0
    PROVE  /\ DedTyped'
           /\ SumIn(ded', r, e, Types) = SumIn(ded, r, e, Types) + a
           /\ SumIn(ded, r, e, Types) \in Nat
           /\ \A q \in Runs, d \in Employees, u \in Types :
                 ~(q = r /\ d = e /\ u = t) => ded'[q][d][u] = ded[q][d][u]
<1>1. /\ DedTyped'
      /\ \A q \in Runs, d \in Employees, u \in Types :
            ded'[q][d][u] = IF q = r /\ d = e /\ u = t
                            THEN [amount |-> a, auto |-> b] ELSE ded[q][d][u]
  BY PutRow
<1>2. /\ ded[r][e] \in [Types -> Deductions]
      /\ ded'[r][e] \in [Types -> Deductions]
  BY <1>1 DEF DedTyped
<1>3. ded'[r][e][t].amount = a
  BY <1>1
<1>4. \A u \in Types \ {t} : ded'[r][e][u] = ded[r][e][u]
  BY <1>1
<1>5. /\ SumIn(ded, r, e, Types) = 0 + Total(AmountOf(ded[r][e]), Types \ {t})
      /\ SumIn(ded', r, e, Types) = a + Total(AmountOf(ded[r][e]), Types \ {t})
  BY <1>2, <1>3, <1>4, RowReplaced DEF SumIn
<1>6. Total(AmountOf(ded[r][e]), Types \ {t}) \in Nat
  BY <1>2, RowsTotal
<1> QED
  BY <1>1, <1>5, <1>6

\* Rows that are deleted only make the sums smaller.
LEMMA Smaller ==
    ASSUME DedTyped, DedTyped', NEW r \in Runs, NEW e \in Employees,
           \A u \in Types : ded'[r][e][u] \in {NoRow, ded[r][e][u]}
    PROVE  SumIn(ded', r, e, Types) <= SumIn(ded, r, e, Types)
<1>1. \A u \in Types : /\ AmountOf(ded'[r][e])[u] \in Nat
                       /\ AmountOf(ded[r][e])[u] \in Nat
                       /\ AmountOf(ded'[r][e])[u] <= AmountOf(ded[r][e])[u]
  BY DEF AmountOf, DedTyped, Deductions, NoRow
<1> QED
  BY <1>1, PayrollAssumption, TotalLess DEF SumIn

\* The default deductions of a line.
LEMMA DefaultsBounded ==
    ASSUME JobsOK, PaidInv, SumsInv, NEW s \in Sessions,
           Defaults(s) \/ DefaultInsert(s)
    PROVE  DedMove /\ BoundedMove(s)
<1> DEFINE j == job[s]
           r == j.run
           e == j.line
<1>1. /\ JobOK(j) /\ Read(j) /\ Bounded(j, status, line, ded)
      /\ j.at \in LineSteps /\ j.at \in {"defaults", "default"}
  BY DEF JobsOK, PaidInv, SumsInv, Defaults, DefaultInsert, LineSteps
<1>2. /\ j.kind = "create" /\ r \in Runs /\ status[r] # "none"
      /\ e \in DOMAIN line[r] /\ e \in Employees
      /\ j.todo \in SUBSET (DOMAIN line[r] \ {e})
      /\ NoGov(ded, r, e) /\ \A d \in j.todo : NoGov(ded, r, d)
  BY <1>1 DEF JobOK, RecalcSteps, OtherSteps, Bounded, Read
<1>3. line[r][e].gross \in Nat /\ DedTyped /\ Within(line, ded)
  BY <1>2 DEF PaidInv, Paid, Lines, SumsInv
<1>4. SumIn(ded, r, e, Types) \in Nat
  BY <1>2, <1>3, SumOfNat DEF SumOf, SumIn
<1>5. CASE Defaults(s)
  <2>1. ded' = ded
    BY <1>5 DEF Defaults, books
  <2> DEFINE planned == {t \in Manual : Default[t] > 0}
  <2>2. CASE Be(s, [j EXCEPT !.at = "gov"])
    <3>1. PICK n : n = [j EXCEPT !.at = "gov"] /\ Be(s, n)
      BY <2>2
    <3>2. /\ n.at = "gov" /\ n.kind = j.kind /\ n.run = r /\ n.line = e
          /\ n.todo = j.todo
      BY <1>1, <3>1 DEF JobOK, JobShape
    <3>3. Bounded(n, status, line, ded')
      BY <1>2, <2>1, <3>2 DEF Bounded
    <3> QED
      BY <2>1, <3>1, <3>3, DedSame DEF BoundedMove
  <2>3. CASE ~Be(s, [j EXCEPT !.at = "gov"])
    <3>1. /\ \A t \in Types : ded[r][e][t].amount = 0
          /\ Total(Default, planned) <= line[r][e].gross
          /\ Be(s, [j EXCEPT !.at = "default", !.plan = planned])
      BY <1>5, <2>3 DEF Defaults
    <3>2. PICK n : n = [j EXCEPT !.at = "default", !.plan = planned] /\ Be(s, n)
      BY <3>1
    <3>3. /\ n.at = "default" /\ n.kind = j.kind /\ n.run = r /\ n.line = e
          /\ n.todo = j.todo /\ n.plan = planned
      BY <1>1, <3>2 DEF JobOK, JobShape
    <3>4. SumIn(ded, r, e, Types) = 0
      <4>1. \A t \in Types : AmountOf(ded[r][e])[t] = 0
        BY <3>1 DEF AmountOf
      <4> QED
        BY <4>1, PayrollAssumption, TotalZero DEF SumIn
    <3>5. Total(Default, planned) \in Nat
      <4>1. IsFiniteSet(planned)
        BY PayrollAssumption, FS_Subset DEF Types
      <4> QED
        BY <4>1, PayrollAssumption, TotalNat
    <3> HIDE DEF planned
    <3>6. SumIn(ded, r, e, Types) + Total(Default, planned) <= line[r][e].gross
      BY <1>3, <3>1, <3>4, <3>5
    <3>7. Bounded(n, status, line, ded')
      BY <1>2, <2>1, <3>3, <3>6 DEF Bounded
    <3> QED
      BY <2>1, <3>2, <3>7, DedSame DEF BoundedMove
  <2> QED
    BY <2>2, <2>3
<1>6. CASE DefaultInsert(s)
  <2>1. CASE Fail(s) /\ ded' = ded
    <3>1. PICK n : n = [j EXCEPT !.at = "auto_void"] /\ Be(s, n)
      BY <1>2, <2>1 DEF Fail, Go
    <3>2. n.at = "auto_void" /\ n.run = r
      BY <1>1, <3>1 DEF JobOK, JobShape
    <3>3. Bounded(n, status, line, ded')
      BY <1>2, <3>2, QuietBounded DEF LineSteps
    <3> QED
      BY <2>1, <3>1, <3>3, DedSame DEF BoundedMove
  <2>2. CASE ~(Fail(s) /\ ded' = ded)
    <3>1. PICK t \in j.plan :
             /\ ded[r][e][t].amount = 0
             /\ Put(r, e, t, Default[t], FALSE)
             /\ Be(s, IF j.plan = {t} THEN [j EXCEPT !.at = "gov", !.plan = {}]
                                      ELSE [j EXCEPT !.plan = @ \ {t}])
      BY <1>6, <2>2 DEF DefaultInsert
    <3>2. j.at = "default" /\ j.plan \in SUBSET Manual
      BY <1>1, <1>6 DEF DefaultInsert, Read
    <3>3. t \in Types /\ t \notin Gov /\ Default[t] \in Nat
      BY <3>2, PayrollAssumption DEF Types, Automatic
    <3>4. /\ DedTyped'
          /\ SumIn(ded', r, e, Types) = SumIn(ded, r, e, Types) + Default[t]
          /\ \A q \in Runs, d \in Employees, u \in Types :
                ~(q = r /\ d = e /\ u = t) => ded'[q][d][u] = ded[q][d][u]
      <4>1. PICK a, b : a = Default[t] /\ b = FALSE
        OBVIOUS
      <4>2. /\ r \in Runs /\ e \in Employees /\ a \in Nat /\ b \in BOOLEAN
            /\ Put(r, e, t, a, b) /\ ded[r][e][t].amount = 0
        BY <1>2, <3>1, <3>3, <4>1
      <4> HIDE DEF j, r, e
      <4> QED
        BY <1>3, <3>3, <4>1, <4>2, NewRow
    <3>5. /\ Total(Default, j.plan) = Default[t] + Total(Default, j.plan \ {t})
          /\ Total(Default, j.plan \ {t}) \in Nat
      <4>1. IsFiniteSet(j.plan) /\ IsFiniteSet(j.plan \ {t})
        BY <3>2, PayrollAssumption, FS_Subset DEF Types
      <4>2. \A u \in j.plan : Default[u] \in Nat
        BY <3>2, PayrollAssumption
      <4> QED
        BY <4>1, <4>2, TotalOne, TotalNat
    <3>6. SumIn(ded, r, e, Types) + Total(Default, j.plan) <= line[r][e].gross
      BY <1>1, <3>2 DEF Bounded
    <3>7. /\ SumIn(ded', r, e, Types) + Total(Default, j.plan \ {t})
               <= line[r][e].gross
          /\ SumIn(ded', r, e, Types) <= line[r][e].gross
      BY <1>3, <1>4, <3>3, <3>4, <3>5, <3>6
    <3>8. DedMove /\ \A q \in Runs, d \in Employees :
                        ~(q = r /\ d = e) => ded'[q][d] = ded[q][d]
      BY <1>2, <1>3, <3>4, <3>7, OneLine DEF PaidInv
    <3>9. \A d \in Employees : NoGov(ded, r, d) => NoGov(ded', r, d)
      <4> HIDE DEF j, r, e
      <4> QED
        BY <1>2, <3>3, <3>4 DEF NoGov, AutoIn, Types, Automatic
    <3>10. NoGov(ded', r, e) /\ \A d \in j.todo : NoGov(ded', r, d)
      BY <1>1, <1>2, <3>9 DEF Read
    <3>11. PICK n : /\ Be(s, n)
                    /\ \/ n = [j EXCEPT !.at = "gov", !.plan = {}]
                       \/ n = [j EXCEPT !.plan = @ \ {t}]
      BY <3>1
    <3>12. /\ n.kind = j.kind /\ n.run = r /\ n.line = e /\ n.todo = j.todo
           /\ \/ n.at = "gov"
              \/ n.at = "default" /\ n.plan = j.plan \ {t}
      BY <1>1, <3>2, <3>11 DEF JobOK, JobShape
    <3>13. Bounded(n, status, line, ded')
      BY <1>2, <3>7, <3>10, <3>12 DEF Bounded
    <3> QED
      BY <3>8, <3>11, <3>13 DEF BoundedMove
  <2> QED
    BY <2>1, <2>2
<1> QED
  BY <1>5, <1>6

\* What holds of a job that is at a line.
AtLine(j) ==
    /\ JobOK(j) /\ Read(j) /\ Bounded(j, status, line, ded)
    /\ j.kind # "none" /\ j.run \in Runs /\ status[j.run] # "none"
    /\ j.line \in DOMAIN line[j.run] /\ j.line \in Employees
    /\ line[j.run][j.line].gross \in Nat
    /\ j.todo \in SUBSET (DOMAIN line[j.run] \ {j.line})
    /\ j.todo \in SUBSET Employees
    /\ j.kind # "recalc_lwop" => \A d \in j.todo : NoGov(ded, j.run, d)

LEMMA JobAtLine ==
    ASSUME JobsOK, PaidInv, SumsInv, NEW s \in Sessions, job[s].at \in LineSteps
    PROVE  /\ AtLine(job[s]) /\ DedTyped /\ Paid /\ Within(line, ded)
           /\ SumIn(ded, job[s].run, job[s].line, Types) \in Nat
<1>1. /\ JobOK(job[s]) /\ Read(job[s]) /\ Bounded(job[s], status, line, ded)
  BY DEF JobsOK, PaidInv, SumsInv
<1>2. job[s].kind # "none" /\ job[s].run \in Runs
  BY <1>1 DEF JobOK, OtherSteps, LineSteps
<1>3. /\ status[job[s].run] # "none"
      /\ job[s].line \in DOMAIN line[job[s].run]
      /\ job[s].todo \in SUBSET (DOMAIN line[job[s].run] \ {job[s].line})
      /\ job[s].kind # "recalc_lwop" =>
            \A d \in job[s].todo : NoGov(ded, job[s].run, d)
  BY <1>1, <1>2 DEF Bounded
<1>4. job[s].line \in Employees /\ job[s].todo \in SUBSET Employees
  BY <1>1 DEF Read
<1>5. /\ DedTyped /\ Paid /\ Within(line, ded)
      /\ line[job[s].run][job[s].line].gross \in Nat
  BY <1>2, <1>3 DEF PaidInv, Paid, Lines, SumsInv
<1>6. SumIn(ded, job[s].run, job[s].line, Types) \in Nat
  BY <1>2, <1>4, <1>5, SumOfNat DEF SumOf, SumIn
<1> QED
  BY <1>1, <1>2, <1>3, <1>4, <1>5, <1>6 DEF AtLine

LEMMA AfterWriteBounded ==
    ASSUME NEW st, NEW ln, NEW dd, NEW j, JobOK(j), j.kind # "none",
           st[j.run] # "none", j.line \in DOMAIN ln[j.run],
           j.todo \in SUBSET (DOMAIN ln[j.run] \ {j.line}),
           j.kind # "recalc_lwop" => \A e \in j.todo : NoGov(dd, j.run, e),
           NEW t \in j.plan,
           j.plan = {Lwop} \/ (j.kind # "recalc_lwop" /\ j.plan \in SUBSET Gov),
           j.plan # {t} =>
              /\ (j.plan \ {t}) \cap AutoIn(dd, j.run, j.line) = {}
              /\ SumIn(dd, j.run, j.line, Types) + Total(j.due[j.line], j.plan \ {t})
                   <= ln[j.run][j.line].gross,
           NEW n \in AfterWrite(j, t)
    PROVE  Bounded(n, st, ln, dd)
<1>1. CASE j.plan = {t} /\ t \in Gov
  <2>1. j.kind \in {"create", "recalc_gov"}
    BY <1>1, PayrollAssumption DEF JobOK
  <2>2. n \in AfterGov(j)
    BY <1>1 DEF AfterWrite
  <2>3. \A e \in j.todo : NoGov(dd, j.run, e)
    BY <2>1
  <2> QED
    BY <2>1, <2>2, <2>3, AfterGovBounded
<1>2. CASE j.plan = {t} /\ t \notin Gov
  <2>1. n \in NextLine(j)
    BY <1>2 DEF AfterWrite
  <2>2. j.todo \in SUBSET DOMAIN ln[j.run]
    OBVIOUS
  <2> QED
    BY <2>1, <2>2, NextLineBounded
<1>3. CASE j.plan # {t}
  <2>1. n = [j EXCEPT !.at = "write", !.plan = @ \ {t}, !.type = None]
    BY <1>3 DEF AfterWrite
  <2>2. /\ n.at = "write" /\ n.kind = j.kind /\ n.run = j.run /\ n.line = j.line
        /\ n.todo = j.todo /\ n.due = j.due /\ n.plan = j.plan \ {t}
    BY <2>1 DEF JobOK, JobShape
  <2>3. j.kind # "recalc_lwop" /\ j.plan \in SUBSET Gov
    BY <1>3
  <2>4. n.plan \cap AutoIn(dd, n.run, n.line) = {}
    BY <1>3, <2>2
  <2>5. Types \ (n.plan \cap AutoIn(dd, n.run, n.line)) = Types
    BY <2>4
  <2>6. SumIn(dd, n.run, n.line, Types \ (n.plan \cap AutoIn(dd, n.run, n.line)))
          + Total(n.due[n.line], n.plan) <= ln[n.run][n.line].gross
    BY <1>3, <2>2, <2>5
  <2>7. PlanFits(n, ln, dd)
    BY <2>2, <2>3, <2>4, <2>6 DEF PlanFits
  <2> QED
    BY <2>2, <2>7 DEF Bounded
<1> QED
  BY <1>1, <1>2, <1>3

\* A failing statement of a loop ends the job or voids its run.
LEMMA FailBounded ==
    ASSUME NEW s, AtLine(job[s]), Fail(s), ded' = ded
    PROVE  BoundedMove(s)
<1>1. PICK n : Be(s, n) /\ (n = [job[s] EXCEPT !.at = "auto_void"] \/ n = Idle)
  BY DEF Fail, Go, Return
<1>2. n.at \in {"auto_void", "idle"} /\ (n.kind = "none" \/ n.run = job[s].run)
  BY <1>1 DEF AtLine, JobOK, JobShape, Idle
<1>3. Bounded(n, status, line, ded')
  BY <1>2, QuietBounded DEF AtLine, LineSteps
<1> QED
  BY <1>1, <1>3 DEF BoundedMove

LEMMA TotalSingle ==
    ASSUME NEW f, NEW x, f[x] \in Nat
    PROVE  Total(f, {x}) = f[x]
<1>1. IsFiniteSet({x}) /\ {x} \ {x} = {}
  BY FS_Singleton
<1>2. Total(f, {x}) = f[x] + Total(f, {})
  BY <1>1, TotalOne
<1>3. Total(f, {}) = 0
  BY TotalZero, FS_EmptySet
<1> QED
  BY <1>2, <1>3

\* The automatic deductions that a line's plan writes.
LEMMA WritesBounded ==
    ASSUME JobsOK, PaidInv, SumsInv, NEW s \in Sessions,
           WriteAuto(s) \/ InsertAuto(s)
    PROVE  DedMove /\ BoundedMove(s)
<1> DEFINE j == job[s]
           r == j.run
           e == j.line
           d == j.due[e]
<1>1. /\ AtLine(j) /\ DedTyped /\ Paid /\ Within(line, ded)
      /\ SumIn(ded, r, e, Types) \in Nat
      /\ j.at \in {"write", "insert"} /\ j.at \in LineSteps
  BY JobAtLine DEF WriteAuto, InsertAuto, LineSteps
<1>2. /\ r \in Runs /\ status[r] # "none" /\ e \in Employees
      /\ e \in DOMAIN line[r] /\ line[r][e].gross \in Nat
      /\ j.plan \in SUBSET Types /\ PlanFits(j, line, ded)
  BY <1>1 DEF AtLine, Read, Types, Bounded
<1>3. /\ j.plan = {Lwop} \/ (j.kind # "recalc_lwop" /\ j.plan \in SUBSET Gov)
      /\ \A t \in j.plan : d[t] \in Nat
      /\ IsFiniteSet(j.plan)
  <2>1. IsFiniteSet(j.plan)
    BY <1>2, PayrollAssumption, FS_Subset
  <2>2. \A t \in j.plan : d[t] \in Nat
    BY <1>1, DueAmounts DEF AtLine
  <2> QED
    BY <1>2, <2>1, <2>2 DEF PlanFits
<1>4. ASSUME NEW t \in j.plan, Put(r, e, t, d[t], TRUE), DedTyped',
             SumIn(ded', r, e, Types) + Total(d, j.plan \ {t}) <= line[r][e].gross,
             j.plan # {t} => j.plan \cap AutoIn(ded, r, e) = {},
             NEW n \in AfterWrite(j, t), Be(s, n)
      PROVE  DedMove /\ BoundedMove(s)
  <2>1. \A q \in Runs, c \in Employees, u \in Types :
           ~(q = r /\ c = e /\ u = t) => ded'[q][c][u] = ded[q][c][u]
    <3>1. PICK a, b : a = d[t] /\ b = TRUE
      OBVIOUS
    <3>2. a \in Nat /\ b \in BOOLEAN /\ Put(r, e, t, a, b)
      BY <1>3, <1>4, <3>1
    <3> HIDE DEF j, r, e, d
    <3>3. \A q \in Runs, c \in Employees, u \in Types :
             ded'[q][c][u] = IF q = r /\ c = e /\ u = t
                             THEN [amount |-> a, auto |-> b] ELSE ded[q][c][u]
      BY <1>1, <3>2, PutRow
    <3> QED
      BY <3>3
  <2>2. SumIn(ded', r, e, Types) \in Nat /\ Total(d, j.plan \ {t}) \in Nat
    <3>1. ded'[r][e] \in [Types -> Deductions]
      BY <1>2, <1>4 DEF DedTyped
    <3>2. IsFiniteSet(j.plan \ {t})
      BY <1>3, FS_Subset
    <3> QED
      BY <1>3, <3>1, <3>2, RowsTotal, TotalNat DEF SumIn
  <2>3. SumIn(ded', r, e, Types) <= line[r][e].gross
    <3> HIDE DEF j, r, e, d
    <3> QED
      BY <1>2, <1>4, <2>2
  <2>4. DedMove
    <3> HIDE DEF j, r, e, d
    <3> QED
      BY <1>1, <1>2, <1>4, <2>1, <2>3, OneLine
  <2>5. \A c \in j.todo : NoGov(ded, r, c) => NoGov(ded', r, c)
    <3>1. \A c \in j.todo : c \in Employees /\ c # e
      BY <1>1 DEF AtLine
    <3> QED
      <4> HIDE DEF j, r, e, d
      <4> QED
        BY <1>2, <2>1, <3>1 DEF NoGov, AutoIn
  <2>6. j.plan # {t} => (j.plan \ {t}) \cap AutoIn(ded', r, e) = {}
    <3> HIDE DEF j, r, e, d
    <3> QED
      BY <1>2, <1>4, <2>1 DEF AutoIn
  <2>7. Bounded(n, status, line, ded')
    <3>1. /\ JobOK(j) /\ j.kind # "none" /\ status[r] # "none"
          /\ j.todo \in SUBSET (DOMAIN line[r] \ {e})
          /\ j.kind # "recalc_lwop" => \A c \in j.todo : NoGov(ded', r, c)
      BY <1>1, <2>5 DEF AtLine
    <3> HIDE DEF j
    <3> QED
      BY <1>2, <1>3, <1>4, <2>6, <3>1, AfterWriteBounded
  <2> QED
    BY <1>4, <2>4, <2>7 DEF BoundedMove
<1>5. CASE Fail(s) /\ ded' = ded
  BY <1>1, <1>5, FailBounded, DedSame
<1>6. CASE WriteAuto(s) /\ ~(Fail(s) /\ ded' = ded)
  <2>1. PICK t \in j.plan :
           \/ /\ IsAuto(r, e, t)
              /\ Put(r, e, t, d[t], TRUE)
              /\ \E n \in AfterWrite(j, t) : Be(s, n)
           \/ /\ Be(s, [j EXCEPT !.at = "insert", !.type = t])
              /\ ded' = ded
    BY <1>6 DEF WriteAuto
  <2>2. CASE IsAuto(r, e, t) /\ Put(r, e, t, d[t], TRUE)
             /\ \E n \in AfterWrite(j, t) : Be(s, n)
    <3>1. t \in Types /\ t \in AutoIn(ded, r, e)
      BY <1>2, <2>2 DEF IsAuto, AutoIn
    <3>2. j.plan = {Lwop} /\ t = Lwop
      BY <1>2, <3>1 DEF PlanFits
    <3>3. j.plan \cap AutoIn(ded, r, e) = {t} /\ j.plan = {t} /\ j.plan \ {t} = {}
      BY <3>1, <3>2
    <3>4. SumIn(ded, r, e, Types \ {t}) + Total(d, {t}) <= line[r][e].gross
      BY <1>2, <3>3 DEF PlanFits
    <3>5. Total(d, {t}) = d[t] /\ Total(d, j.plan \ {t}) = 0
      BY <1>3, <3>3, TotalSingle, TotalZero, FS_EmptySet
    <3>6. DedTyped' /\ SumIn(ded', r, e, Types) = d[t] + SumIn(ded, r, e, Types \ {t})
      <4>1. PICK a, b : a = d[t] /\ b = TRUE
        OBVIOUS
      <4>2. a \in Nat /\ b \in BOOLEAN /\ Put(r, e, t, a, b)
        BY <1>3, <2>2, <4>1
      <4>3. /\ DedTyped'
            /\ \A u \in Types : ded'[r][e][u] = IF u = t THEN [amount |-> a, auto |-> b]
                                                         ELSE ded[r][e][u]
        <5> HIDE DEF j, r, e, d
        <5> QED
          BY <1>1, <1>2, <4>2, PutRow
      <4>4. /\ ded[r][e] \in [Types -> Deductions]
            /\ ded'[r][e] \in [Types -> Deductions]
            /\ ded'[r][e][t].amount = a
        <5> HIDE DEF j, r, e, d
        <5> QED
          BY <1>1, <1>2, <3>1, <4>3 DEF DedTyped
      <4> QED
        <5> HIDE DEF j, r, e, d
        <5> QED
          BY <3>1, <4>1, <4>3, <4>4, RowReplaced DEF SumIn
    <3>7. SumIn(ded, r, e, Types \ {t}) \in Nat
      BY <1>1, <1>2, RowsTotal DEF SumIn, DedTyped
    <3>8. SumIn(ded', r, e, Types) + Total(d, j.plan \ {t}) <= line[r][e].gross
      <4> HIDE DEF j, r, e, d
      <4> QED
        BY <1>2, <1>3, <3>4, <3>5, <3>6, <3>7
    <3> QED
      BY <1>4, <2>2, <3>3, <3>6, <3>8
  <2>3. CASE Be(s, [j EXCEPT !.at = "insert", !.type = t]) /\ ded' = ded
    <3>1. PICK n : n = [j EXCEPT !.at = "insert", !.type = t] /\ Be(s, n)
      BY <2>3
    <3>2. /\ n.at = "insert" /\ n.kind = j.kind /\ n.run = r /\ n.line = e
          /\ n.todo = j.todo /\ n.due = j.due /\ n.plan = j.plan
      BY <1>1, <3>1 DEF AtLine, JobOK, JobShape
    <3>3. PlanFits(n, line, ded')
      BY <1>2, <2>3, <3>2 DEF PlanFits
    <3>4. Bounded(n, status, line, ded')
      BY <1>1, <2>3, <3>2, <3>3 DEF Bounded, AtLine
    <3> QED
      BY <2>3, <3>1, <3>4, DedSame DEF BoundedMove
  <2> QED
    BY <2>1, <2>2, <2>3
<1>7. CASE InsertAuto(s) /\ ~(Fail(s) /\ ded' = ded)
  <2> DEFINE t == j.type
  <2>1. /\ t \in j.plan /\ ded[r][e][t].amount = 0
        /\ Put(r, e, t, d[t], TRUE)
        /\ \E n \in AfterWrite(j, t) : Be(s, n)
    BY <1>1, <1>7 DEF InsertAuto, AtLine, Read
  <2>2. t \in Types /\ t \notin AutoIn(ded, r, e)
    <3> HIDE DEF j, r, e, d, t
    <3> QED
      BY <1>2, <2>1 DEF AutoIn
  <2>3. j.plan \cap AutoIn(ded, r, e) = {}
    BY <1>2, <2>1, <2>2 DEF PlanFits
  <2>4. Types \ (j.plan \cap AutoIn(ded, r, e)) = Types
    BY <2>3
  <2>5. SumIn(ded, r, e, Types) + Total(d, j.plan) <= line[r][e].gross
    BY <1>2, <2>4 DEF PlanFits
  <2>6. /\ Total(d, j.plan) = d[t] + Total(d, j.plan \ {t})
        /\ Total(d, j.plan \ {t}) \in Nat
    <3>1. IsFiniteSet(j.plan \ {t})
      BY <1>3, FS_Subset
    <3> QED
      <4> HIDE DEF j, r, e, d, t
      <4> QED
        BY <1>3, <2>1, <3>1, TotalOne, TotalNat
  <2>7. DedTyped' /\ SumIn(ded', r, e, Types) = SumIn(ded, r, e, Types) + d[t]
    <3>1. PICK a, b : a = d[t] /\ b = TRUE
      OBVIOUS
    <3>2. /\ a \in Nat /\ b \in BOOLEAN /\ Put(r, e, t, a, b)
          /\ ded[r][e][t].amount = 0
      BY <1>3, <2>1, <3>1
    <3> HIDE DEF j, r, e, d, t
    <3> QED
      BY <1>1, <1>2, <2>2, <3>1, <3>2, NewRow
  <2>8. SumIn(ded', r, e, Types) + Total(d, j.plan \ {t}) <= line[r][e].gross
    <3> HIDE DEF j, r, e, d, t
    <3> QED
      BY <1>1, <1>2, <1>3, <2>1, <2>5, <2>6, <2>7
  <2> HIDE DEF t
  <2> QED
    BY <1>4, <2>1, <2>3, <2>7, <2>8
<1> QED
  BY <1>5, <1>6, <1>7

\* Deleting rows of one line keeps every line within its gross pay.
LEMMA DeletionMove ==
    ASSUME DedTyped, Paid, Within(line, ded), NEW r \in Runs, NEW e \in Employees,
           e \in DOMAIN line[r], status[r] # "none", NEW types,
           ded' = Without(r, e, types)
    PROVE  /\ DedMove
           /\ \A c \in Employees : NoGov(ded, r, c) => NoGov(ded', r, c)
<1>1. /\ DedTyped'
      /\ \A q \in Runs, d \in Employees, u \in Types :
            ded'[q][d][u] = IF q = r /\ d = e /\ u \in types
                            THEN NoRow ELSE ded[q][d][u]
  BY WithoutRows
<1>2. SumIn(ded', r, e, Types) <= SumIn(ded, r, e, Types)
  BY <1>1, Smaller
<1>3. /\ SumIn(ded, r, e, Types) <= line[r][e].gross
      /\ SumIn(ded, r, e, Types) \in Nat /\ SumIn(ded', r, e, Types) \in Nat
      /\ line[r][e].gross \in Nat
  <2>1. /\ ded[r][e] \in [Types -> Deductions]
        /\ ded'[r][e] \in [Types -> Deductions]
    BY <1>1 DEF DedTyped
  <2>2. SumIn(ded, r, e, Types) \in Nat /\ SumIn(ded', r, e, Types) \in Nat
    BY <2>1, RowsTotal DEF SumIn
  <2> QED
    BY <2>2 DEF Within, Paid, Lines
<1>4. SumIn(ded', r, e, Types) <= line[r][e].gross
  BY <1>2, <1>3
<1>5. DedMove
  BY <1>1, <1>4, OneLine
<1>6. \A c \in Employees, u \in Types :
         u \in AutoIn(ded', r, c) => u \in AutoIn(ded, r, c)
  BY <1>1 DEF AutoIn, NoRow
<1> QED
  BY <1>5, <1>6 DEF NoGov, AutoIn

\* The plan of a line's government deductions, and of its LWOP deduction.
LEMMA PlansBounded ==
    ASSUME JobsOK, PaidInv, SumsInv, NEW s \in Sessions, GovPlan(s) \/ LwopPlan(s)
    PROVE  DedMove /\ BoundedMove(s)
<1> DEFINE j == job[s]
           r == j.run
           e == j.line
<1>1. /\ AtLine(j) /\ DedTyped /\ Paid /\ Within(line, ded)
      /\ j.at \in {"gov", "lwop"}
  BY JobAtLine DEF GovPlan, LwopPlan, LineSteps
<1>2. /\ r \in Runs /\ status[r] # "none" /\ e \in Employees
      /\ e \in DOMAIN line[r]
  BY <1>1 DEF AtLine
<1>3. AutoTypes(r, e) = AutoIn(ded, r, e)
  BY DEF AutoTypes, IsAuto, AutoIn
<1>4. ASSUME NEW plan, NEW n, n = [j EXCEPT !.at = "write", !.plan = plan], Be(s, n),
             ded' = ded, PlanFits(n, line, ded)
      PROVE  DedMove /\ BoundedMove(s)
  <2>1. /\ n.at = "write" /\ n.kind = j.kind /\ n.run = r /\ n.line = e
        /\ n.todo = j.todo
    BY <1>1, <1>4 DEF AtLine, JobOK, JobShape
  <2>2. Bounded(n, status, line, ded')
    BY <1>1, <1>4, <2>1 DEF Bounded, AtLine
  <2> QED
    BY <1>4, <2>2, DedSame DEF BoundedMove
<1>5. CASE GovPlan(s)
  <2>1. /\ j.kind # "recalc_lwop" /\ NoGov(ded, r, e)
        /\ \A c \in j.todo : NoGov(ded, r, c)
        /\ j.toggles \in SUBSET Gov
    BY <1>1, <1>5 DEF GovPlan, AtLine, Bounded, Read
  <2>2. Gov \cap AutoTypes(r, e) = {} /\ (Gov \ j.toggles) \cap AutoTypes(r, e) = {}
    BY <1>3, <2>1 DEF NoGov
  <2>3. ded' = ded
    <3>1. ded' = Without(r, e, {})
      BY <1>5, <2>2 DEF GovPlan
    <3>2. [t \in Types |-> ded[r][e][t]] = ded[r][e]
      BY <1>1, <1>2 DEF DedTyped
    <3>3. ded' = [ded EXCEPT ![r][e] = [t \in Types |-> ded[r][e][t]]]
      BY <1>1, <1>2, <3>1 DEF Without, DedTyped
    <3> QED
      BY <1>1, <1>2, <3>2, <3>3 DEF DedTyped
  <2>4. CASE \E n \in AfterGov(j) : Be(s, n)
    <3>1. PICK n \in AfterGov(j) : Be(s, n)
      BY <2>4
    <3>2. j.kind \in {"create", "recalc_gov"}
      BY <1>1, <2>1 DEF AtLine, JobOK
    <3>3. Bounded(n, status, line, ded')
      BY <1>1, <2>1, <2>3, <3>1, <3>2, AfterGovBounded DEF AtLine
    <3> QED
      BY <2>3, <3>1, <3>3, DedSame DEF BoundedMove
  <2>5. CASE ~\E n \in AfterGov(j) : Be(s, n)
    <3>1. /\ GovFits(j, r, e)
          /\ Be(s, [j EXCEPT !.at = "write", !.plan = Planned(j, e)])
      BY <1>5, <2>5 DEF GovPlan
    <3>2. PICK n : /\ n = [j EXCEPT !.at = "write", !.plan = Planned(j, e)]
                   /\ Be(s, n)
      BY <3>1
    <3>3. /\ n.kind = j.kind /\ n.run = r /\ n.line = e
          /\ n.due = j.due /\ n.plan = Planned(j, e)
      BY <1>1, <3>2 DEF AtLine, JobOK, JobShape
    <3>4. Planned(j, e) \in SUBSET Gov
      BY <2>1 DEF Planned
    <3>5. n.plan \cap AutoIn(ded, r, e) = {}
      BY <1>3, <2>2, <3>3, <3>4
    <3>6. Types \ (n.plan \cap AutoIn(ded, r, e)) = Types
          /\ Types \ (Gov \cap AutoTypes(r, e)) = Types
      BY <2>2, <3>5
    <3>7. SumIn(ded, r, e, Types) + Total(j.due[e], Planned(j, e))
             <= line[r][e].gross
      BY <3>1, <3>6 DEF GovFits, SumOf, SumIn, PlannedTotal
    <3>8. PlanFits(n, line, ded)
      BY <2>1, <3>3, <3>4, <3>5, <3>6, <3>7 DEF PlanFits
    <3> QED
      BY <1>4, <2>3, <3>2, <3>8
  <2> QED
    BY <2>4, <2>5
<1>6. CASE LwopPlan(s)
  <2> DEFINE amount == LwopAmount(j, e)
  <2>1. CASE /\ ded' = ded \/ ded' = Without(r, e, {Lwop} \cap AutoTypes(r, e))
             /\ \E n \in NextLine(j) : Be(s, n)
    <3>1. PICK n \in NextLine(j) : Be(s, n)
      BY <2>1
    <3>2. DedMove /\ \A c \in Employees : NoGov(ded, r, c) => NoGov(ded', r, c)
      BY <1>1, <1>2, <2>1, DedSame, DeletionMove
    <3>3. /\ JobOK(j) /\ j.kind # "none" /\ status[r] # "none"
          /\ j.todo \in SUBSET DOMAIN line[r]
          /\ j.kind # "recalc_lwop" => \A c \in j.todo : NoGov(ded', r, c)
      BY <1>1, <3>2 DEF AtLine
    <3>4. Bounded(n, status, line, ded')
      <4> HIDE DEF j
      <4> QED
        BY <3>1, <3>3, NextLineBounded
    <3> QED
      BY <3>1, <3>2, <3>4 DEF BoundedMove
  <2>2. CASE /\ amount > 0
             /\ SumOf(r, e, Types \ ({Lwop} \cap AutoTypes(r, e))) + amount
                  <= line[r][e].gross
             /\ Be(s, [j EXCEPT !.at = "write", !.plan = {Lwop}])
             /\ ded' = ded
    <3>1. PICK n : n = [j EXCEPT !.at = "write", !.plan = {Lwop}] /\ Be(s, n)
      BY <2>2
    <3>2. /\ n.kind = j.kind /\ n.run = r /\ n.line = e
          /\ n.due = j.due /\ n.plan = {Lwop}
      BY <1>1, <3>1 DEF AtLine, JobOK, JobShape
    <3>3. j.due[e] # None /\ amount = j.due[e][Lwop]
      BY <2>2 DEF LwopAmount
    <3>4. j.due[e][Lwop] \in Nat
      <4>1. j.due[e] \in Dues
        BY <1>1, <1>2 DEF AtLine, Read, LineSteps
      <4>2. j.due[e] \in [Automatic -> Nat]
        BY <3>3, <4>1, PayrollAssumption
      <4> QED
        BY <4>2 DEF Automatic
    <3>5. Total(j.due[e], {Lwop}) = amount
      BY <3>3, <3>4, TotalSingle
    <3>6. SumIn(ded, r, e, Types \ ({Lwop} \cap AutoIn(ded, r, e)))
            + Total(j.due[e], {Lwop}) <= line[r][e].gross
      BY <1>3, <2>2, <3>5 DEF SumOf, SumIn
    <3>7. PlanFits(n, line, ded)
      BY <3>2, <3>6 DEF PlanFits
    <3> QED
      BY <1>4, <2>2, <3>1, <3>7
  <2> QED
    BY <1>6, <2>1, <2>2 DEF LwopPlan
<1> QED
  BY <1>5, <1>6

\* The steps that begin a loop over the lines of a run.
LEMMA LoopsBounded ==
    ASSUME JobsOK, PaidInv, SumsInv, NEW s \in Sessions,
           AutoBegin(s) \/ RecalcDelete(s) \/ LwopBegin(s)
    PROVE  DedMove /\ BoundedMove(s)
<1> DEFINE j == job[s]
           r == j.run
<1>1. /\ JobOK(j) /\ Bounded(j, status, line, ded)
      /\ DedTyped /\ Paid /\ Within(line, ded)
      /\ j.at \in {"auto_begin", "recalc", "lwop_begin"}
  BY DEF JobsOK, PaidInv, SumsInv, AutoBegin, RecalcDelete, LwopBegin
<1>2. /\ j.kind # "none" /\ r \in Runs /\ status[r] # "none"
      /\ Lines(r) \in SUBSET Employees
  BY <1>1 DEF JobOK, OtherSteps, Bounded, Paid
<1>3. DedMove /\ (~LwopBegin(s) => \A e \in Employees : NoGov(ded', r, e))
  <2>1. CASE AutoBegin(s)
    <3>1. ded' = ded /\ j.at = "auto_begin"
      BY <2>1 DEF AutoBegin, books
    <3> QED
      BY <1>1, <3>1, DedSame DEF Bounded
  <2>2. CASE LwopBegin(s)
    BY <2>2, DedSame DEF LwopBegin, books
  <2>3. CASE RecalcDelete(s)
    <3>1. /\ DedTyped'
          /\ \A q \in Runs, d \in Employees, u \in Types :
                ded'[q][d][u] = IF q = r /\ u \in Gov /\ IsAuto(r, d, u)
                                THEN NoRow ELSE ded[q][d][u]
      BY <1>1, <1>2, <2>3, RecalcRows
    <3>2. \A e \in Employees : NoGov(ded', r, e)
      BY <1>2, <3>1 DEF NoGov, AutoIn, IsAuto, NoRow
    <3>3. \A q \in Runs \ {r} : ded'[q] = ded[q]
      <4> SUFFICES ASSUME NEW q \in Runs \ {r} PROVE ded'[q] = ded[q]
        OBVIOUS
      <4>1. /\ ded'[q] \in [Employees -> [Types -> Deductions]]
            /\ ded[q] \in [Employees -> [Types -> Deductions]]
        BY <1>1, <3>1 DEF DedTyped
      <4>2. \A d \in Employees : ded'[q][d] = ded[q][d]
        <5> SUFFICES ASSUME NEW d \in Employees PROVE ded'[q][d] = ded[q][d]
          OBVIOUS
        <5>1. ded'[q][d] \in [Types -> Deductions] /\ ded[q][d] \in [Types -> Deductions]
          BY <4>1
        <5>2. \A u \in Types : ded'[q][d][u] = ded[q][d][u]
          BY <3>1
        <5> QED
          BY <5>1, <5>2
      <4> QED
        BY <4>1, <4>2
    <3>4. \A e \in DOMAIN line[r] : SumIn(ded', r, e, Types) <= line[r][e].gross
      <4> SUFFICES ASSUME NEW e \in DOMAIN line[r]
                   PROVE  SumIn(ded', r, e, Types) <= line[r][e].gross
        OBVIOUS
      <4>1. e \in Employees /\ line[r][e].gross \in Nat
        BY <1>1, <1>2 DEF Lines, Paid
      <4>2. SumIn(ded', r, e, Types) <= SumIn(ded, r, e, Types)
        BY <1>1, <1>2, <3>1, <4>1, Smaller
      <4>3. SumIn(ded', r, e, Types) \in Nat /\ SumIn(ded, r, e, Types) \in Nat
        <5>1. /\ ded[r][e] \in [Types -> Deductions]
              /\ ded'[r][e] \in [Types -> Deductions]
          BY <1>1, <1>2, <3>1, <4>1 DEF DedTyped
        <5> QED
          BY <5>1, RowsTotal DEF SumIn
      <4>4. SumIn(ded, r, e, Types) <= line[r][e].gross
        BY <1>1, <1>2 DEF Within
      <4> QED
        BY <4>1, <4>2, <4>3, <4>4
    <3>5. Within(line, ded')
      <4> SUFFICES ASSUME NEW q \in Runs, NEW e \in DOMAIN line[q]
                   PROVE  SumIn(ded', q, e, Types) <= line[q][e].gross
        BY DEF Within
      <4>1. q # r => SumIn(ded', q, e, Types) = SumIn(ded, q, e, Types)
        BY <3>3 DEF SumIn
      <4> QED
        BY <1>1, <3>4, <4>1 DEF Within
    <3> QED
      BY <1>2, <3>2, <3>3, <3>5 DEF DedMove
  <2> QED
    BY <2>1, <2>2, <2>3
<1>4. BoundedMove(s)
  <2>1. CASE \E n : /\ Be(s, n)
                    /\ \/ n = Idle
                       \/ \E at \in {"auto_void", "lwop_begin"} : n = [j EXCEPT !.at = at]
    <3>1. PICK n : /\ Be(s, n)
                   /\ \/ n = Idle
                      \/ \E at \in {"auto_void", "lwop_begin"} : n = [j EXCEPT !.at = at]
      BY <2>1
    <3>2. /\ n.at \in {"idle", "auto_void", "lwop_begin"}
          /\ n.kind = "none" \/ n.run = r
      BY <1>1, <3>1 DEF JobOK, JobShape, Idle
    <3>3. Bounded(n, status, line, ded')
      BY <1>2, <3>2, QuietBounded DEF LineSteps
    <3> QED
      BY <3>1, <3>3 DEF BoundedMove
  <2>2. CASE \E i : /\ \E n \in NextLine(i) : Be(s, n)
                    /\ \/ /\ ~LwopBegin(s)
                          /\ i = [j EXCEPT !.due = due, !.toggles = toggles,
                                           !.todo = Lines(r)]
                       \/ i = [j EXCEPT !.kind = "recalc_lwop", !.due = due,
                                        !.todo = Lines(r)] /\ LwopBegin(s)
    <3>1. PICK i : /\ \E n \in NextLine(i) : Be(s, n)
                   /\ \/ /\ ~LwopBegin(s)
                         /\ i = [j EXCEPT !.due = due, !.toggles = toggles,
                                          !.todo = Lines(r)]
                      \/ i = [j EXCEPT !.kind = "recalc_lwop", !.due = due,
                                       !.todo = Lines(r)] /\ LwopBegin(s)
      BY <2>2
    <3>2. PICK n \in NextLine(i) : Be(s, n)
      BY <3>1
    <3>3. LwopBegin(s) => j.at = "lwop_begin"
      BY DEF LwopBegin
    <3>4. /\ JobOK(i) /\ i.kind # "none" /\ i.run = r /\ i.todo = Lines(r)
          /\ i.kind # "recalc_lwop" => ~LwopBegin(s)
      BY <1>1, <1>2, <3>1, <3>3 DEF JobOK, JobShape, RecalcSteps, CreateSteps
    <3>5. /\ status[i.run] # "none" /\ i.todo \in SUBSET DOMAIN line[i.run]
          /\ i.kind # "recalc_lwop" => \A e \in i.todo : NoGov(ded', i.run, e)
      BY <1>2, <1>3, <3>4 DEF Lines
    <3>6. Bounded(n, status, line, ded')
      BY <3>2, <3>4, <3>5, NextLineBounded
    <3> QED
      BY <3>2, <3>6 DEF BoundedMove
  <2>3. CASE AutoBegin(s) \/ RecalcDelete(s)
    <3>1. ~LwopBegin(s)
      BY <2>3 DEF AutoBegin, RecalcDelete, LwopBegin
    <3>2. \/ \E n : Be(s, n) /\ (n = Idle \/ n = [j EXCEPT !.at = "auto_void"]
                                         \/ n = [j EXCEPT !.at = "lwop_begin"])
          \/ \E n \in NextLine([j EXCEPT !.due = due, !.toggles = toggles,
                                         !.todo = Lines(r)]) : Be(s, n)
      BY <2>3 DEF AutoBegin, RecalcDelete, Fail, Go, Return
    <3> QED
      BY <2>1, <2>2, <3>1, <3>2
  <2>4. CASE LwopBegin(s)
    <3>1. \/ \E n : Be(s, n) /\ (n = Idle \/ n = [j EXCEPT !.at = "auto_void"])
          \/ \E n \in NextLine([j EXCEPT !.kind = "recalc_lwop", !.due = due,
                                         !.todo = Lines(r)]) : Be(s, n)
      BY <2>4 DEF LwopBegin, Fail, Go, Return
    <3> QED
      BY <2>1, <2>2, <2>4, <3>1
  <2> QED
    BY <2>3, <2>4
<1> QED
  BY <1>3, <1>4

\* A save replaces the deductions of its line by amounts that fit.
LEMMA SaveBounded ==
    ASSUME PaidInv, SumsInv, NEW s \in Sessions, SaveWrite(s)
    PROVE  DedMove /\ BoundedMove(s)
<1>1. PICK r, e, f :
         /\ r \in Runs /\ status[r] # "none" /\ e \in DOMAIN line[r]
         /\ f \in [Types -> Deductions] /\ TotalOf(f) <= line[r][e].gross
         /\ ded' = [ded EXCEPT ![r][e] = f]
  BY DEF SaveWrite, PaidInv, Read, Fits
<1>2. e \in Employees
  BY <1>1 DEF PaidInv, Paid, Lines
<1>3. /\ DedTyped' /\ ded'[r][e] = f
      /\ \A q \in Runs, d \in Employees : ~(q = r /\ d = e) => ded'[q][d] = ded[q][d]
  BY <1>1, <1>2 DEF PaidInv, DedTyped
<1>4. SumIn(ded', r, e, Types) <= line[r][e].gross
  BY <1>1, <1>3 DEF SumIn, TotalOf
<1>5. DedMove
  <2>1. \A q \in Runs, d \in Employees, u \in Types :
           ~(q = r /\ d = e) => ded'[q][d][u] = ded[q][d][u]
    BY <1>3
  <2>2. DedTyped /\ Paid /\ Within(line, ded)
    BY DEF PaidInv, SumsInv
  <2>3. r \in Runs /\ status[r] # "none"
    BY <1>1
  <2> QED
    BY <1>3, <1>4, <2>1, <2>2, <2>3, OneLine
<1>6. BoundedMove(s)
  <2>1. Be(s, Idle) /\ Idle.at = "idle" /\ Idle.kind = "none"
    BY DEF SaveWrite, Return, Idle
  <2>2. Bounded(Idle, status, line, ded')
    BY <2>1, QuietBounded DEF LineSteps
  <2> QED
    BY <2>1, <2>2 DEF BoundedMove
<1> QED
  BY <1>5, <1>6

\* Every step of the session but the insertion of a run is such a move.
LEMMA EveryJobBounded ==
    ASSUME JobsOK, PaidInv, SumsInv, NEW s \in Sessions, Job(s), ~CreateInsert(s)
    PROVE  DedMove /\ BoundedMove(s)
<1>1. JobOK(job[s]) /\ Bounded(job[s], status, line, ded)
  BY DEF JobsOK, SumsInv
<1>2. CASE Defaults(s) \/ DefaultInsert(s)
  BY <1>2, DefaultsBounded
<1>3. CASE GovPlan(s) \/ LwopPlan(s)
  BY <1>3, PlansBounded
<1>4. CASE WriteAuto(s) \/ InsertAuto(s)
  BY <1>4, WritesBounded
<1>5. CASE AutoBegin(s) \/ RecalcDelete(s) \/ LwopBegin(s)
  BY <1>5, LoopsBounded
<1>6. CASE SaveWrite(s)
  BY <1>6, SaveBounded
<1>7. ASSUME NEW n, Be(s, n), n.at \notin LineSteps, n.at # "auto_begin",
             n.kind = "none" \/ status[n.run] # "none"
      PROVE  BoundedMove(s)
  BY <1>7, QuietBounded DEF BoundedMove
<1>8. CASE ReopenBegin(s) \/ EditBegin(s) \/ CreateBegin(s) \/ CreateSummary(s)
           \/ RecalcBegin(s) \/ SaveBegin(s) \/ FinalizeBegin(s)
  <2>1. ded' = ded
    BY <1>8 DEF ReopenBegin, EditBegin, ReadSums, CreateBegin, CreateSummary, RecalcBegin,
       SaveBegin, FinalizeBegin, books
  <2>2. CASE ReopenBegin(s) \/ EditBegin(s) \/ CreateBegin(s)
    <3>1. ASSUME NEW at \in {"reopen", "edit", "summary"}, NEW p,
                 Be(s, [Idle EXCEPT !.at = at, !.period = p])
          PROVE  BoundedMove(s)
      <4>1. PICK n : n = [Idle EXCEPT !.at = at, !.period = p] /\ Be(s, n)
        BY <3>1
      <4>2. n.at = at /\ n.kind = "none"
        BY <4>1 DEF Idle
      <4> QED
        BY <1>7, <4>1, <4>2 DEF LineSteps
    <3>2. CASE ReopenBegin(s)
      BY <2>1, <3>1, <3>2, DedSame DEF ReopenBegin
    <3>3. CASE EditBegin(s)
      BY <2>1, <3>1, <3>3, DedSame DEF EditBegin
    <3>4. CASE CreateBegin(s)
      BY <2>1, <3>1, <3>4, DedSame DEF CreateBegin
    <3> QED
      BY <2>2, <3>2, <3>3, <3>4
  <2>3. CASE CreateSummary(s)
    <3>1. job[s].kind = "none"
      BY <1>1, <2>3 DEF CreateSummary, JobOK, CreateSteps, RecalcSteps
    <3>2. PICK n : /\ n = [job[s] EXCEPT !.at = "insert_run",
                                         !.sheet = sheet[job[s].period]]
                   /\ Be(s, n)
      BY <2>3 DEF CreateSummary
    <3>3. n.at = "insert_run" /\ n.kind = "none"
      BY <1>1, <3>1, <3>2 DEF JobOK, JobShape
    <3> QED
      BY <1>7, <2>1, <3>2, <3>3, DedSame DEF LineSteps
  <2>4. CASE RecalcBegin(s)
    <3>1. PICK r, n : /\ status[r] = "draft"
                      /\ n = [Idle EXCEPT !.at = "recalc", !.kind = "recalc_gov",
                                          !.run = r]
                      /\ Be(s, n)
      BY <2>4 DEF RecalcBegin
    <3>2. n.at = "recalc" /\ n.run = r
      BY <3>1 DEF Idle
    <3> QED
      BY <1>7, <2>1, <3>1, <3>2, DedSame DEF LineSteps
  <2>5. CASE SaveBegin(s)
    <3>1. PICK r, e, f, n : /\ n = [Idle EXCEPT !.at = "save", !.run = r,
                                                !.line = e, !.input = f]
                            /\ Be(s, n)
      BY <2>5 DEF SaveBegin
    <3>2. n.at = "save" /\ n.kind = "none"
      BY <3>1 DEF Idle
    <3> QED
      BY <1>7, <2>1, <3>1, <3>2, DedSame DEF LineSteps
  <2>6. CASE FinalizeBegin(s)
    <3>1. PICK r, n : n = [Idle EXCEPT !.at = "stale", !.run = r] /\ Be(s, n)
      BY <2>6 DEF FinalizeBegin
    <3>2. n.at = "stale" /\ n.kind = "none"
      BY <3>1 DEF Idle
    <3> QED
      BY <1>7, <2>1, <3>1, <3>2, DedSame DEF LineSteps
  <2> QED
    BY <1>8, <2>2, <2>3, <2>4, <2>5, <2>6
<1>9. CASE ReopenDelete(s) \/ EditWrite(s) \/ Refresh(s) \/ AutoVoid(s)
           \/ FinalizeStale(s) \/ FinalizePreflight(s) \/ FinalizeRefresh(s)
           \/ FinalizeWrite(s) \/ ReadSums(s)
  <2>1. ded' = ded
    BY <1>9 DEF ReopenDelete, EditWrite, Refresh, AutoVoid, FinalizeStale,
       FinalizePreflight, FinalizeRefresh, FinalizeWrite, ReadSums, books
  <2>2. job[s].kind = "none" \/ status[job[s].run] # "none"
    BY <1>1 DEF Bounded
  <2>3. \E n : /\ Be(s, n)
               /\ \/ n = Idle
                  \/ \E at \in {"auto_void", "preflight", "fin_sums"} :
                        n = [job[s] EXCEPT !.at = at]
                  \/ \E at \in {"refresh", "fin_refresh", "finalize"} : \E sums :
                        n = [job[s] EXCEPT !.at = at, !.sums = sums]
    BY <1>9 DEF ReopenDelete, EditWrite, Refresh, AutoVoid, FinalizeStale,
       FinalizePreflight, FinalizeRefresh, FinalizeWrite, ReadSums, Fail, Go, Return
  <2>4. PICK n : /\ Be(s, n)
                 /\ \/ n = Idle
                    \/ \E at \in {"auto_void", "preflight", "fin_sums"} :
                          n = [job[s] EXCEPT !.at = at]
                    \/ \E at \in {"refresh", "fin_refresh", "finalize"} : \E sums :
                          n = [job[s] EXCEPT !.at = at, !.sums = sums]
    BY <2>3
  <2>5. /\ n.at \in {"idle", "auto_void", "preflight", "fin_sums", "refresh", "fin_refresh",
                   "finalize"}
        /\ n.kind = "none" \/ (n.kind = job[s].kind /\ n.run = job[s].run)
    <3>1. CASE n = Idle
      BY <3>1 DEF Idle
    <3>2. ASSUME NEW at, n = [job[s] EXCEPT !.at = at]
          PROVE  n.at = at /\ n.kind = job[s].kind /\ n.run = job[s].run
      BY <1>1, <3>2 DEF JobOK, JobShape
    <3>3. ASSUME NEW at, NEW sums, n = [job[s] EXCEPT !.at = at, !.sums = sums]
          PROVE  n.at = at /\ n.kind = job[s].kind /\ n.run = job[s].run
      BY <1>1, <3>3 DEF JobOK, JobShape
    <3> QED
      BY <2>4, <3>1, <3>2, <3>3
  <2> QED
    BY <1>7, <2>1, <2>2, <2>4, <2>5, DedSame DEF LineSteps
<1> QED
  BY <1>2, <1>3, <1>4, <1>5, <1>6, <1>8, <1>9 DEF Job

\* Sums that fit the lines as they were fit the lines as they are.
LEMMA SumsAssembled ==
    ASSUME RunInv, LineTables, Paid', DedTyped, Untouched(status, ded), [Next]_vars,
           DedMove
    PROVE  Untouched(status', ded') /\ Within(line', ded')
<1>1. Untouched(status', ded')
  <2>1. \A q \in Runs : status'[q] = "none" => status[q] = "none"
    BY EveryStepIsRunStep DEF RunStep, Inserted, Ended, RunInv, RunTables
  <2> QED
    BY <2>1 DEF Untouched, DedMove
<1>2. ASSUME NEW q \in Runs, NEW e \in DOMAIN line'[q]
      PROVE  SumIn(ded', q, e, Types) <= line'[q][e].gross
  <2>1. CASE status[q] # "none"
    <3>1. LinesKept(q)
      BY <2>1, EveryStepKeepsLines
    <3>2. e \in DOMAIN line[q] /\ line'[q][e].gross = line[q][e].gross
      BY <3>1 DEF LinesKept, Lines
    <3> QED
      BY <3>2 DEF DedMove, Within
  <2>2. CASE status[q] = "none"
    <3>1. e \in Employees /\ line'[q][e].gross \in Nat
      BY DEF Paid, Lines
    <3>2. \A t \in Types : AmountOf(ded'[q][e])[t] = 0
      BY <2>2, <3>1 DEF DedMove, Untouched, AmountOf
    <3>3. SumIn(ded', q, e, Types) = 0
      BY <3>2, PayrollAssumption, TotalZero DEF SumIn
    <3> QED
      BY <3>1, <3>3
  <2> QED
    BY <2>1, <2>2
<1> QED
  BY <1>1, <1>2 DEF Within

\* The job of a session that is not disturbed keeps its bounds while another
\* session, or none, writes deductions.
LEMMA OthersBounded ==
    ASSUME RunInv, LineTables, JobsOK, PaidInv, SumsInv, Undisturbed, [Next]_vars,
           NEW s \in Sessions, Job(s) \/ ded' = ded,
           NEW t \in Sessions, t # s \/ ded' = ded, job'[t] = job[t]
    PROVE  Bounded(job'[t], status', line', ded')
<1>1. PICK n : n = job[t]
  OBVIOUS
<1>2. /\ JobOK(n) /\ Bounded(n, status, line, ded) /\ job'[t] = n
      /\ n.kind # "none" => n.run \in Runs /\ status[n.run] # "none"
  <2>1. JobOK(n) /\ Bounded(n, status, line, ded)
    BY <1>1 DEF JobsOK, SumsInv
  <2> QED
    BY <1>1, <2>1 DEF JobOK, Bounded
<1>3. Bounded(n, status, line, ded')
  <2>1. CASE ded' = ded
    BY <1>2, <2>1
  <2>2. CASE n.kind = "none"
    <3>1. n.at \notin LineSteps /\ n.at # "auto_begin"
      BY <1>2, <2>2 DEF JobOK, OtherSteps, LineSteps
    <3> QED
      BY <2>2, <3>1, QuietBounded
  <2>3. CASE Job(s) /\ t # s /\ n.kind # "none"
    <3>1. job[s].run # n.run
      BY <1>1, <2>3 DEF Undisturbed, Workers
    <3>2. DedTables
      BY DEF PaidInv, DedTyped, DedTables
    <3>3. ded'[n.run] = ded[n.run]
      BY <1>2, <2>3, <3>1, <3>2, EveryJobWritesItsRun
    <3>4. \A e \in Employees : NoGov(ded, n.run, e) => NoGov(ded', n.run, e)
      BY <3>3 DEF NoGov, AutoIn
    <3>5. \A e : /\ ded'[n.run][e] = ded[n.run][e]
                /\ NoGov(ded', n.run, e) = NoGov(ded, n.run, e)
                /\ AutoIn(ded', n.run, e) = AutoIn(ded, n.run, e)
                /\ \A S : SumIn(ded', n.run, e, S) = SumIn(ded, n.run, e, S)
      BY <3>3 DEF NoGov, AutoIn, SumIn
    <3>6. PlanFits(n, line, ded) => PlanFits(n, line, ded')
      BY <3>5 DEF PlanFits
    <3> HIDE DEF PlanFits, NoGov, SumIn, AutoIn
    <3> QED
      BY <1>2, <3>5, <3>6 DEF Bounded
  <2> QED
    BY <2>1, <2>2, <2>3
<1> QED
  BY <1>2, <1>3, BoundedKept

LEMMA SumsInvInductive ==
    /\ Init => SumsInv
    /\ Undisturbed /\ RunInv /\ LineTables /\ JobsOK /\ PaidInv /\ PaidInv' /\ SumsInv
         /\ [Next]_vars => SumsInv'
<1>1. Init => SumsInv
  <2> SUFFICES ASSUME Init PROVE SumsInv
    OBVIOUS
  <2>1. Untouched(status, ded)
    BY DEF Init, Untouched, NoRow
  <2>2. Within(line, ded)
    BY DEF Init, Within
  <2>3. Idle.at = "idle" /\ Idle.kind = "none"
    BY DEF Idle
  <2>4. Bounded(Idle, status, line, ded)
    BY <2>3, QuietBounded DEF LineSteps
  <2> QED
    BY <2>1, <2>2, <2>4 DEF Init, SumsInv
<1>2. ASSUME Undisturbed, RunInv, LineTables, JobsOK, PaidInv, PaidInv', SumsInv,
             [Next]_vars
      PROVE  SumsInv'
  <2>1. /\ RunInv /\ LineTables /\ Paid' /\ DedTyped /\ Untouched(status, ded)
        /\ JobsOK /\ PaidInv /\ SumsInv /\ Undisturbed /\ [Next]_vars
    BY <1>2 DEF PaidInv, SumsInv
  <2>2. ASSUME DedMove, \A t \in Sessions : Bounded(job'[t], status', line', ded')
        PROVE  SumsInv'
    <3>1. Untouched(status', ded') /\ Within(line', ded')
      BY <2>1, <2>2, SumsAssembled
    <3> QED
      BY <2>2, <3>1 DEF SumsInv
  <2>3. ASSUME NEW s \in Sessions, DedMove, Job(s), NEW n, Be(s, n),
               Bounded(n, status', line', ded')
        PROVE  SumsInv'
    <3>1. /\ job'[s] = n
          /\ \A t \in Sessions : t # s => job'[t] = job[t]
      BY <2>1, <2>3 DEF Be, JobsOK
    <3>2. ASSUME NEW t \in Sessions PROVE Bounded(job'[t], status', line', ded')
      <4>1. CASE t = s
        BY <2>3, <3>1, <4>1
      <4>2. CASE t # s
        BY <2>1, <2>3, <3>1, <4>2, OthersBounded
      <4> QED
        BY <4>1, <4>2
    <3> QED
      BY <2>2, <2>3, <3>2
  <2>4. ASSUME NEW s \in Sessions, Job(s), ~CreateInsert(s)
        PROVE  SumsInv'
    <3>1. DedMove /\ BoundedMove(s)
      BY <2>1, <2>4, EveryJobBounded
    <3>2. PICK n : Be(s, n) /\ Bounded(n, status, line, ded')
      BY <3>1 DEF BoundedMove
    <3>3. JobOK(n)
      <4>1. PICK m : Be(s, m) /\ JobOK(m)
        BY <2>1, <2>4, EveryJobMoves DEF JobMove
      <4>2. n = m
        BY <2>1, <2>4, <3>2, <4>1 DEF Be, JobsOK
      <4> QED
        BY <4>1, <4>2
    <3>4. n.kind # "none" => n.run \in Runs
      BY <3>3 DEF JobOK
    <3>5. Bounded(n, status', line', ded')
      BY <2>1, <3>2, <3>3, <3>4, BoundedKept
    <3> QED
      BY <2>3, <2>4, <3>1, <3>2, <3>5
  <2>5. ASSUME NEW s \in Sessions, CreateInsert(s)
        PROVE  SumsInv'
    <3>1. ded' = ded /\ DedMove /\ Job(s)
      BY <2>1, <2>5, DedSame DEF CreateInsert, books, Job
    <3>2. CASE Return(s)
      <4>1. Be(s, Idle)
        BY <3>2 DEF Return
      <4>2. Idle.at = "idle" /\ Idle.kind = "none"
        BY DEF Idle
      <4>3. Bounded(Idle, status', line', ded')
        BY <4>2, QuietBounded DEF LineSteps
      <4> QED
        BY <2>3, <3>1, <4>1, <4>3
    <3>3. CASE ~Return(s)
      <4>1. PICK r, n :
               /\ r \in Runs /\ status[r] = "none"
               /\ status' = [status EXCEPT ![r] = "draft"]
               /\ n = [Idle EXCEPT !.at = "auto_begin", !.kind = "create", !.run = r]
               /\ Be(s, n)
        BY <2>5, <3>3 DEF CreateInsert
      <4>2. n.at = "auto_begin" /\ n.run = r
        BY <4>1 DEF Idle
      <4>3. status'[r] # "none"
        BY <2>1, <4>1 DEF RunInv, RunTables
      <4>4. \A e \in Employees : NoGov(ded', r, e)
        BY <2>1, <3>1, <4>1 DEF Untouched, NoGov, AutoIn
      <4>5. Bounded(n, status', line', ded')
        BY <4>2, <4>3, <4>4 DEF Bounded, LineSteps
      <4> QED
        BY <2>3, <3>1, <4>1, <4>5
    <3> QED
      BY <3>2, <3>3
  <2>6. CASE UNCHANGED <<ded, job>>
    <3>1. DedMove
      BY <2>1, <2>6, DedSame
    <3>2. ASSUME NEW t \in Sessions PROVE Bounded(job'[t], status', line', ded')
      BY <2>1, <2>6, OthersBounded
    <3> QED
      BY <2>2, <3>1, <3>2
  <2> QED
    BY <1>2, <2>4, <2>5, <2>6 DEF Next, ClosePeriod, HolidayChange, DueChange,
       ToggleChange, Void, books, vars
<1> QED
  BY <1>1, <1>2

\* As long as nobody else works on a run whose lines a creation or a
\* recalculation goes through, the deductions of a line never add up to more
\* than its gross pay, whatever the toggles, the compensations, the defaults
\* and the attendance are (PayrollRun!DeductionsWithinGross).
THEOREM SumsTheorem == Spec /\ []Undisturbed => []DeductionsWithinGross
<1>1. Init => LineTables
  BY DEF Init, LineTables, Lines
<1>2. RunInv /\ LineTables /\ [Next]_vars => LineTables'
  BY EveryStepKeepsLines
<1>3. SumsInv => DeductionsWithinGross
  BY DEF SumsInv, Within, DeductionsWithinGross, SumIn, SumOf, Lines
<1> QED
  BY <1>1, <1>2, <1>3, RunInvInductive, JobsOKInductive, PaidInvInductive,
     SumsInvInductive, PTL DEF Spec

\* One session at a time.
Alone == \E s : Sessions = {s}

\* One session at a time disturbs nobody: with a single admin at work the
\* deductions of a line stay within its gross pay in every behaviour
\* (PayrollRun!DeductionsWithinGross, handlers/admin/payroll.rs).
THEOREM SumsAlone == Alone /\ Spec => []DeductionsWithinGross
<1>1. Alone => Undisturbed
  BY DEF Alone, Undisturbed, Workers
<1>2. Alone => Alone'
  BY DEF Alone
<1> QED
  BY <1>1, <1>2, SumsTheorem, PTL
=============================================================================
