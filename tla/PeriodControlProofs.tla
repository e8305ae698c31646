------------------------- MODULE PeriodControlProofs -------------------------
(***************************************************************************)
(* Proofs about PeriodControl: no day is paid twice but through a race.    *)
(* The argument has three links. A close inserts a range only when no      *)
(* closed range overlaps it; a reopen deletes a range only when no run     *)
(* that counts pays it; a creation inserts a run only for a closed range   *)
(* that no other run pays. So the ranges of runs that count are distinct   *)
(* closed ranges, which are disjoint. ReadsStand carries what was read to  *)
(* the statement that uses it: another session that writes in between      *)
(* leaves the range in raced, and the links hold for all other ranges.     *)
(***************************************************************************)
EXTENDS PeriodControl, TLAPS

\* Ranges that the overlap query does not return share no date.
LEMMA QueryFindsOverlaps ==
    ASSUME NEW p \in Range, NEW q \in Range,
           ~(q.first <= p.last /\ q.last >= p.first)
    PROVE  Dates(p) \cap Dates(q) = {}
  <1>1. p.first \in Int /\ p.last \in Int /\ q.first \in Int /\ q.last \in Int
    BY DEF Range
  <1> SUFFICES ASSUME NEW d \in Int, p.first <= d, d <= p.last,
                      q.first <= d, d <= q.last
               PROVE  FALSE
    BY <1>1 DEF Dates
  <1> QED BY <1>1

LEMMA InitEstablishes == Init => ControlInv
  <1> SUFFICES ASSUME Init PROVE ControlInv
    OBVIOUS
  <1> USE ControlAssumption DEF Init
  <1>1. TypeOK
    BY DEF TypeOK, Idle, Steps
  <1>2. ReadsStand
    BY DEF ReadsStand, ReadStands, Idle
  <1>3. ClosedDisjoint
    BY DEF ClosedDisjoint
  <1>4. RunsStayClosed /\ OneRunPerRange
    BY DEF RunsStayClosed, OneRunPerRange, Active
  <1> QED BY <1>1, <1>2, <1>3, <1>4 DEF ControlInv

LEMMA StepPreservesType ==
    ASSUME TypeOK, ReadsStand, [Next]_vars
    PROVE  TypeOK'
  <1> USE ControlAssumption DEF TypeOK, Steps, CreateSteps
  <1>0. ASSUME NEW s \in Sessions, NEW at \in Steps \ {"idle"}
        PROVE  RangesAt(s, at) \subseteq Forms
    BY <1>0 DEF RangesAt, ReadsStand, ReadStands
  <1>1. ASSUME NEW s \in Sessions, CloseBegin(s) PROVE TypeOK'
    <2>1. PICK p \in Forms :
             job' = [job EXCEPT ![s].at = "overlaps", ![s].range = p]
      BY <1>1 DEF CloseBegin
    <2>2. job[s] \in [at : Steps, range : Forms \cup {None}, setting : Settings]
      OBVIOUS
    <2>3. job'[s] = [at |-> "overlaps", range |-> p, setting |-> job[s].setting]
      BY <2>1, <2>2
    <2>4. job' = [job EXCEPT ![s] = job'[s]]
      BY <2>1
    <2> QED BY <1>1, <2>2, <2>3, <2>4 DEF CloseBegin
  <1>2. ASSUME NEW s \in Sessions, CloseOverlaps(s) PROVE TypeOK'
    BY <1>2 DEF CloseOverlaps, Go, Return, Idle
  <1>3. ASSUME NEW s \in Sessions, CloseInsert(s) PROVE TypeOK'
    BY <1>0, <1>3 DEF CloseInsert, Return, Idle, ReadsStand, ReadStands
  <1>4. ASSUME NEW s \in Sessions, ReopenBegin(s) PROVE TypeOK'
    <2>1. PICK p \in Forms :
             job' = [job EXCEPT ![s].at = "delete", ![s].range = p]
      BY <1>4 DEF ReopenBegin
    <2>2. job[s] \in [at : Steps, range : Forms \cup {None}, setting : Settings]
      OBVIOUS
    <2>3. job'[s] = [at |-> "delete", range |-> p, setting |-> job[s].setting]
      BY <2>1, <2>2
    <2>4. job' = [job EXCEPT ![s] = job'[s]]
      BY <2>1
    <2> QED BY <1>4, <2>2, <2>3, <2>4 DEF ReopenBegin
  <1>5. ASSUME NEW s \in Sessions, ReopenDelete(s) PROVE TypeOK'
    BY <1>0, <1>5 DEF ReopenDelete, Return, Idle
  <1>6. ASSUME NEW s \in Sessions, CreateBegin(s) PROVE TypeOK'
    BY <1>6 DEF CreateBegin
  <1>7. ASSUME NEW s \in Sessions, CreateCheck(s) PROVE TypeOK'
    BY <1>7 DEF CreateCheck, Go, Return, Idle
  <1>8. ASSUME NEW s \in Sessions, CreateInsert(s) PROVE TypeOK'
    BY <1>0, <1>8 DEF CreateInsert, Return, Idle
  <1>9. ASSUME NEW r \in Runs, void_draft_run(r) \/ finalize_run(r)
        PROVE  TypeOK'
    BY <1>9 DEF void_draft_run, finalize_run
  <1>10. CASE update_settings
    BY <1>10 DEF update_settings
  <1>11. CASE UNCHANGED vars
    BY <1>11 DEF vars
  <1> QED
    BY <1>1, <1>2, <1>3, <1>4, <1>5, <1>6, <1>7, <1>8, <1>9, <1>10, <1>11 DEF Next

\* What a session has read stands while nobody writes the tables.
LEMMA QuietRead ==
    ASSUME NEW s \in Sessions, ReadStands(s), job'[s] = job[s],
           UNCHANGED <<closed, status, period, raced>>
    PROVE  ReadStands(s)'
  BY DEF ReadStands, list_overlapping_closed_periods, ActiveRuns, Active

\* One session moves, the others keep what they have read.
LEMMA OwnStep ==
    ASSUME TypeOK, ReadsStand, NEW s \in Sessions, NEW n, job' = [job EXCEPT ![s] = n],
           UNCHANGED <<closed, status, period, raced>>, ReadStands(s)'
    PROVE  ReadsStand'
  <1> SUFFICES ASSUME NEW t \in Sessions, t # s PROVE ReadStands(t)'
    BY DEF ReadsStand
  <1>1. job'[t] = job[t]
    BY DEF TypeOK
  <1> QED BY <1>1, QuietRead DEF ReadsStand

\* The steps that only read: they leave the tables as they are.
LEMMA ReadingStep ==
    ASSUME ControlInv, UNCHANGED <<closed, status, period, raced>>
    PROVE  OneRunPerRange' /\ ClosedDisjoint' /\ RunsStayClosed'
  BY DEF ControlInv, OneRunPerRange, ClosedDisjoint, RunsStayClosed, Active

\* close_pay_period: the insert overlaps no closed range, or it was overtaken;
\* and whoever it overtakes is noted.
LEMMA CloseInsertStep ==
    ASSUME ControlInv, NEW s \in Sessions, CloseInsert(s)
    PROVE  ReadsStand' /\ OneRunPerRange' /\ ClosedDisjoint' /\ RunsStayClosed'
  <1> DEFINE p == job[s].range
  <1>1. /\ job[s].at = "insert" /\ closed' = closed \cup {p}
        /\ raced' = raced \cup {q \in RangesAt(s, "insert") : ShareDates(q, p)}
        /\ job' = [job EXCEPT ![s] = Idle]
        /\ UNCHANGED <<status, period>>
    BY DEF CloseInsert, Return
  <1>2. /\ p \in Forms /\ p.first <= p.last
        /\ list_overlapping_closed_periods(p) \subseteq {p} \/ p \in raced
    BY <1>1 DEF ControlInv, ReadsStand, ReadStands
  <1>3. p \in Range /\ closed \subseteq Range
    BY <1>2, ControlAssumption DEF ControlInv, TypeOK
  <1>4. ASSUME NEW t \in Sessions PROVE ReadStands(t)'
    <2>1. CASE t = s
      BY <1>1, <2>1 DEF ControlInv, TypeOK, ReadStands, Idle
    <2>2. CASE t # s
      <3>1. job'[t] = job[t] /\ ReadStands(t)
        BY <1>1, <2>2 DEF ControlInv, TypeOK, ReadsStand
      <3>2. ActiveRuns(job[t].range)' = ActiveRuns(job[t].range)
        BY <1>1, <3>1 DEF ActiveRuns, Active
      <3>3. ASSUME job[t].at = "insert"
            PROVE  \/ list_overlapping_closed_periods(job[t].range)' \subseteq {job[t].range}
                   \/ job[t].range \in raced'
        <4> DEFINE q == job[t].range
        <4>1. q \in RangesAt(s, "insert")
          BY <2>2, <3>3 DEF RangesAt
        <4>2. q \in Range
          BY <3>1, <3>3, ControlAssumption DEF ReadStands
        <4>3. CASE q = p
          BY <1>1, <3>1, <3>3, <4>3 DEF ReadStands, list_overlapping_closed_periods
        <4>4. CASE q # p /\ p.first <= q.last /\ p.last >= q.first
          BY <1>1, <1>3, <4>1, <4>2, <4>4 DEF ShareDates, Range
        <4>5. CASE ~(p.first <= q.last /\ p.last >= q.first)
          <5>1. list_overlapping_closed_periods(q)' = list_overlapping_closed_periods(q)
            BY <1>1, <3>1, <4>5 DEF list_overlapping_closed_periods
          <5> QED BY <1>1, <3>1, <3>3, <5>1 DEF ReadStands
        <4> QED BY <4>3, <4>4, <4>5
      <3> QED BY <1>1, <3>1, <3>2, <3>3 DEF ReadStands
    <2> QED BY <2>1, <2>2
  <1>5. ASSUME NEW q \in closed, q # p, p \notin raced
        PROVE  Dates(p) \cap Dates(q) = {}
    <2>1. ~(q.first <= p.last /\ q.last >= p.first)
      BY <1>2, <1>5 DEF list_overlapping_closed_periods
    <2> HIDE DEF p
    <2> QED BY <1>3, <1>5, <2>1, QueryFindsOverlaps
  <1>6. ClosedDisjoint'
    <2> HIDE DEF p
    <2> QED BY <1>1, <1>5 DEF ControlInv, ClosedDisjoint
  <1>7. OneRunPerRange' /\ RunsStayClosed'
    BY <1>1 DEF ControlInv, OneRunPerRange, RunsStayClosed, Active
  <1> QED BY <1>4, <1>6, <1>7 DEF ReadsStand

\* reopen_pay_period: the deleted range has no run that counts, or it was
\* overtaken; and a creation that had found it closed is noted.
LEMMA ReopenDeleteStep ==
    ASSUME ControlInv, NEW s \in Sessions, ReopenDelete(s)
    PROVE  ReadsStand' /\ OneRunPerRange' /\ ClosedDisjoint' /\ RunsStayClosed'
  <1> DEFINE p == job[s].range
  <1>1. /\ job[s].at = "delete" /\ closed' = closed \ {p}
        /\ raced' = raced \cup ({p} \cap RangesAt(s, "create_insert"))
        /\ job' = [job EXCEPT ![s] = Idle]
        /\ UNCHANGED <<status, period>>
    BY DEF ReopenDelete, Return
  <1>2. ActiveRuns(p) = {} \/ p \in raced
    BY <1>1 DEF ControlInv, ReadsStand, ReadStands
  <1>3. ASSUME NEW t \in Sessions PROVE ReadStands(t)'
    <2>1. CASE t = s
      BY <1>1, <2>1 DEF ControlInv, TypeOK, ReadStands, Idle
    <2>2. CASE t # s
      <3>1. job'[t] = job[t] /\ ReadStands(t)
        BY <1>1, <2>2 DEF ControlInv, TypeOK, ReadsStand
      <3>2. ActiveRuns(job[t].range)' = ActiveRuns(job[t].range)
        BY <1>1, <3>1 DEF ActiveRuns, Active
      <3>3. list_overlapping_closed_periods(job[t].range)'
               \subseteq list_overlapping_closed_periods(job[t].range)
        BY <1>1, <3>1 DEF list_overlapping_closed_periods
      <3>4. ASSUME job[t].at = "create_insert"
            PROVE  job[t].range \in closed' \/ job[t].range \in raced'
        <4>1. job[t].range \in RangesAt(s, "create_insert")
          BY <2>2, <3>4 DEF RangesAt
        <4> QED BY <1>1, <3>1, <3>4, <4>1 DEF ReadStands
      <3> QED BY <1>1, <3>1, <3>2, <3>3, <3>4 DEF ReadStands
    <2> QED BY <2>1, <2>2
  <1>4. RunsStayClosed'
    <2> HIDE DEF p
    <2> QED BY <1>1, <1>2 DEF ControlInv, RunsStayClosed, Active, ActiveRuns
  <1>5. OneRunPerRange' /\ ClosedDisjoint'
    BY <1>1 DEF ControlInv, OneRunPerRange, ClosedDisjoint, Active
  <1> QED BY <1>3, <1>4, <1>5 DEF ReadsStand

\* create_draft_run: the run is of a closed range that no other run pays, or
\* it was overtaken; and a reopen that had found no run is noted.
LEMMA CreateInsertStep ==
    ASSUME ControlInv, NEW s \in Sessions, CreateInsert(s)
    PROVE  ReadsStand' /\ OneRunPerRange' /\ ClosedDisjoint' /\ RunsStayClosed'
  <1> DEFINE p == job[s].range
  <1>1. job[s].at = "create_insert" /\ job' = [job EXCEPT ![s] = Idle] /\ UNCHANGED closed
    BY DEF CreateInsert, Return
  <1>2. CASE ActiveRuns(p) # {}
    <2>1. UNCHANGED <<closed, status, period, raced>>
      BY <1>2 DEF CreateInsert
    <2>2. ReadStands(s)'
      BY <1>1 DEF ControlInv, TypeOK, ReadStands, Idle
    <2> QED BY <1>1, <2>1, <2>2, OwnStep, ReadingStep DEF ControlInv
  <1>3. CASE ActiveRuns(p) = {}
    <2>1. PICK r \in Runs : /\ status[r] = "none"
                            /\ status' = [status EXCEPT ![r] = "draft"]
                            /\ period' = [period EXCEPT ![r] = p]
                            /\ raced' = raced \cup ({p} \cap RangesAt(s, "delete"))
      BY <1>3 DEF CreateInsert
    <2>2. \A q \in Runs : /\ Active(q)' <=> q = r \/ Active(q)
                          /\ period'[q] = IF q = r THEN p ELSE period[q]
      BY <2>1 DEF ControlInv, TypeOK, Active
    <2>3. p \in closed \/ p \in raced
      BY <1>1 DEF ControlInv, ReadsStand, ReadStands
    <2>4. \A q \in Runs : Active(q) => period[q] # p /\ q # r
      BY <1>3, <2>1 DEF ActiveRuns, Active
    <2>5. ASSUME NEW t \in Sessions PROVE ReadStands(t)'
      <3>1. CASE t = s
        BY <1>1, <3>1 DEF ControlInv, TypeOK, ReadStands, Idle
      <3>2. CASE t # s
        <4>1. job'[t] = job[t] /\ ReadStands(t)
          BY <1>1, <3>2 DEF ControlInv, TypeOK, ReadsStand
        <4>2. list_overlapping_closed_periods(job[t].range)'
                 = list_overlapping_closed_periods(job[t].range)
          BY <1>1, <4>1 DEF list_overlapping_closed_periods
        <4>3. ASSUME job[t].at = "delete"
              PROVE  ActiveRuns(job[t].range)' = {} \/ job[t].range \in raced'
          <5>1. CASE job[t].range = p
            <6>1. job[t].range \in RangesAt(s, "delete")
              BY <3>2, <4>3 DEF RangesAt
            <6> QED BY <2>1, <5>1, <6>1
          <5>2. CASE job[t].range # p
            <6>1. ActiveRuns(job[t].range)' = ActiveRuns(job[t].range)
              <7> HIDE DEF p
              <7> QED BY <2>2, <2>4, <4>1, <5>2 DEF ActiveRuns
            <6> QED BY <2>1, <4>1, <4>3, <6>1 DEF ReadStands
          <5> QED BY <5>1, <5>2
        <4> QED BY <1>1, <2>1, <4>1, <4>2, <4>3 DEF ReadStands
      <3> QED BY <3>1, <3>2
    <2> HIDE DEF p
    <2>6. OneRunPerRange'
      BY <2>2, <2>4 DEF ControlInv, OneRunPerRange
    <2>7. RunsStayClosed'
      BY <1>1, <2>1, <2>2, <2>3 DEF ControlInv, RunsStayClosed
    <2>8. ClosedDisjoint'
      BY <1>1, <2>1 DEF ControlInv, ClosedDisjoint
    <2> QED BY <2>5, <2>6, <2>7, <2>8 DEF ReadsStand
  <1> QED BY <1>2, <1>3

\* The rows of a run end: fewer runs count than before.
LEMMA RunStep ==
    ASSUME ControlInv, NEW r \in Runs, void_draft_run(r) \/ finalize_run(r)
    PROVE  ReadsStand' /\ OneRunPerRange' /\ ClosedDisjoint' /\ RunsStayClosed'
  <1>1. \A q \in Runs : Active(q)' => Active(q)
    BY DEF void_draft_run, finalize_run, Active, ControlInv, TypeOK
  <1>2. UNCHANGED <<closed, period, job, raced>>
    BY DEF void_draft_run, finalize_run
  <1>3. \A p : /\ ActiveRuns(p)' \subseteq ActiveRuns(p)
               /\ list_overlapping_closed_periods(p)' = list_overlapping_closed_periods(p)
    BY <1>1, <1>2 DEF ActiveRuns, list_overlapping_closed_periods
  <1>4. ReadsStand'
    BY <1>2, <1>3 DEF ControlInv, ReadsStand, ReadStands
  <1> QED BY <1>1, <1>2, <1>4
          DEF ControlInv, OneRunPerRange, ClosedDisjoint, RunsStayClosed

\* The steps of a session that read, and fix what it will write.
LEMMA ReadStep ==
    ASSUME ControlInv, NEW s \in Sessions,
           \/ CloseBegin(s) \/ CloseOverlaps(s) \/ ReopenBegin(s)
           \/ CreateBegin(s) \/ CreateCheck(s)
    PROVE  ReadsStand' /\ OneRunPerRange' /\ ClosedDisjoint' /\ RunsStayClosed'
  <1>1. UNCHANGED <<closed, status, period, raced>>
    BY DEF CloseBegin, CloseOverlaps, ReopenBegin, CreateBegin, CreateCheck
  <1>2. job[s] \in [at : Steps, range : Forms \cup {None}, setting : Settings]
    BY DEF ControlInv, TypeOK
  <1>3. ASSUME NEW n, job' = [job EXCEPT ![s] = n], ReadStands(s)' PROVE ReadsStand'
    BY <1>1, <1>3, OwnStep DEF ControlInv
  <1>4. job' = [job EXCEPT ![s] = job'[s]] /\ ReadStands(s)'
    <2>1. CASE CloseBegin(s)
      <3>1. PICK p \in Forms : /\ EndNotBeforeStart(p)
                               /\ job' = [job EXCEPT ![s].at = "overlaps", ![s].range = p]
        BY <2>1 DEF CloseBegin
      <3>2. job'[s] = [at |-> "overlaps", range |-> p, setting |-> job[s].setting]
        BY <1>2, <3>1 DEF ControlInv, TypeOK
      <3>3. ReadStands(s)'
        BY <3>1, <3>2 DEF ReadStands, EndNotBeforeStart
      <3>4. job' = [job EXCEPT ![s] = job'[s]]
        BY <3>1, <3>2 DEF ControlInv, TypeOK
      <3> QED BY <3>3, <3>4
    <2>2. CASE CloseOverlaps(s)
      <3>1. CASE list_overlapping_closed_periods(job[s].range) = {}
        <4>1. /\ job[s].at = "overlaps" /\ job'[s].at = "insert"
              /\ job'[s].range = job[s].range
              /\ job' = [job EXCEPT ![s] = job'[s]]
          BY <1>2, <2>2, <3>1 DEF CloseOverlaps, Go, ControlInv, TypeOK
        <4>2. list_overlapping_closed_periods(job[s].range)' = {}
          BY <1>1, <3>1, <4>1 DEF list_overlapping_closed_periods
        <4> QED BY <4>1, <4>2 DEF ControlInv, ReadsStand, ReadStands
      <3>2. CASE list_overlapping_closed_periods(job[s].range) # {}
        BY <2>2, <3>2 DEF CloseOverlaps, Return, Idle, ControlInv, TypeOK, ReadStands
      <3> QED BY <3>1, <3>2
    <2>3. CASE ReopenBegin(s)
      <3>1. PICK p \in Forms : /\ ActiveRuns(p) = {}
                               /\ job' = [job EXCEPT ![s].at = "delete", ![s].range = p]
        BY <2>3 DEF ReopenBegin, assert_payroll_run_allows_reopen
      <3>2. job'[s] = [at |-> "delete", range |-> p, setting |-> job[s].setting]
        BY <1>2, <3>1 DEF ControlInv, TypeOK
      <3>3. ActiveRuns(job[s].range)' = {}
        BY <1>1, <3>1, <3>2 DEF ActiveRuns, Active
      <3>4. ReadStands(s)'
        <4>1. job'[s].at = "delete" /\ job'[s].range \in Forms
          BY <3>2
        <4>2. job'[s].at = "delete" =>
                 ActiveRuns(job[s].range)' = {} \/ job'[s].range \in raced'
          BY <3>3
        <4> HIDE DEF ActiveRuns
        <4> QED BY <4>1, <4>2 DEF ReadStands
      <3>5. job' = [job EXCEPT ![s] = job'[s]]
        BY <3>1, <3>2 DEF ControlInv, TypeOK
      <3> QED BY <3>4, <3>5
    <2>4. CASE CreateBegin(s)
      BY <2>4 DEF CreateBegin, ControlInv, TypeOK, ReadStands
    <2>5. CASE CreateCheck(s)
      BY <1>1, <1>2, <2>5 DEF CreateCheck, Go, Return, Idle, Payable,
         is_period_exactly_closed, ControlInv, TypeOK, ReadsStand, ReadStands
    <2> QED BY <2>1, <2>2, <2>3, <2>4, <2>5
  <1> QED BY <1>1, <1>3, <1>4, ReadingStep

LEMMA StepPreservesInv ==
    ASSUME ControlInv, [Next]_vars
    PROVE  ControlInv'
  <1>1. TypeOK'
    BY StepPreservesType DEF ControlInv
  <1>2. ASSUME UNCHANGED <<closed, status, period, job, raced>>
        PROVE  ReadsStand' /\ OneRunPerRange' /\ ClosedDisjoint' /\ RunsStayClosed'
    BY <1>2, QuietRead, ReadingStep DEF ControlInv, ReadsStand
  <1> QED BY <1>1, <1>2, ReadStep, CloseInsertStep, ReopenDeleteStep, CreateInsertStep,
             RunStep DEF ControlInv, Next, update_settings, vars

\* What handlers have read still stands where they rely on it, for any number
\* of sessions, but for the ranges in raced.
THEOREM ControlInvariant == Spec => []ControlInv
  <1>1. Init => ControlInv
    BY InitEstablishes
  <1>2. ControlInv /\ [Next]_vars => ControlInv'
    BY StepPreservesInv
  <1> QED BY <1>1, <1>2, PTL DEF Spec

\* No day is paid by two runs, for any calendar, settings, ranges, runs and
\* sessions, and through any change of the pay period, unless one of their
\* ranges was in a race (payroll_controls.rs:182-278, runs.rs:161-202).
THEOREM NoDoublePay == Spec => []NoDayPaidTwice
  <1>1. ControlInv => NoDayPaidTwice
    BY DEF ControlInv, ClosedDisjoint, RunsStayClosed, OneRunPerRange, NoDayPaidTwice
  <1> QED BY <1>1, ControlInvariant, PTL

\* What a run pays stays frozen as long as the run counts, unless its creation
\* and a reopen were in a race.
THEOREM PaidStaysClosed == Spec => []RunsStayClosed
  <1>1. ControlInv => RunsStayClosed
    BY DEF ControlInv
  <1> QED BY <1>1, ControlInvariant, PTL

\* While one request at a time is served nothing is ever excused: then no day
\* at all is paid twice, and every run that counts has its range closed.
THEOREM NothingRacedAlone == ASSUME OneAtATime PROVE Spec => [](raced = {})
  <1>1. Init => raced = {}
    BY DEF Init
  <1>2. ASSUME NEW s \in Sessions, NEW at PROVE RangesAt(s, at) = {}
    BY DEF OneAtATime, RangesAt
  <1>3. raced = {} /\ [Next]_vars => (raced = {})'
    BY <1>2 DEF Next, vars, CloseBegin, CloseOverlaps, CloseInsert, ReopenBegin,
       ReopenDelete, CreateBegin, CreateCheck, CreateInsert, void_draft_run,
       finalize_run, update_settings
  <1> QED BY <1>1, <1>3, PTL DEF Spec
=============================================================================
