---------------------------- MODULE LeaveProofs ----------------------------
(***************************************************************************)
(* Proofs about Leave: LeaveInv is inductive, so requests that count never *)
(* overlap and no balance goes below zero; every step that moves a charge  *)
(* moves the balance by the same amount; an approval marks all its days;   *)
(* and the handlers implement LeaveLedger.                                 *)
(***************************************************************************)
EXTENDS Leave, TLAPS

\* What the members of Form have: the fields' types, and days and a cost that
\* make sense.
LEMMA FormFacts ==
    ASSUME NEW f \in Form
    PROVE  /\ f.emp \in Employees
           /\ f.type \in LeaveTypes
           /\ Span(f) \subseteq Day
           /\ Cost(f) \in Nat
           /\ f.type \notin Tracked => Cost(f) = 0
<1>1. /\ f.first \in Day /\ f.last \in Day /\ f.first <= f.last
      /\ f.emp \in Employees /\ f.type \in LeaveTypes /\ f.half \in BOOLEAN
  BY DEF Form
<1>2. Span(f) \subseteq Day
  BY <1>1, LeaveAssumption DEF Span, Day
<1>3. requested_leave_tenths(f) \in Nat
  BY <1>1, LeaveAssumption DEF requested_leave_tenths, Day
<1> QED
  BY <1>1, <1>2, <1>3 DEF Cost, tracks_balance

\* The initial state satisfies the invariant: there are no rows and no handlers.
LEMMA InitInv == Init => LeaveInv
<1> SUFFICES ASSUME Init PROVE LeaveInv
  OBVIOUS
<1>1. TypeOK
  BY LeaveAssumption DEF Init, TypeOK, Statuses, Steps, Attendance
<1>2. RowsKnown
  BY DEF Init, RowsKnown, CreateSteps, RowSteps, LockSteps
<1>3. LiveLeaveDisjoint
  BY DEF Init, LiveLeaveDisjoint, Live
<1>4. RequestLocks
  BY DEF Init, RequestLocks, LockSteps
<1>5. BalanceLocks
  BY DEF Init, BalanceLocks, HoldsBalance
<1>6. SeenRowsStay
  BY DEF Init, SeenRowsStay
<1> QED
  BY <1>1, <1>2, <1>3, <1>4, <1>5, <1>6 DEF LeaveInv

\* Only s moves, and it holds no lock afterwards.
MovesWithoutLock(s) ==
    /\ \A t \in Sessions \ {s} : /\ pc'[t] = pc[t]
                                 /\ req'[t] = req[t]
                                 /\ seen'[t] = seen[t]
    /\ pc'[s] \notin LockSteps

\* A statement that moves a session to a step without locks, or back to idle,
\* and leaves the tables alone preserves the invariant.
LEMMA LockFreeStep ==
    ASSUME LeaveInv, NEW s \in Sessions, MovesWithoutLock(s),
           TypeOK', RowsKnown',
           UNCHANGED <<status, form, balance, entry>>
    PROVE  LeaveInv'
<1> USE DEF MovesWithoutLock
<1>1. LiveLeaveDisjoint'
  BY DEF LeaveInv, LiveLeaveDisjoint, Overlaps
<1>2. RequestLocks'
  BY DEF LeaveInv, RequestLocks, LockSteps
<1>3. BalanceLocks'
  <2>1. \A u \in Sessions, e \in Employees, t \in Tracked :
           HoldsBalance(u, e, t)' => /\ u # s
                                     /\ HoldsBalance(u, e, t)
                                     /\ req'[u] = req[u]
    BY DEF HoldsBalance, LockSteps
  <2> QED
    BY <2>1 DEF LeaveInv, BalanceLocks, BalanceFree
<1>4. SeenRowsStay'
  BY DEF LeaveInv, SeenRowsStay, HasRow, LockSteps
<1> QED
  BY <1>1, <1>2, <1>3, <1>4 DEF LeaveInv

\* The handler's return, with nothing written, is such a step.
LEMMA ReturnStep ==
    ASSUME LeaveInv, NEW s \in Sessions, Return(s),
           UNCHANGED <<status, form, balance, entry, closed, page>>
    PROVE  LeaveInv'
<1> USE DEF LeaveInv, Return, Goto
<1>1. TypeOK'
  BY DEF TypeOK, Steps
<1>2. RowsKnown'
  BY DEF TypeOK, RowsKnown, Steps, CreateSteps, RowSteps, LockSteps
<1>3. MovesWithoutLock(s)
  BY DEF TypeOK, MovesWithoutLock, LockSteps
<1> QED
  BY <1>1, <1>2, <1>3, LockFreeStep

\* create_request preserves the invariant: its INSERT is guarded by the
\* exclusion constraint, so the new row overlaps no row that counts.
LEMMA CreateInv ==
    ASSUME LeaveInv, NEW s \in Sessions,
           \/ CreateBegin(s)
           \/ CreateAssertEditable(s)
           \/ CreateReadBalance(s)
           \/ CreateAssertSufficient(s)
           \/ CreateInsert(s)
    PROVE  LeaveInv'
<1> USE DEF LeaveInv, Goto, days
<1>1. CASE CreateBegin(s)
  <2>1. TypeOK' /\ RowsKnown' /\ MovesWithoutLock(s)
    BY <1>1 DEF CreateBegin, TypeOK, RowsKnown, MovesWithoutLock, Steps,
                CreateSteps, RowSteps, LockSteps
  <2> QED
    BY <1>1, <2>1, LockFreeStep DEF CreateBegin
<1>2. CASE CreateAssertEditable(s)
  <2>1. CASE Return(s)
    BY <1>2, <2>1, ReturnStep DEF CreateAssertEditable
  <2>2. CASE ~Return(s)
    <3>1. TypeOK' /\ RowsKnown' /\ MovesWithoutLock(s)
      BY <1>2, <2>2 DEF CreateAssertEditable, TypeOK, RowsKnown,
           MovesWithoutLock, Steps, CreateSteps, RowSteps, LockSteps
    <3> QED
      BY <1>2, <3>1, LockFreeStep DEF CreateAssertEditable
  <2> QED
    BY <2>1, <2>2
<1>3. CASE CreateReadBalance(s)
  <2>1. /\ draft[s].emp \in Employees
        /\ draft[s].type \in Tracked
    BY <1>3, FormFacts DEF CreateReadBalance, RowsKnown, CreateSteps,
                           tracks_balance
  <2>2. snapshot' \in [Sessions -> Nat]
    BY <1>3, <2>1 DEF CreateReadBalance, TypeOK
  <2>3. TypeOK' /\ RowsKnown' /\ MovesWithoutLock(s)
    BY <1>3, <2>2 DEF CreateReadBalance, TypeOK, RowsKnown, MovesWithoutLock,
         Steps, CreateSteps, RowSteps, LockSteps
  <2> QED
    BY <1>3, <2>3, LockFreeStep DEF CreateReadBalance
<1>4. CASE CreateAssertSufficient(s)
  <2>1. CASE Return(s)
    BY <1>4, <2>1, ReturnStep DEF CreateAssertSufficient
  <2>2. CASE ~Return(s)
    <3>1. TypeOK' /\ RowsKnown' /\ MovesWithoutLock(s)
      BY <1>4, <2>2 DEF CreateAssertSufficient, TypeOK, RowsKnown,
           MovesWithoutLock, Steps, CreateSteps, RowSteps, LockSteps
    <3> QED
      BY <1>4, <3>1, LockFreeStep DEF CreateAssertSufficient
  <2> QED
    BY <2>1, <2>2
<1>5. CASE CreateInsert(s)
  <2>1. CASE UNCHANGED <<status, form>>
    BY <1>5, <2>1, ReturnStep DEF CreateInsert
  <2>2. CASE ~ViolatesExclusion(draft[s])
    <3>1. PICK r \in Requests :
             /\ status[r] = "none"
             /\ status' = [status EXCEPT ![r] = "pending"]
             /\ form' = [form EXCEPT ![r] = draft[s]]
      BY <1>5, <2>2 DEF CreateInsert, ViolatesExclusion
    <3>2. draft[s] \in Form
      BY <1>5 DEF CreateInsert, RowsKnown, CreateSteps
    <3>3. TypeOK'
      BY <1>5, <3>1, <3>2 DEF CreateInsert, Return, TypeOK, Statuses, Steps
    <3>4. \A t \in Sessions : pc'[t] \in RowSteps =>
             /\ t # s
             /\ req'[t] = req[t]
             /\ pc'[t] = pc[t]
             /\ req[t] # r
             /\ status'[req[t]] = status[req[t]]
             /\ form'[req[t]] = form[req[t]]
      BY <1>5, <3>1 DEF CreateInsert, Return, TypeOK, RowsKnown, RowSteps, LockSteps
    <3>5. \A t \in Sessions : pc'[t] \in CreateSteps =>
             pc'[t] = pc[t] /\ draft'[t] = draft[t]
      BY <1>5 DEF CreateInsert, Return, TypeOK, CreateSteps
    <3>6. RowsKnown'
      BY <3>1, <3>2, <3>4, <3>5 DEF RowsKnown, TypeOK, CreateSteps
    <3>7. LiveLeaveDisjoint'
      BY <2>2, <3>1 DEF LiveLeaveDisjoint, ViolatesExclusion,
           has_overlapping_request, Overlaps, TypeOK
    <3>8. RequestLocks'
      BY <3>4 DEF RequestLocks, RowSteps, LockSteps
    <3>9. BalanceLocks'
      <4>1. \A u \in Sessions, e \in Employees, t \in Tracked :
               HoldsBalance(u, e, t)' => /\ HoldsBalance(u, e, t)
                                         /\ form'[req'[u]] = form[req[u]]
        BY <3>4 DEF HoldsBalance, RowSteps, LockSteps
      <4> QED
        BY <1>5, <4>1 DEF CreateInsert, BalanceLocks, BalanceFree
    <3>10. SeenRowsStay'
      <4>1. \A t \in Sessions : seen'[t] # {} => seen'[t] = seen[t]
        BY <1>5 DEF CreateInsert, Return, TypeOK
      <4> QED
        BY <1>5, <3>4, <4>1 DEF CreateInsert, SeenRowsStay, HasRow, RowSteps,
             LockSteps
    <3> QED
      BY <3>3, <3>6, <3>7, <3>8, <3>9, <3>10
  <2> QED
    BY <1>5, <2>1, <2>2 DEF CreateInsert
<1> QED
  BY <1>1, <1>2, <1>3, <1>4, <1>5

\* A step that takes a lock-free pending request out of the pending state
\* (withdrawal or rejection) leaves every lock holder's request as it was.
LEMMA DropPending ==
    ASSUME LeaveInv, NEW s \in Sessions, NEW r \in Requests,
           NEW new \in {"cancelled", "rejected"},
           status[r] = "pending", RequestFree(s, r), pc[s] \notin LockSteps,
           status' = [status EXCEPT ![r] = new],
           \A t \in Sessions \ {s} : /\ pc'[t] = pc[t]
                                     /\ req'[t] = req[t]
                                     /\ seen'[t] = seen[t],
           pc'[s] = "idle",
           TypeOK', RowsKnown',
           UNCHANGED <<form, balance, entry>>
    PROVE  LeaveInv'
<1> USE DEF LeaveInv
<1>1. \A t \in Sessions : pc'[t] \in LockSteps =>
         /\ t # s
         /\ pc'[t] = pc[t]
         /\ req'[t] = req[t]
         /\ seen'[t] = seen[t]
         /\ status'[req[t]] = status[req[t]]
  BY DEF RequestFree, HoldsRequest, LockSteps, TypeOK
<1>2. LiveLeaveDisjoint'
  BY ZenonT(60) DEF LiveLeaveDisjoint, Overlaps, TypeOK, Live
<1>3. RequestLocks'
  BY <1>1 DEF RequestLocks, LockSteps
<1>4. BalanceLocks'
  <2>1. \A u \in Sessions, e \in Employees, t \in Tracked :
           HoldsBalance(u, e, t)' => /\ HoldsBalance(u, e, t)
                                     /\ req'[u] = req[u]
    BY <1>1 DEF HoldsBalance, LockSteps
  <2> QED
    BY <2>1 DEF BalanceLocks, BalanceFree
<1>5. SeenRowsStay'
  BY <1>1 DEF SeenRowsStay, HasRow, LockSteps
<1> QED
  BY <1>2, <1>3, <1>4, <1>5

\* cancel_request on a pending request preserves the invariant.
LEMMA CancelInv ==
    ASSUME LeaveInv, NEW s \in Sessions, CancelPending(s)
    PROVE  LeaveInv'
<1> USE DEF LeaveInv
<1>1. PICK r \in Requests : /\ status[r] = "pending"
                            /\ RequestFree(s, r)
                            /\ status' = [status EXCEPT ![r] = "cancelled"]
  BY DEF CancelPending
<1>2. TypeOK'
  BY <1>1 DEF CancelPending, TypeOK, Statuses, days
<1>3. RowsKnown'
  BY <1>1 DEF CancelPending, TypeOK, RowsKnown
<1> QED
  BY <1>1, <1>2, <1>3, DropPending DEF CancelPending, LockSteps, days

\* review_request, up to its transaction, and its rejections.
LEMMA ReviewReadInv ==
    ASSUME LeaveInv, NEW s \in Sessions,
           \/ ReviewBegin(s)
           \/ ReviewAssertEditable(s)
           \/ ReviewReject(s)
    PROVE  LeaveInv'
<1> USE DEF LeaveInv, Goto, days
<1>1. CASE ReviewBegin(s)
  <2>1. TypeOK' /\ RowsKnown' /\ MovesWithoutLock(s)
    BY <1>1 DEF ReviewBegin, TypeOK, RowsKnown, MovesWithoutLock, Steps,
                CreateSteps, RowSteps, LockSteps
  <2> QED
    BY <1>1, <2>1, LockFreeStep DEF ReviewBegin
<1>2. CASE ReviewAssertEditable(s)
  <2>1. CASE Return(s)
    BY <1>2, <2>1, ReturnStep DEF ReviewAssertEditable
  <2>2. CASE ~Return(s)
    <3>1. TypeOK' /\ RowsKnown' /\ MovesWithoutLock(s)
      BY <1>2, <2>2 DEF ReviewAssertEditable, TypeOK, RowsKnown,
           MovesWithoutLock, Steps, CreateSteps, RowSteps, LockSteps
    <3> QED
      BY <1>2, <3>1, LockFreeStep DEF ReviewAssertEditable
  <2> QED
    BY <2>1, <2>2
<1>3. CASE ReviewReject(s)
  <2>1. req[s] \in Requests
    BY <1>3 DEF ReviewReject, RowsKnown, RowSteps
  <2>2. CASE status[req[s]] # "pending"
    <3>1. UNCHANGED status
      BY <1>3, <2>1, <2>2 DEF ReviewReject, TypeOK
    <3> QED
      BY <1>3, <3>1, ReturnStep DEF ReviewReject
  <2>3. CASE status[req[s]] = "pending"
    <3>1. status' = [status EXCEPT ![req[s]] = "rejected"]
      BY <1>3, <2>3 DEF ReviewReject
    <3>2. TypeOK'
      BY <1>3, <2>1, <3>1 DEF ReviewReject, Return, TypeOK, Statuses, Steps
    <3>3. RowsKnown'
      BY <1>3, <2>1, <3>1 DEF ReviewReject, Return, TypeOK, RowsKnown,
           CreateSteps, RowSteps, LockSteps
    <3>4. /\ pc'[s] = "idle"
          /\ \A t \in Sessions \ {s} : /\ pc'[t] = pc[t]
                                       /\ req'[t] = req[t]
                                       /\ seen'[t] = seen[t]
      BY <1>3 DEF ReviewReject, Return, TypeOK
    <3> QED
      BY <1>3, <2>1, <2>3, <3>1, <3>2, <3>3, <3>4, DropPending
         DEF ReviewReject, LockSteps
  <2> QED
    BY <2>2, <2>3
<1> QED
  BY <1>1, <1>2, <1>3

\* Taking the lock of a request: no other session holds it, and the status
\* is read under the lock.
LEMMA LockInv ==
    ASSUME LeaveInv, NEW s \in Sessions, ReviewLock(s) \/ RevokeLock(s)
    PROVE  LeaveInv'
<1> USE DEF LeaveInv, Goto, days
<1>1. CASE Return(s)
  BY <1>1, ReturnStep DEF ReviewLock, RevokeLock
<1>2. CASE ~Return(s)
  <2>1. /\ req[s] \in Requests
        /\ RequestFree(s, req[s])
        /\ UNCHANGED <<status, form, balance, entry, closed, page, req, draft,
                       snapshot, seen>>
        /\ \/ pc' = [pc EXCEPT ![s] = "review_deduct"] /\ status[req[s]] = "pending"
           \/ pc' = [pc EXCEPT ![s] = "revoke_write"] /\ status[req[s]] = "approved"
    BY <1>2 DEF ReviewLock, RevokeLock, RowsKnown, RowSteps
  <2>2. TypeOK'
    BY <2>1 DEF TypeOK, Steps, RowSteps, LockSteps
  <2>3. RowsKnown'
    BY <2>1 DEF TypeOK, RowsKnown, CreateSteps, RowSteps, LockSteps
  <2>4. LiveLeaveDisjoint'
    BY <2>1 DEF LiveLeaveDisjoint, Overlaps
  <2>5. RequestLocks'
    BY <2>1 DEF TypeOK, RequestLocks, RequestFree, HoldsRequest, LockSteps
  <2>6. BalanceLocks'
    <3>1. \A u \in Sessions, e \in Employees, t \in Tracked :
             HoldsBalance(u, e, t)' => HoldsBalance(u, e, t)
      BY <2>1 DEF TypeOK, HoldsBalance
    <3> QED
      BY <2>1, <3>1 DEF BalanceLocks, BalanceFree
  <2>7. SeenRowsStay'
    BY <2>1 DEF TypeOK, SeenRowsStay, HasRow
  <2> QED
    BY <2>2, <2>3, <2>4, <2>5, <2>6, <2>7
<1> QED
  BY <1>1, <1>2

\* Taking the lock of a balance: no other session holds it, the balance covers
\* the cost, and the rows read are there.
LEMMA DeductInv ==
    ASSUME LeaveInv, NEW s \in Sessions, ReviewDeduct(s)
    PROVE  LeaveInv'
<1> USE DEF LeaveInv, Goto, days
<1> DEFINE f == form[req[s]]
<1>1. CASE Return(s)
  BY <1>1, ReturnStep DEF ReviewDeduct
<1>2. CASE ~Return(s)
  <2>1. /\ req[s] \in Requests
        /\ f \in Form
    BY DEF ReviewDeduct, RowsKnown, RowSteps, LockSteps
  <2>2. /\ pc[s] = "review_deduct"
        /\ BalanceFree(s, f.emp, f.type)
        /\ f.type \in Tracked => ~(balance[f.emp][f.type] < Cost(f))
        /\ seen' = [seen EXCEPT ![s] = {d \in Span(f) : HasRow(f.emp, d)}]
        /\ pc' = [pc EXCEPT ![s] = "review_write"]
        /\ UNCHANGED <<status, form, balance, entry, closed, page, req, draft,
                       snapshot>>
    BY <1>2 DEF ReviewDeduct, tracks_balance
  <2>3. TypeOK'
    <3>1. {d \in Span(f) : HasRow(f.emp, d)} \in SUBSET Day
      BY <2>1, FormFacts
    <3> QED
      BY <2>2, <3>1 DEF TypeOK, Steps, RowSteps, LockSteps
  <2>4. RowsKnown'
    BY <2>2 DEF TypeOK, RowsKnown, CreateSteps, RowSteps, LockSteps
  <2>5. LiveLeaveDisjoint'
    BY <2>2 DEF LiveLeaveDisjoint, Overlaps
  <2>6. RequestLocks'
    BY <2>2 DEF TypeOK, RequestLocks, LockSteps
  <2>7. BalanceLocks'
    <3>1. SUFFICES ASSUME NEW u \in Sessions, NEW e \in Employees,
                          NEW t \in Tracked, HoldsBalance(u, e, t)'
                   PROVE  /\ balance[e][t] >= Cost(form[req[u]])
                          /\ BalanceFree(u, e, t)'
      BY <2>2 DEF BalanceLocks
    <3>2. CASE u = s
      <4>1. e = f.emp /\ t = f.type
        BY <2>2, <3>1, <3>2 DEF HoldsBalance
      <4>2. balance[e][t] >= Cost(f)
        BY <2>1, <2>2, <4>1, FormFacts DEF TypeOK
      <4> QED
        BY <2>2, <3>2, <4>1, <4>2 DEF BalanceFree, HoldsBalance, TypeOK
    <3>3. CASE u # s
      <4>1. HoldsBalance(u, e, t)
        BY <2>2, <3>1, <3>3 DEF HoldsBalance, TypeOK
      <4>2. ~(f.emp = e /\ f.type = t)
        BY <2>2, <3>3, <4>1 DEF BalanceFree
      <4>3. /\ balance[e][t] >= Cost(form[req[u]])
            /\ BalanceFree(u, e, t)
        BY <4>1 DEF BalanceLocks
      <4>4. \A w \in Sessions \ {s} :
               HoldsBalance(w, e, t)' => HoldsBalance(w, e, t)
        BY <2>2 DEF HoldsBalance, TypeOK
      <4>5. ~HoldsBalance(s, e, t)'
        BY <2>2, <4>2 DEF HoldsBalance
      <4>6. BalanceFree(u, e, t)'
        BY <4>3, <4>4, <4>5 DEF BalanceFree
      <4> QED
        BY <4>3, <4>6
    <3> QED
      BY <3>2, <3>3
  <2>8. SeenRowsStay'
    BY <2>2 DEF TypeOK, SeenRowsStay, HasRow
  <2> QED
    BY <2>3, <2>4, <2>5, <2>6, <2>7, <2>8
<1> QED
  BY <1>1, <1>2

\* The tables that ChargedBalance, MarkedDays and ClearedDays compute.
LEMMA WriteTypes ==
    ASSUME TypeOK, NEW f \in Form, NEW delta \in Int, NEW old,
           f.type \in Tracked => balance[f.emp][f.type] + delta \in Nat
    PROVE  /\ ChargedBalance(f, delta) \in [Employees -> [Tracked -> Nat]]
           /\ MarkedDays(f, old) \in
                [Employees -> [Day -> [clocked : BOOLEAN, attendance : Attendance]]]
           /\ ClearedDays(f) \in
                [Employees -> [Day -> [clocked : BOOLEAN, attendance : Attendance]]]
<1> USE FormFacts
<1>1. ChargedBalance(f, delta) \in [Employees -> [Tracked -> Nat]]
  BY DEF TypeOK, ChargedBalance, tracks_balance
<1>2. MarkedDays(f, old) \in
         [Employees -> [Day -> [clocked : BOOLEAN, attendance : Attendance]]]
  BY DEF TypeOK, MarkedDays, Attendance
<1>3. ClearedDays(f) \in
         [Employees -> [Day -> [clocked : BOOLEAN, attendance : Attendance]]]
  BY DEF TypeOK, ClearedDays, Attendance
<1> QED
  BY <1>1, <1>2, <1>3

\* What the commit of an approval does to the rows: every row of f's employee
\* that was there is still there, and the days of f now carry its type.
LEMMA MarkedFacts ==
    ASSUME TypeOK, NEW f \in Form, NEW old, NEW e \in Employees, NEW d \in Day
    PROVE  /\ HasRow(e, d) => MarkedDays(f, old)[e][d].attendance # NoRow
           /\ e = f.emp /\ d \in Span(f) /\ (d \in old => HasRow(e, d))
                => MarkedDays(f, old)[e][d].attendance = f.type
<1>1. f.type # NoRow
  BY FormFacts, LeaveAssumption
<1> QED
  BY <1>1, FormFacts DEF TypeOK, MarkedDays, HasRow

\* The commit of an approval preserves the invariant.
LEMMA WriteInv ==
    ASSUME LeaveInv, NEW s \in Sessions, ReviewWrite(s)
    PROVE  LeaveInv'
<1> USE DEF LeaveInv, Goto, days
<1> DEFINE f == form[req[s]]
<1>1. CASE UNCHANGED <<status, balance, entry>>
  BY <1>1, ReturnStep DEF ReviewWrite
<1>2. CASE ~UNCHANGED <<status, balance, entry>>
  <2>1. /\ pc[s] = "review_write"
        /\ Return(s)
        /\ status' = [status EXCEPT ![req[s]] = "approved"]
        /\ balance' = ChargedBalance(f, - Cost(f))
        /\ entry' = MarkedDays(f, seen[s])
        /\ UNCHANGED <<form, closed, page>>
    BY <1>2 DEF ReviewWrite
  <2>2. /\ req[s] \in Requests
        /\ f \in Form
        /\ status[req[s]] = "pending"
    BY <2>1 DEF RowsKnown, RequestLocks, RowSteps, LockSteps
  <2>3. f.type \in Tracked => balance[f.emp][f.type] + (- Cost(f)) \in Nat
    <3>1. f.emp \in Employees /\ Cost(f) \in Nat
      BY <2>2, FormFacts
    <3>2. f.type \in Tracked => HoldsBalance(s, f.emp, f.type)
      BY <2>1 DEF HoldsBalance
    <3>3. f.type \in Tracked => balance[f.emp][f.type] >= Cost(f)
      BY <3>1, <3>2 DEF BalanceLocks
    <3>4. f.type \in Tracked => balance[f.emp][f.type] \in Nat
      BY <3>1 DEF TypeOK
    <3> QED
      BY <3>1, <3>3, <3>4
  <2>4. TypeOK'
    <3>1. - Cost(f) \in Int
      BY <2>2, FormFacts
    <3>2. /\ balance' \in [Employees -> [Tracked -> Nat]]
          /\ entry' \in [Employees -> [Day ->
                           [clocked : BOOLEAN, attendance : Attendance]]]
      BY <2>1, <2>2, <2>3, <3>1, WriteTypes
    <3> QED
      BY <2>1, <2>2, <3>2 DEF Return, TypeOK, Statuses, Steps
  <2>5. \A t \in Sessions : pc'[t] # "idle" =>
           /\ t # s
           /\ pc'[t] = pc[t]
           /\ req'[t] = req[t]
           /\ draft'[t] = draft[t]
           /\ seen'[t] = seen[t]
    BY <2>1 DEF Return, TypeOK
  <2>6. \A t \in Sessions : pc'[t] \in LockSteps => req[t] # req[s]
    BY <2>1, <2>5 DEF RequestLocks, LockSteps
  <2>7. RowsKnown'
    BY <2>1, <2>2, <2>5 DEF TypeOK, RowsKnown, CreateSteps, RowSteps, LockSteps
  <2>8. LiveLeaveDisjoint'
    BY <2>1, <2>2 DEF LiveLeaveDisjoint, Overlaps, TypeOK, Live
  <2>9. RequestLocks'
    BY <2>1, <2>5, <2>6 DEF RequestLocks, LockSteps, TypeOK
  <2>10. BalanceLocks'
    <3>1. SUFFICES ASSUME NEW u \in Sessions, NEW e \in Employees,
                          NEW t \in Tracked, HoldsBalance(u, e, t)'
                   PROVE  /\ balance'[e][t] >= Cost(form[req[u]])
                          /\ BalanceFree(u, e, t)'
      BY <2>1, <2>5 DEF BalanceLocks, HoldsBalance
    <3>2. u # s /\ HoldsBalance(u, e, t)
      BY <2>1, <2>5, <3>1 DEF HoldsBalance
    <3>3. ~(f.emp = e /\ f.type = t)
      BY <2>1, <3>2 DEF BalanceLocks, BalanceFree, HoldsBalance
    <3>4. balance'[e][t] = balance[e][t]
      BY <2>1, <2>2, <3>3, FormFacts DEF ChargedBalance, TypeOK, tracks_balance
    <3>5. BalanceFree(u, e, t)'
      BY <2>1, <2>5, <3>2 DEF BalanceLocks, BalanceFree, HoldsBalance
    <3> QED
      BY <3>2, <3>4, <3>5 DEF BalanceLocks
  <2>11. SeenRowsStay'
    <3>1. SUFFICES ASSUME NEW u \in Sessions, NEW d \in Day,
                          pc'[u] = "review_write", d \in seen'[u]
                   PROVE  /\ entry'[form[req[u]].emp][d].attendance # NoRow
                          /\ d \in Span(form[req[u]])
      BY <2>1, <2>5 DEF SeenRowsStay, HasRow
    <3>2. /\ HasRow(form[req[u]].emp, d)
          /\ d \in Span(form[req[u]])
          /\ form[req[u]].emp \in Employees
      BY <2>5, <3>1, FormFacts DEF SeenRowsStay, RowsKnown, RowSteps, LockSteps
    <3> QED
      BY <2>1, <2>2, <3>2, MarkedFacts
  <2> QED
    BY <2>4, <2>7, <2>8, <2>9, <2>10, <2>11
<1> QED
  BY <1>1, <1>2

\* The commit of a revoke preserves the invariant: the refund only adds, and
\* the rows it deletes are of its own days, which no approval under way shares.
LEMMA RevokeWriteInv ==
    ASSUME LeaveInv, NEW s \in Sessions, RevokeWrite(s)
    PROVE  LeaveInv'
<1> USE DEF LeaveInv, Goto, days
<1> DEFINE f == form[req[s]]
<1>1. /\ pc[s] = "revoke_write"
      /\ BalanceFree(s, f.emp, f.type)
      /\ Return(s)
      /\ status' = [status EXCEPT ![req[s]] = "cancelled"]
      /\ balance' = ChargedBalance(f, Cost(f))
      /\ entry' = ClearedDays(f)
      /\ UNCHANGED <<form, closed, page>>
  BY DEF RevokeWrite
<1>2. /\ req[s] \in Requests
      /\ f \in Form
      /\ status[req[s]] = "approved"
  BY <1>1 DEF RowsKnown, RequestLocks, RowSteps, LockSteps
<1>3. f.type \in Tracked => balance[f.emp][f.type] + Cost(f) \in Nat
  BY <1>2, FormFacts DEF TypeOK
<1>4. TypeOK'
  <2>1. Cost(f) \in Int
    BY <1>2, FormFacts
  <2>2. /\ balance' \in [Employees -> [Tracked -> Nat]]
        /\ entry' \in [Employees -> [Day ->
                         [clocked : BOOLEAN, attendance : Attendance]]]
    BY <1>1, <1>2, <1>3, <2>1, WriteTypes
  <2> QED
    BY <1>1, <1>2, <2>2 DEF Return, TypeOK, Statuses, Steps
<1>5. \A t \in Sessions : pc'[t] # "idle" =>
         /\ t # s
         /\ pc'[t] = pc[t]
         /\ req'[t] = req[t]
         /\ draft'[t] = draft[t]
         /\ seen'[t] = seen[t]
  BY <1>1 DEF Return, TypeOK
<1>6. \A t \in Sessions : pc'[t] \in LockSteps => req[t] # req[s]
  BY <1>1, <1>5 DEF RequestLocks, LockSteps
<1>7. RowsKnown'
  BY ZenonT(60), <1>1, <1>2, <1>5 DEF TypeOK, RowsKnown, CreateSteps, RowSteps, LockSteps
<1>8. LiveLeaveDisjoint'
  BY <1>1, <1>2 DEF LiveLeaveDisjoint, Overlaps, TypeOK, Live
<1>9. RequestLocks'
  BY <1>1, <1>5, <1>6 DEF RequestLocks, LockSteps, TypeOK
<1>10. BalanceLocks'
  <2>1. SUFFICES ASSUME NEW u \in Sessions, NEW e \in Employees,
                        NEW t \in Tracked, HoldsBalance(u, e, t)'
                 PROVE  /\ balance'[e][t] >= Cost(form[req[u]])
                        /\ BalanceFree(u, e, t)'
    BY <1>1, <1>5 DEF BalanceLocks, HoldsBalance
  <2>2. u # s /\ HoldsBalance(u, e, t)
    BY <1>1, <1>5, <2>1 DEF HoldsBalance
  <2>3. ~(f.emp = e /\ f.type = t)
    BY <1>1, <2>2 DEF BalanceFree
  <2>4. balance'[e][t] = balance[e][t]
    BY <1>1, <1>2, <2>3, FormFacts DEF ChargedBalance, TypeOK, tracks_balance
  <2>5. BalanceFree(u, e, t)'
    BY <1>1, <1>5, <2>2 DEF BalanceLocks, BalanceFree, HoldsBalance
  <2> QED
    BY <2>2, <2>4, <2>5 DEF BalanceLocks
<1>11. SeenRowsStay'
  <2>1. SUFFICES ASSUME NEW u \in Sessions, NEW d \in Day,
                        pc'[u] = "review_write", d \in seen'[u]
                 PROVE  /\ entry'[form[req[u]].emp][d].attendance # NoRow
                        /\ d \in Span(form[req[u]])
    BY <1>1, <1>5 DEF SeenRowsStay, HasRow
  <2> DEFINE g == form[req[u]]
  <2>2. /\ pc[u] = "review_write"
        /\ HasRow(g.emp, d)
        /\ d \in Span(g)
        /\ g \in Form
        /\ req[u] \in Requests
        /\ req[u] # req[s]
        /\ status[req[u]] = "pending"
    BY <1>5, <1>6, <2>1 DEF SeenRowsStay, RowsKnown, RequestLocks, RowSteps,
         LockSteps
  <2>3. ~Overlaps(f, g)
    BY <1>2, <2>2 DEF LiveLeaveDisjoint, Live
  <2>4. ~(g.emp = f.emp /\ d \in Span(f))
    BY <1>2, <2>2, <2>3, LeaveAssumption DEF Overlaps, Span, Form, Day
  <2>5. g.emp \in Employees
    BY <2>2, FormFacts
  <2>6. entry'[g.emp][d] = entry[g.emp][d]
    BY <1>1, <1>2, <2>4, <2>5, FormFacts DEF ClearedDays, TypeOK
  <2> QED
    BY <2>2, <2>6 DEF HasRow
<1> QED
  BY <1>4, <1>7, <1>8, <1>9, <1>10, <1>11

\* revoke_approved_request, up to its transaction.
LEMMA RevokeReadInv ==
    ASSUME LeaveInv, NEW s \in Sessions,
           RevokeBegin(s) \/ RevokeAssertEditable(s)
    PROVE  LeaveInv'
<1> USE DEF LeaveInv, Goto, days
<1>1. CASE RevokeBegin(s)
  <2>1. TypeOK' /\ RowsKnown' /\ MovesWithoutLock(s)
    BY <1>1 DEF RevokeBegin, TypeOK, RowsKnown, MovesWithoutLock, Steps,
                CreateSteps, RowSteps, LockSteps
  <2> QED
    BY <1>1, <2>1, LockFreeStep DEF RevokeBegin
<1>2. CASE RevokeAssertEditable(s)
  <2>1. CASE Return(s)
    BY <1>2, <2>1, ReturnStep DEF RevokeAssertEditable
  <2>2. CASE ~Return(s)
    <3>1. TypeOK' /\ RowsKnown' /\ MovesWithoutLock(s)
      BY <1>2, <2>2 DEF RevokeAssertEditable, TypeOK, RowsKnown,
           MovesWithoutLock, Steps, CreateSteps, RowSteps, LockSteps
    <3> QED
      BY <1>2, <3>1, LockFreeStep DEF RevokeAssertEditable
  <2> QED
    BY <2>1, <2>2
<1> QED
  BY <1>1, <1>2

\* A step of another handler that moves no session and no request, keeps the
\* rows that are there and leaves locked balances alone.
LEMMA OutsideStep ==
    ASSUME LeaveInv, TypeOK',
           UNCHANGED <<status, form, pc, req, draft, snapshot, seen>>,
           \A e \in Employees, d \in Day : HasRow(e, d) => HasRow(e, d)',
           \A e \in Employees, t \in Tracked, s \in Sessions :
              HoldsBalance(s, e, t) => balance'[e][t] = balance[e][t]
    PROVE  LeaveInv'
<1> USE DEF LeaveInv
<1>1. RowsKnown'
  BY DEF RowsKnown
<1>2. LiveLeaveDisjoint'
  BY DEF LiveLeaveDisjoint, Overlaps
<1>3. RequestLocks'
  BY DEF RequestLocks
<1>4. BalanceLocks'
  <2>1. \A s \in Sessions, e \in Employees, t \in Tracked :
           HoldsBalance(s, e, t)' = HoldsBalance(s, e, t)
    BY DEF HoldsBalance
  <2> QED
    BY <2>1 DEF BalanceLocks, BalanceFree
<1>5. SeenRowsStay'
  <2>1. \A s \in Sessions : pc[s] = "review_write" =>
           form[req[s]].emp \in Employees
    BY FormFacts DEF RowsKnown, RowSteps, LockSteps
  <2> QED
    BY <2>1 DEF SeenRowsStay
<1> QED
  BY <1>1, <1>2, <1>3, <1>4, <1>5

\* Clock-ins, absence marks, period closing and the edit page preserve the
\* invariant.
LEMMA EnvironmentInv == LeaveInv /\ Environment => LeaveInv'
<1> SUFFICES ASSUME LeaveInv, Environment PROVE LeaveInv'
  OBVIOUS
<1> USE DEF LeaveInv, days
<1>1. ASSUME NEW e \in Employees, NEW d \in Day, ClockInUpsert(e, d)
      PROVE  LeaveInv'
  <2>1. TypeOK'
    BY <1>1 DEF ClockInUpsert, TypeOK, Attendance
  <2>2. \A x \in Employees, y \in Day : HasRow(x, y) => HasRow(x, y)'
    BY <1>1 DEF ClockInUpsert, TypeOK, HasRow, NoRow, Worked
  <2> QED
    BY <1>1, <2>1, <2>2, OutsideStep DEF ClockInUpsert
<1>2. ASSUME NEW e \in Employees, NEW d \in Day,
             NEW a \in LeaveTypes \cup OtherMarks, AbsenceWrite(e, d, a)
      PROVE  LeaveInv'
  <2>1. TypeOK'
    <3>1. \A x \in Employees, y \in Day :
             entry'[x][y] \in [clocked : BOOLEAN, attendance : Attendance]
      <4> SUFFICES ASSUME NEW x \in Employees, NEW y \in Day
                   PROVE  entry'[x][y] \in [clocked : BOOLEAN,
                                            attendance : Attendance]
        OBVIOUS
      <4>1. /\ entry[x][y] \in [clocked : BOOLEAN, attendance : Attendance]
            /\ a \in Attendance
        BY DEF TypeOK, Attendance
      <4>2. \/ entry'[x][y] = entry[x][y]
            \/ entry'[x][y] = [entry[x][y] EXCEPT !.attendance = a]
        BY <1>2 DEF AbsenceWrite, TypeOK
      <4> QED
        BY <4>1, <4>2
    <3>2. entry' \in [Employees -> [Day ->
                        [clocked : BOOLEAN, attendance : Attendance]]]
      BY <1>2, <3>1 DEF AbsenceWrite, TypeOK
    <3> QED
      BY <1>2, <3>2 DEF AbsenceWrite, TypeOK
  <2>2. \A x \in Employees, y \in Day : HasRow(x, y) => HasRow(x, y)'
    BY <1>2, LeaveAssumption DEF AbsenceWrite, TypeOK, HasRow
  <2> QED
    BY <1>2, <2>1, <2>2, OutsideStep DEF AbsenceWrite
<1>3. ASSUME NEW p \in Periods, ClosePeriod(p) \/ ReopenPeriod(p)
      PROVE  LeaveInv'
  <2>1. TypeOK'
    BY <1>3 DEF ClosePeriod, ReopenPeriod, TypeOK
  <2> QED
    BY <1>3, <2>1, OutsideStep DEF ClosePeriod, ReopenPeriod, HasRow
<1>4. ASSUME NEW e \in Edited, NEW t \in Tracked, OpenPage(e, t)
      PROVE  LeaveInv'
  <2>1. TypeOK'
    BY <1>4, LeaveAssumption DEF OpenPage, TypeOK
  <2> QED
    BY <1>4, <2>1, OutsideStep DEF OpenPage, HasRow
<1>5. ASSUME NEW e \in Edited, NEW t \in Tracked, SavePage(e, t)
      PROVE  LeaveInv'
  <2>1. e \in Employees /\ page[e][t] \in Nat
    BY <1>5, LeaveAssumption DEF SavePage, TypeOK
  <2>2. PICK shown \in Nat : balance' = [balance EXCEPT ![e][t] = shown]
    BY <1>5, <2>1, LeaveAssumption DEF SavePage
  <2>3. TypeOK'
    <3>1. balance' \in [Employees -> [Tracked -> Nat]]
      BY <2>1, <2>2 DEF TypeOK
    <3>2. page' \in [Employees -> [Tracked -> Nat \cup {None}]]
      BY <1>5 DEF SavePage, TypeOK
    <3> QED
      BY <1>5, <3>1, <3>2 DEF SavePage, TypeOK
  <2>4. \A x \in Employees, y \in Tracked, s \in Sessions :
           HoldsBalance(s, x, y) => balance'[x][y] = balance[x][y]
    BY <1>5, <2>1, <2>2 DEF SavePage, TypeOK
  <2> QED
    BY <1>5, <2>3, <2>4, OutsideStep DEF SavePage, HasRow
<1> QED
  BY <1>1, <1>2, <1>3, <1>4, <1>5 DEF Environment

\* LeaveInv is inductive.
LEMMA NextInv == LeaveInv /\ [Next]_vars => LeaveInv'
<1> SUFFICES ASSUME LeaveInv, [Next]_vars PROVE LeaveInv'
  OBVIOUS
<1>1. ASSUME NEW s \in Sessions, Begin(s) PROVE LeaveInv'
  BY <1>1, CreateInv, CancelInv, ReviewReadInv, RevokeReadInv DEF Begin
<1>2. ASSUME NEW s \in Sessions, Advance(s) PROVE LeaveInv'
  BY <1>2, CreateInv, ReviewReadInv, LockInv, DeductInv, WriteInv,
     RevokeReadInv, RevokeWriteInv DEF Advance
<1>3. CASE Environment
  BY <1>3, EnvironmentInv
<1>4. CASE UNCHANGED vars
  BY <1>4 DEF vars, days, LeaveInv, TypeOK, RowsKnown, LiveLeaveDisjoint, Overlaps,
       RequestLocks, BalanceLocks, BalanceFree, HoldsBalance, SeenRowsStay,
       HasRow
<1> QED
  BY <1>1, <1>2, <1>3, <1>4 DEF Next

\* At every moment the tables and the sessions have the shapes TypeOK gives
\* them; no balance is ever negative.
THEOREM TypeCorrect == Spec => []TypeOK
<1>1. LeaveInv => TypeOK
  BY DEF LeaveInv
<1> QED
  BY <1>1, InitInv, NextInv, PTL DEF Spec

\* LeaveInv holds at every moment.
THEOREM LeaveInvariant == Spec => []LeaveInv
BY InitInv, NextInv, PTL DEF Spec

\* Pending and approved requests of one employee never overlap, for any
\* number of employees, requests, concurrent sessions and days.
THEOREM NoOverlap == Spec => []LiveLeaveDisjoint
<1>1. LeaveInv => LiveLeaveDisjoint
  BY DEF LeaveInv
<1> QED
  BY <1>1, LeaveInvariant, PTL

\* An approval finds every day of the request with a row that is still there
\* or inserts one, so all of them carry the leave's attendance afterwards.
THEOREM AllDaysMarked == Spec => ApprovalMarksEveryDay
<1> DEFINE Marks == \A r \in Requests :
              status[r] = "pending" /\ status'[r] = "approved" =>
                \A d \in Span(form[r]) :
                    entry'[form[r].emp][d].attendance = form[r].type
<1>1. LeaveInv /\ [Next]_vars => [Marks]_vars
  <2> SUFFICES ASSUME LeaveInv, [Next]_vars, NEW r \in Requests,
                      status[r] = "pending", status'[r] = "approved",
                      NEW d \in Span(form[r])
               PROVE  entry'[form[r].emp][d].attendance = form[r].type
    OBVIOUS
  <2>1. PICK s \in Sessions : ReviewWrite(s)
    <3>1. CASE Environment \/ UNCHANGED vars
      BY <3>1 DEF Environment, ClockInUpsert, AbsenceWrite, ClosePeriod,
           ReopenPeriod, OpenPage, SavePage, vars
    <3>2. ASSUME NEW s \in Sessions, Begin(s) PROVE FALSE
      BY <3>2 DEF Begin, CreateBegin, CancelPending, ReviewBegin, RevokeBegin,
           LeaveInv, TypeOK
    <3>3. ASSUME NEW s \in Sessions, Advance(s), ~ReviewWrite(s) PROVE FALSE
      BY <3>3 DEF Advance, CreateAssertEditable, CreateReadBalance,
           CreateAssertSufficient, CreateInsert, ReviewAssertEditable,
           ReviewReject, ReviewLock, ReviewDeduct, RevokeAssertEditable,
           RevokeLock, RevokeWrite, LeaveInv, TypeOK
    <3> QED
      BY <3>1, <3>2, <3>3 DEF Next
  <2>2. /\ r = req[s]
        /\ pc[s] = "review_write"
        /\ entry' = MarkedDays(form[r], seen[s])
    BY <2>1 DEF ReviewWrite, LeaveInv, TypeOK
  <2>3. form[r] \in Form
    BY <2>2 DEF LeaveInv, RowsKnown
  <2>4. /\ d \in Day
        /\ form[r].emp \in Employees
    BY <2>3, FormFacts
  <2>5. d \in seen[s] => HasRow(form[r].emp, d)
    BY <2>2, <2>4 DEF LeaveInv, SeenRowsStay
  <2> QED
    BY <2>2, <2>3, <2>4, <2>5, MarkedFacts DEF LeaveInv
<1> QED
  BY <1>1, LeaveInvariant, PTL DEF ApprovalMarksEveryDay, Spec

\* Rejections, cancellations and approvals are decided once, and a request's
\* dates never change.
THEOREM FinalDecisions == Spec => DecisionIsFinal
<1> DEFINE Final == \A r \in Requests :
          /\ status[r] \in {"rejected", "cancelled"} => status'[r] = status[r]
          /\ status[r] = "approved" => status'[r] \in {"approved", "cancelled"}
          /\ status[r] # "none" => form'[r] = form[r]
<1>1. LeaveInv /\ [Next]_vars => [Final]_vars
  <2> SUFFICES ASSUME LeaveInv, [Next]_vars PROVE Final
    OBVIOUS
  <2> USE DEF LeaveInv, TypeOK
  <2>1. CASE UNCHANGED <<status, form>>
    BY <2>1
  <2>2. ASSUME NEW s \in Sessions, CreateInsert(s) PROVE Final
    BY <2>2 DEF CreateInsert
  <2>3. ASSUME NEW s \in Sessions, CancelPending(s) PROVE Final
    BY <2>3 DEF CancelPending
  <2>4. ASSUME NEW s \in Sessions, ReviewReject(s) PROVE Final
    BY <2>4 DEF ReviewReject
  <2>5. ASSUME NEW s \in Sessions, ReviewWrite(s) PROVE Final
    BY <2>5 DEF ReviewWrite, RequestLocks
  <2>6. ASSUME NEW s \in Sessions, RevokeWrite(s) PROVE Final
    BY <2>6 DEF RevokeWrite, RequestLocks
  <2>7. CASE ~UNCHANGED <<status, form>>
    <3>1. ~Environment /\ ~UNCHANGED vars
      BY <2>7 DEF Environment, ClockInUpsert, AbsenceWrite, ClosePeriod,
           ReopenPeriod, OpenPage, SavePage, vars
    <3>2. PICK s \in Sessions : Begin(s) \/ Advance(s)
      BY <3>1 DEF Next
    <3>3. \/ CreateInsert(s)
          \/ CancelPending(s)
          \/ ReviewReject(s)
          \/ ReviewWrite(s)
          \/ RevokeWrite(s)
      BY <2>7, <3>2 DEF Begin, CreateBegin, ReviewBegin, RevokeBegin, Advance,
           CreateAssertEditable, CreateReadBalance, CreateAssertSufficient,
           ReviewAssertEditable, ReviewLock, ReviewDeduct,
           RevokeAssertEditable, RevokeLock
    <3> QED
      BY <2>2, <2>3, <2>4, <2>5, <2>6, <3>3
  <2> QED
    BY <2>1, <2>7
<1> QED
  BY <1>1, LeaveInvariant, PTL DEF DecisionIsFinal, Spec

\* Every step but an admin's save moves between a balance and its employee's
\* requests exactly what one request was charged or refunded.
THEOREM BalancedLedger == Spec => LedgerBalanced
<1> DEFINE Kept(e, t) ==
             /\ balance'[e][t] = balance[e][t]
             /\ \A r \in Requests :
                   form[r] # None /\ form[r].emp = e /\ form[r].type = t
                     => Charge(r)' = Charge(r)
           Moved(e, t) ==
             \E r \in Requests :
                /\ form[r] # None /\ form[r].emp = e /\ form[r].type = t
                /\ balance'[e][t] + Charge(r)' = balance[e][t] + Charge(r)
                /\ \A q \in Requests \ {r} : Charge(q)' = Charge(q)
           Balanced == \A e \in Employees, t \in Tracked :
          \/ page[e][t] # None /\ page'[e][t] = None
          \/ /\ balance'[e][t] = balance[e][t]
             /\ \A r \in Requests :
                   form[r] # None /\ form[r].emp = e /\ form[r].type = t
                     => Charge(r)' = Charge(r)
          \/ \E r \in Requests :
                /\ form[r] # None /\ form[r].emp = e /\ form[r].type = t
                /\ balance'[e][t] + Charge(r)' = balance[e][t] + Charge(r)
                /\ \A q \in Requests \ {r} : Charge(q)' = Charge(q)
<1>1. LeaveInv /\ [Next]_vars => [Balanced]_vars
  <2> SUFFICES ASSUME LeaveInv, [Next]_vars,
                      NEW e \in Employees, NEW t \in Tracked
               PROVE  (page[e][t] # None /\ page'[e][t] = None) \/ Kept(e, t) \/ Moved(e, t)
    OBVIOUS
  <2> USE DEF LeaveInv
  <2>1. CASE UNCHANGED <<status, form, balance>>
    BY <2>1 DEF Charge
  <2>2. ASSUME NEW s \in Sessions, CreateInsert(s) PROVE Kept(e, t)
    BY <2>2 DEF CreateInsert, Charge, TypeOK
  <2>3. ASSUME NEW s \in Sessions, CancelPending(s) PROVE Kept(e, t)
    BY <2>3 DEF CancelPending, Charge, TypeOK
  <2>4. ASSUME NEW s \in Sessions, ReviewReject(s) PROVE Kept(e, t)
    BY <2>4 DEF ReviewReject, Charge, TypeOK
  <2>5. ASSUME NEW r \in Requests, form[r] \in Form,
               NEW delta \in Int,
               \/ /\ status[r] = "pending"
                  /\ status' = [status EXCEPT ![r] = "approved"]
                  /\ delta = - Cost(form[r])
               \/ /\ status[r] = "approved"
                  /\ status' = [status EXCEPT ![r] = "cancelled"]
                  /\ delta = Cost(form[r]),
               balance' = ChargedBalance(form[r], delta),
               UNCHANGED form
        PROVE  Kept(e, t) \/ Moved(e, t)
    <3> DEFINE f == form[r]
    <3>1. f.emp \in Employees /\ f # None /\ Cost(f) \in Nat
      BY <2>5, FormFacts, LeaveAssumption
    <3>2. \A q \in Requests \ {r} : Charge(q)' = Charge(q)
      BY <2>5 DEF Charge, TypeOK
    <3>3. CASE f.emp = e /\ f.type = t
      <4>1. balance'[e][t] = balance[e][t] + delta
        BY <2>5, <3>3 DEF ChargedBalance, tracks_balance, TypeOK
      <4>2. Charge(r)' = Charge(r) - delta
        <5>1. \/ Charge(r) = 0 /\ Charge(r)' = Cost(f) /\ delta = - Cost(f)
              \/ Charge(r) = Cost(f) /\ Charge(r)' = 0 /\ delta = Cost(f)
          <6>1. UNCHANGED Cost(form[r])
            BY <2>5
          <6>2. CASE status[r] = "pending"
            BY <2>5, <6>1, <6>2 DEF Charge, TypeOK
          <6>3. CASE status[r] = "approved"
            BY <2>5, <6>1, <6>3 DEF Charge, TypeOK
          <6> QED
            BY <2>5, <6>2, <6>3
        <5> QED
          BY <3>1, <5>1
      <4>3. balance[e][t] \in Int /\ Charge(r) \in Int
        BY <2>5, <3>1 DEF Charge, TypeOK
      <4>4. balance'[e][t] + Charge(r)' = balance[e][t] + Charge(r)
        BY <2>5, <4>1, <4>2, <4>3
      <4> QED
        BY <3>1, <3>2, <3>3, <4>4
    <3>4. CASE ~(f.emp = e /\ f.type = t)
      <4>1. balance'[e][t] = balance[e][t]
        BY <2>5, <3>1, <3>4 DEF ChargedBalance, tracks_balance, TypeOK
      <4> QED
        BY <3>2, <3>4, <4>1
    <3> QED
      BY <3>3, <3>4
  <2>6. ASSUME NEW s \in Sessions, ReviewWrite(s) PROVE Kept(e, t) \/ Moved(e, t)
    <3>1. /\ req[s] \in Requests
          /\ form[req[s]] \in Form
          /\ status[req[s]] = "pending"
      BY <2>6 DEF ReviewWrite, RowsKnown, RequestLocks, RowSteps, LockSteps
    <3>2. - Cost(form[req[s]]) \in Int
      BY <3>1, FormFacts
    <3>3. CASE UNCHANGED <<status, balance>>
      BY <2>1, <2>6, <3>3 DEF ReviewWrite, Charge
    <3> QED
      BY <2>5, <2>6, <3>1, <3>2, <3>3 DEF ReviewWrite
  <2>7. ASSUME NEW s \in Sessions, RevokeWrite(s) PROVE Kept(e, t) \/ Moved(e, t)
    <3>1. /\ req[s] \in Requests
          /\ form[req[s]] \in Form
          /\ status[req[s]] = "approved"
      BY <2>7 DEF RevokeWrite, RowsKnown, RequestLocks, RowSteps, LockSteps
    <3>2. Cost(form[req[s]]) \in Int
      BY <3>1, FormFacts
    <3> QED
      BY <2>5, <2>7, <3>1, <3>2 DEF RevokeWrite
  <2>8. ASSUME NEW x \in Edited, NEW y \in Tracked, SavePage(x, y)
        PROVE  (page[e][t] # None /\ page'[e][t] = None) \/ Kept(e, t)
    <3>1. x \in Employees
      BY LeaveAssumption
    <3>2. CASE x = e /\ y = t
      BY <2>8, <3>2 DEF SavePage, TypeOK
    <3>3. CASE ~(x = e /\ y = t)
      BY <2>8, <3>1, <3>3 DEF SavePage, TypeOK, Charge
    <3> QED
      BY <3>2, <3>3
  <2>9. CASE Environment
    <3>1. \/ UNCHANGED <<status, form, balance>>
          \/ \E x \in Edited, y \in Tracked : SavePage(x, y)
      BY <2>9 DEF Environment, ClockInUpsert, AbsenceWrite, ClosePeriod,
           ReopenPeriod, OpenPage
    <3> QED
      BY <2>1, <2>8, <3>1
  <2>10. ASSUME NEW s \in Sessions, Begin(s) \/ Advance(s)
         PROVE  \/ UNCHANGED <<status, form, balance>>
                \/ CreateInsert(s)
                \/ CancelPending(s)
                \/ ReviewReject(s)
                \/ ReviewWrite(s)
                \/ RevokeWrite(s)
    BY <2>10 DEF Begin, CreateBegin, ReviewBegin, RevokeBegin, Advance,
         CreateAssertEditable, CreateReadBalance, CreateAssertSufficient,
         ReviewAssertEditable, ReviewLock, ReviewDeduct,
         RevokeAssertEditable, RevokeLock
  <2>11. CASE UNCHANGED vars
    BY <2>1, <2>11 DEF vars
  <2> QED
    BY <2>1, <2>2, <2>3, <2>4, <2>6, <2>7, <2>9, <2>10, <2>11 DEF Next
<1> QED
  BY <1>1, LeaveInvariant, PTL DEF LedgerBalanced, Spec

(***************************************************************************)
(* Leave implements LeaveLedger: the commit of each handler is one action  *)
(* of the ledger, and every other statement changes nothing it can see.    *)
(***************************************************************************)
\* What the ledger sees of a request that has a row.
LEMMA ClaimedFacts ==
    ASSUME LeaveInv, NEW r \in Requests, status[r] # "none"
    PROVE  form[r] \in Form /\ Claimed[r] = Claim(form[r])
<1>1. form[r] \in Form
  BY DEF LeaveInv, RowsKnown
<1> QED
  BY <1>1, LeaveAssumption DEF Claimed

\* Claims that share a day are forms that overlap.
LEMMA SharesFacts ==
    ASSUME NEW f \in Form, NEW g \in Form, Ledger!Shares(Claim(f), Claim(g))
    PROVE  Overlaps(f, g)
<1>1. PICK d : d \in f.first .. f.last /\ d \in g.first .. g.last
  BY DEF Ledger!Shares, Claim, Span
<1>2. /\ f.first \in Int /\ f.last \in Int /\ g.first \in Int /\ g.last \in Int
      /\ f.emp = g.emp
  BY LeaveAssumption DEF Form, Day, Ledger!Shares, Claim
<1> QED
  BY <1>1, <1>2 DEF Overlaps

\* Statements that leave the tables of the ledger alone are stuttering steps.
LEMMA LedgerStutters ==
    ASSUME UNCHANGED <<status, form, balance, entry, page>>
    PROVE  UNCHANGED Ledger!vars
<1>1. Claimed' = Claimed
  BY DEF Claimed, Claim
<1> QED
  BY <1>1 DEF Ledger!vars

\* The INSERT of create_request is the ledger's Submit.
LEMMA InsertSubmits ==
    ASSUME LeaveInv, NEW s \in Sessions, CreateInsert(s)
    PROVE  [Ledger!Next]_(Ledger!vars)
<1>1. CASE UNCHANGED <<status, form>>
  BY <1>1, LedgerStutters DEF CreateInsert, days
<1>2. CASE ~UNCHANGED <<status, form>>
  <2> DEFINE f == draft[s]
  <2>1. PICK r \in Requests : /\ status[r] = "none"
                              /\ status' = [status EXCEPT ![r] = "pending"]
                              /\ form' = [form EXCEPT ![r] = f]
    BY <1>2 DEF CreateInsert
  <2>2. /\ f \in Form
        /\ ~has_overlapping_request(f)
        /\ UNCHANGED <<balance, entry, page>>
    BY <1>2 DEF CreateInsert, ViolatesExclusion, LeaveInv, RowsKnown, CreateSteps, days
  <2>3. ASSUME NEW q \in Requests, status[q] \in {"pending", "approved"}
        PROVE  ~Ledger!Shares(Claimed[q], Claim(f))
    <3>1. form[q] \in Form /\ Claimed[q] = Claim(form[q])
      BY <2>3, ClaimedFacts
    <3>2. ~Overlaps(form[q], f)
      BY <2>2, <2>3 DEF has_overlapping_request, Live
    <3> QED
      BY <2>2, <3>1, <3>2, SharesFacts
  <2>4. Claimed' = [Claimed EXCEPT ![r] = Claim(f)]
    <3>1. f # None
      BY <2>2, LeaveAssumption
    <3>2. \A q \in Requests : form'[q] = IF q = r THEN f ELSE form[q]
      BY <2>1 DEF LeaveInv, TypeOK
    <3>3. Claimed' = [q \in Requests |-> IF form'[q] = None THEN None ELSE Claim(form'[q])]
      BY DEF Claimed, Claim
    <3> HIDE DEF f
    <3> QED
      BY <3>1, <3>2, <3>3 DEF Claimed
  <2>5. Ledger!Submit(r, Claim(f))
    BY <2>1, <2>2, <2>3, <2>4 DEF Ledger!Submit
  <2> QED
    BY <2>2, <2>5 DEF Ledger!Next
<1> QED
  BY <1>1, <1>2

\* A withdrawal and a rejection decide a pending claim and move nothing.
LEMMA DropDecides ==
    ASSUME LeaveInv, NEW s \in Sessions, CancelPending(s) \/ ReviewReject(s)
    PROVE  [Ledger!Next]_(Ledger!vars)
<1>1. /\ UNCHANGED <<form, balance, entry, page>>
      /\ \/ UNCHANGED status
         \/ \E r \in Requests, new \in {"cancelled", "rejected"} :
              /\ status[r] = "pending"
              /\ status' = [status EXCEPT ![r] = new]
  <2>1. CASE CancelPending(s)
    BY <2>1 DEF CancelPending, days
  <2>2. CASE ReviewReject(s)
    <3>1. req[s] \in Requests
      BY <2>2 DEF ReviewReject, LeaveInv, RowsKnown, RowSteps
    <3>2. CASE status[req[s]] = "pending"
      BY <2>2, <3>1, <3>2 DEF ReviewReject, days
    <3>3. CASE status[req[s]] # "pending"
      BY <2>2, <3>1, <3>3 DEF ReviewReject, days, LeaveInv, TypeOK
    <3> QED
      BY <3>2, <3>3
  <2> QED
    BY <2>1, <2>2
<1>2. CASE UNCHANGED status
  BY <1>1, <1>2, LedgerStutters
<1>3. ASSUME NEW r \in Requests, NEW new \in {"cancelled", "rejected"},
             status[r] = "pending", status' = [status EXCEPT ![r] = new]
      PROVE  Ledger!Withdraw(r) \/ Ledger!Reject(r)
  <2>1. Claimed' = Claimed
    BY <1>1 DEF Claimed, Claim
  <2> QED
    BY <1>1, <1>3, <2>1 DEF Ledger!Withdraw, Ledger!Reject, Ledger!Decide
<1> QED
  BY <1>1, <1>2, <1>3 DEF Ledger!Next

\* What a charge of Leave is in the ledger.
LEMMA ChargeMoves ==
    ASSUME NEW f \in Form, NEW delta, balance' = ChargedBalance(f, delta)
    PROVE  Ledger!Move(Claim(f), delta)
BY DEF Ledger!Move, Claim, ChargedBalance, tracks_balance

\* The commit of an approval is the ledger's Approve: the locked row is still
\* pending, the locked balance still covers the cost, and every row that was
\* read is still there to be updated.
LEMMA ApprovalCommits ==
    ASSUME LeaveInv, NEW s \in Sessions, ReviewWrite(s)
    PROVE  [Ledger!Next]_(Ledger!vars)
<1> DEFINE r == req[s]
           f == form[r]
<1>1. CASE UNCHANGED <<status, balance, entry>>
  BY <1>1, LedgerStutters DEF ReviewWrite
<1>2. CASE ~UNCHANGED <<status, balance, entry>>
  <2>1. /\ status' = [status EXCEPT ![r] = "approved"]
        /\ balance' = ChargedBalance(f, - Cost(f))
        /\ entry' = MarkedDays(f, seen[s])
        /\ UNCHANGED <<form, page>>
        /\ pc[s] = "review_write"
    BY <1>2 DEF ReviewWrite
  <2>2. r \in Requests /\ status[r] = "pending"
    BY <2>1 DEF LeaveInv, RowsKnown, RequestLocks, RowSteps, LockSteps
  <2>3. /\ f \in Form /\ Claimed[r] = Claim(f)
        /\ f.emp \in Employees /\ Span(f) \subseteq Day
    BY <2>2, ClaimedFacts, FormFacts
  <2>4. Claim(f).type = f.type /\ Claim(f).emp = f.emp
        /\ Claim(f).cost = Cost(f) /\ Claim(f).days = Span(f)
    BY DEF Claim
  <2>5. Claimed' = Claimed
    BY <2>1 DEF Claimed, Claim
  <2>6. f.type \in Tracked => balance[f.emp][f.type] >= Cost(f)
    BY <2>1, <2>3 DEF LeaveInv, BalanceLocks, HoldsBalance
  <2>7. Ledger!Move(Claim(f), - Cost(f))
    BY <2>1, <2>3, ChargeMoves
  <2>8. entry' = [entry EXCEPT ![f.emp] = [d \in Day |->
                    IF d \in Span(f) THEN [clocked |-> @[d].clocked, attendance |-> f.type]
                                     ELSE @[d]]]
    <3>1. \A d \in Day : d \in seen[s] => HasRow(f.emp, d)
      BY <2>1 DEF LeaveInv, SeenRowsStay
    <3> HIDE DEF f
    <3> QED
      BY <2>1, <3>1 DEF MarkedDays
  <2>9. Ledger!Decide(r, "pending", "approved")
    BY <2>1, <2>2, <2>5 DEF Ledger!Decide
  <2>10. Ledger!Approve(r)
    <3> HIDE DEF f, r
    <3> QED
      BY <2>3, <2>4, <2>6, <2>7, <2>8, <2>9 DEF Ledger!Approve
  <2> QED
    BY <2>2, <2>10 DEF Ledger!Next
<1> QED
  BY <1>1, <1>2

\* The commit of a revoke is the ledger's Revoke.
LEMMA RevokeCommits ==
    ASSUME LeaveInv, NEW s \in Sessions, RevokeWrite(s)
    PROVE  [Ledger!Next]_(Ledger!vars)
<1> DEFINE r == req[s]
           f == form[r]
<1>1. /\ status' = [status EXCEPT ![r] = "cancelled"]
      /\ balance' = ChargedBalance(f, Cost(f))
      /\ entry' = ClearedDays(f)
      /\ UNCHANGED <<form, page>>
      /\ pc[s] = "revoke_write"
  BY DEF RevokeWrite
<1>2. r \in Requests /\ status[r] = "approved"
  BY <1>1 DEF LeaveInv, RowsKnown, RequestLocks, RowSteps, LockSteps
<1>3. f \in Form /\ Claimed[r] = Claim(f)
  BY <1>2, ClaimedFacts
<1>4. Claim(f).type = f.type /\ Claim(f).emp = f.emp
      /\ Claim(f).cost = Cost(f) /\ Claim(f).days = Span(f)
  BY DEF Claim
<1>5. Claimed' = Claimed
  BY <1>1 DEF Claimed, Claim
<1>6. Ledger!Move(Claim(f), Cost(f))
  BY <1>1, <1>3, ChargeMoves
<1>7. entry' = [entry EXCEPT ![f.emp] = [d \in Day |->
                  IF d \in Span(f) /\ ~@[d].clocked /\ @[d].attendance = f.type
                  THEN [clocked |-> FALSE, attendance |-> NoRow]
                  ELSE @[d]]]
  BY <1>1 DEF ClearedDays
<1>8. Ledger!Decide(r, "approved", "cancelled")
  BY <1>1, <1>2, <1>5 DEF Ledger!Decide
<1>9. Ledger!Revoke(r)
  <2> HIDE DEF f, r
  <2> QED
    BY <1>3, <1>4, <1>6, <1>7, <1>8 DEF Ledger!Revoke
<1> QED
  BY <1>2, <1>9 DEF Ledger!Next

\* A clock-in or an absence mark is the ledger's Attend, whatever it writes.
LEMMA OthersAttend ==
    ASSUME LeaveInv, NEW e \in Employees, NEW d \in Day,
           \/ ClockInUpsert(e, d)
           \/ \E a \in LeaveTypes \cup OtherMarks : AbsenceWrite(e, d, a)
    PROVE  Ledger!Attend(e, d)
<1>1. entry \in [Employees -> [Day -> [clocked : BOOLEAN, attendance : Attendance]]]
  BY DEF LeaveInv, TypeOK
<1>2. PICK row : /\ entry' = [entry EXCEPT ![e][d] = row]
                 /\ row.attendance # NoRow
                 /\ entry[e][d].clocked => row.clocked
  <2>1. CASE ClockInUpsert(e, d)
    <3> DEFINE new == [clocked |-> TRUE, attendance |-> Worked]
    <3>1. new.clocked = TRUE /\ new.attendance # NoRow
      BY DEF Worked, NoRow
    <3>2. entry' = [entry EXCEPT ![e][d] = new]
      BY <2>1 DEF ClockInUpsert
    <3> HIDE DEF new
    <3> QED
      BY <3>1, <3>2
  <2>2. ASSUME NEW a \in LeaveTypes \cup OtherMarks, AbsenceWrite(e, d, a)
        PROVE  \E row : /\ entry' = [entry EXCEPT ![e][d] = row]
                        /\ row.attendance # NoRow
                        /\ entry[e][d].clocked => row.clocked
    <3> DEFINE new == [entry[e][d] EXCEPT !.attendance = a]
    <3>1. entry[e][d] \in [clocked : BOOLEAN, attendance : Attendance]
      BY <1>1
    <3>2. new.attendance = a /\ new.clocked = entry[e][d].clocked
      BY <3>1
    <3>3. entry' = [entry EXCEPT ![e][d] = new]
      BY <2>2 DEF AbsenceWrite
    <3>4. a # NoRow
      BY LeaveAssumption
    <3> HIDE DEF new
    <3> QED
      BY <3>2, <3>3, <3>4
  <2> QED
    BY <2>1, <2>2
<1>3. entry'[e][d] = row
  BY <1>1, <1>2
<1>4. Claimed' = Claimed
  BY DEF ClockInUpsert, AbsenceWrite, Claimed, Claim
<1> QED
  BY <1>2, <1>3, <1>4 DEF Ledger!Attend, ClockInUpsert, AbsenceWrite

\* Opening and saving the edit page are the ledger's Open and Save.
LEMMA PageEdits ==
    ASSUME LeaveInv, NEW e \in Edited, NEW t \in Tracked,
           OpenPage(e, t) \/ SavePage(e, t)
    PROVE  Ledger!Open(e, t) \/ Ledger!Save(e, t)
<1>1. Claimed' = Claimed
  BY DEF OpenPage, SavePage, Claimed, Claim
<1>2. CASE OpenPage(e, t)
  BY <1>1, <1>2 DEF OpenPage, Ledger!Open, days
<1>3. CASE SavePage(e, t)
  BY <1>1, <1>3 DEF SavePage, Ledger!Save, days
<1> QED
  BY <1>2, <1>3

\* The tables of Leave change as the atomic ledger allows: for any number of
\* employees, requests, sessions and days, whatever handlers overlap.
THEOREM ImplementsLedger == Spec => LedgerSpec
<1>1. Init => Ledger!Init
  BY DEF Init, Ledger!Init, Claimed
<1>2. LeaveInv /\ [Next]_vars => [Ledger!Next]_(Ledger!vars)
  <2> SUFFICES ASSUME LeaveInv, [Next]_vars PROVE [Ledger!Next]_(Ledger!vars)
    OBVIOUS
  <2>1. ASSUME NEW s \in Sessions, Begin(s) \/ Advance(s)
        PROVE  \/ UNCHANGED <<status, form, balance, entry, page>>
               \/ CreateInsert(s)
               \/ CancelPending(s) \/ ReviewReject(s)
               \/ ReviewWrite(s)
               \/ RevokeWrite(s)
    BY <2>1 DEF Begin, CreateBegin, ReviewBegin, RevokeBegin, Advance,
         CreateAssertEditable, CreateReadBalance, CreateAssertSufficient,
         ReviewAssertEditable, ReviewLock, ReviewDeduct,
         RevokeAssertEditable, RevokeLock, days
  <2>2. ASSUME NEW s \in Sessions, Begin(s) \/ Advance(s)
        PROVE  [Ledger!Next]_(Ledger!vars)
    BY <2>1, <2>2, LedgerStutters, InsertSubmits, DropDecides,
       ApprovalCommits, RevokeCommits
  <2>3. CASE Environment
    <3>1. ASSUME NEW e \in Employees, NEW d \in Day,
                 \/ ClockInUpsert(e, d)
                 \/ \E a \in LeaveTypes \cup OtherMarks : AbsenceWrite(e, d, a)
          PROVE  Ledger!Next
      BY <3>1, OthersAttend DEF Ledger!Next
    <3>2. ASSUME NEW p \in Periods, ClosePeriod(p) \/ ReopenPeriod(p)
          PROVE  UNCHANGED Ledger!vars
      BY <3>2, LedgerStutters DEF ClosePeriod, ReopenPeriod
    <3>3. ASSUME NEW e \in Edited, NEW t \in Tracked, OpenPage(e, t) \/ SavePage(e, t)
          PROVE  Ledger!Next
      BY <3>3, PageEdits DEF Ledger!Next
    <3> QED
      BY <2>3, <3>1, <3>2, <3>3 DEF Environment
  <2>4. CASE UNCHANGED vars
    BY <2>4, LedgerStutters DEF vars
  <2> QED
    BY <2>2, <2>3, <2>4 DEF Next
<1> QED
  BY <1>1, <1>2, LeaveInvariant, PTL DEF Spec, LedgerSpec, Ledger!Spec
=============================================================================
