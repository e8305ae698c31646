-------------------------- MODULE TimesheetProofs --------------------------
(***************************************************************************)
(* Proofs about Timesheet, for any times, settings, shifts and number of   *)
(* sessions.                                                               *)
(*                                                                         *)
(* TypeOK is not inductive by itself: what a handler writes comes from its *)
(* job, so SheetInv says what a job of each kind has read (Filled) and     *)
(* that a free id is left whenever the date has no row. Gate, Logged and   *)
(* CoherenceInv are added to it for the action properties.                 *)
(***************************************************************************)
EXTENDS Timesheet, TLAPS

Fixing == {"fix_read", "fix_check", "fix_log", "fix_write",
           "new_read", "new_insert", "new_log"}

\* What a handler has by the time it is about to do the step.
Filled(j) ==
    /\ j.at \in {"in_read", "in_write", "out_write"} \cup Fixing => j.in \in Times
    /\ j.at \in {"out_read", "out_write"} \cup Fixing => j.out \in Times
    /\ j.at \in {"fix_check", "fix_log", "fix_write", "new_log"} => j.id # 0
    /\ j.at \in {"review_check", "review_write"} =>
           j.choice \in {"approved", "rejected"}
    /\ j.at \in {"mark_read", "mark_write", "clear_write"} => j.choice \in Absences

Accounted(row) ==
    /\ row.hours.ot > 0 => row.ot_status # "none"
    /\ row.ot_status = "pending" => row.hours.ot > 0

JobsFilled == \A s \in Sessions : Filled(job[s])
RoomLeft == entry = None => lastId < MaxIds
Logged == \A s \in Sessions : job[s].at = "fix_write" => LogOf(s) \in logs

SheetInv ==
    /\ TypeOK
    /\ JobsFilled
    /\ RoomLeft
    /\ OvertimeAccounted

(***************************************************************************)
(* The helpers.                                                            *)
(***************************************************************************)
LEMMA MinutesTyped ==
    ASSUME NEW in \in Times, NEW out \in Times, NEW f \in Settings
    PROVE  calculate(in, out, f) \in Hours
  <1> USE TimesheetAssumption
  <1>1. in \in Int /\ out \in Int /\ f.break \in Int /\ f.threshold \in Nat
    BY DEF Setting, Midnight
  <1> DEFINE net == AtLeastZero(out - in - f.break)
  <1>2. net \in Nat
    BY <1>1 DEF AtLeastZero
  <1>3. Lesser(net, f.threshold) \in Nat
    BY <1>1, <1>2 DEF Lesser
  <1>4. AtLeastZero(net - f.threshold) \in Nat
    BY <1>1, <1>2 DEF AtLeastZero
  <1> QED BY <1>2, <1>3, <1>4 DEF calculate, Hours

LEMMA StatusTyped ==
    ASSUME NEW ot \in Nat, NEW f \in Settings
    PROVE  /\ ot_status_for_minutes(ot, f) \in OtStatuses
           /\ ot > 0 => ot_status_for_minutes(ot, f) # "none"
           /\ ot_status_for_minutes(ot, f) = "pending" => ot > 0
  BY DEF ot_status_for_minutes, OtStatuses

LEMMA AttendanceTyped ==
    ASSUME NEW in, NEW out, NEW shift, NEW f
    PROVE  evaluate_attendance(in, out, shift, f) \in Worked
  BY DEF evaluate_attendance, Worked

LEMMA IdleTyped == Idle \in Job /\ Filled(Idle)
  BY TimesheetAssumption DEF Idle, Job, Steps, Time, Choices, Filled, Fixing, WriteSteps

\* What clock-out and correction write.
LEMMA ClockedOutTyped ==
    ASSUME SheetInv, NEW s \in Sessions, job[s].at = "out_write", entry # None,
           NEW shift \in Shifts, NEW f \in Settings
    PROVE  /\ ClockedOut(s, entry, shift, f) \in Entry
           /\ Accounted(ClockedOut(s, entry, shift, f))
  <1> DEFINE hours == calculate(job[s].in, job[s].out, f)
             status == ot_status_for_minutes(hours.ot, f)
             attendance == evaluate_attendance(job[s].in, job[s].out, shift, f)
  <1>1. job[s].in \in Times /\ job[s].out \in Times
    BY DEF SheetInv, JobsFilled, Filled
  <1>2. hours \in Hours
    BY <1>1, MinutesTyped
  <1>3. hours.ot \in Nat
    BY <1>2 DEF Hours
  <1>4. /\ status \in OtStatuses
        /\ hours.ot > 0 => status # "none"
        /\ status = "pending" => hours.ot > 0
    BY <1>3, StatusTyped
  <1>5. attendance \in Worked
    BY AttendanceTyped
  <1>6. entry \in Entry
    BY DEF SheetInv, TypeOK
  <1> HIDE DEF hours, status, attendance
  <1>7. ClockedOut(s, entry, shift, f) =
          [entry EXCEPT !.out = job[s].out, !.hours = hours,
                        !.ot_status = status, !.attendance = attendance]
    BY DEF ClockedOut, hours, status, attendance
  <1>8. ClockedOut(s, entry, shift, f) \in Entry
    BY <1>1, <1>2, <1>4, <1>5, <1>6, <1>7 DEF Entry, Time
  <1>9. /\ ClockedOut(s, entry, shift, f).hours = hours
        /\ ClockedOut(s, entry, shift, f).ot_status = status
    BY <1>6, <1>7 DEF Entry
  <1> QED BY <1>4, <1>8, <1>9 DEF Accounted

LEMMA CorrectedTyped ==
    ASSUME SheetInv, NEW s \in Sessions, job[s].at \in Fixing, NEW row \in Entry,
           NEW shift \in Shifts, NEW f \in Settings
    PROVE  /\ Corrected(s, row, shift, f) \in Entry
           /\ Corrected(s, row, shift, f).id = row.id
           /\ Accounted(Corrected(s, row, shift, f))
  <1> DEFINE hours == calculate(job[s].in, job[s].out, f)
             status == ot_status_for_minutes(hours.ot, f)
             attendance == evaluate_attendance(job[s].in, job[s].out, shift, f)
  <1>1. job[s].in \in Times /\ job[s].out \in Times
    BY DEF SheetInv, JobsFilled, Filled
  <1>2. hours \in Hours
    BY <1>1, MinutesTyped
  <1>3. hours.ot \in Nat
    BY <1>2 DEF Hours
  <1>4. /\ status \in OtStatuses
        /\ hours.ot > 0 => status # "none"
        /\ status = "pending" => hours.ot > 0
    BY <1>3, StatusTyped
  <1>5. attendance \in Worked
    BY AttendanceTyped
  <1> HIDE DEF hours, status, attendance
  <1>7. Corrected(s, row, shift, f) =
          [row EXCEPT !.in = job[s].in, !.out = job[s].out, !.hours = hours,
                      !.ot_status = status, !.reviewed = FALSE,
                      !.attendance = attendance]
    BY DEF Corrected, hours, status, attendance
  <1>8. Corrected(s, row, shift, f) \in Entry
    BY <1>1, <1>2, <1>4, <1>5, <1>7 DEF Entry, Time
  <1>9. /\ Corrected(s, row, shift, f).hours = hours
        /\ Corrected(s, row, shift, f).ot_status = status
        /\ Corrected(s, row, shift, f).id = row.id
    BY <1>7 DEF Entry
  <1> QED BY <1>4, <1>8, <1>9 DEF Accounted

LEMMA NewRowTyped ==
    ASSUME SheetInv, entry = None
    PROVE  NewRow \in Entry /\ NewRow.id = lastId + 1 /\ Accounted(NewRow)
  <1>1. lastId + 1 \in 1..MaxIds
    BY TimesheetAssumption DEF SheetInv, RoomLeft, TypeOK
  <1>2. NoHours \in Hours
    BY DEF NoHours, Hours
  <1>3. NewRow \in Entry
    BY <1>1, <1>2 DEF NewRow, Entry, Time, OtStatuses, Worked
  <1> QED BY <1>3 DEF NewRow, NoHours, Accounted

(***************************************************************************)
(* The shapes of a step, and what each keeps of the invariant.             *)
(***************************************************************************)
LEMMA ReadKeeps ==
    ASSUME SheetInv, NEW s \in Sessions, NEW j \in Job, Filled(j), Read(s, j),
           fresh' \subseteq Sessions
    PROVE  SheetInv'
  <1>1. TypeOK'
    BY DEF SheetInv, TypeOK, Read, tables
  <1>2. JobsFilled'
    BY DEF SheetInv, TypeOK, JobsFilled, Read
  <1>3. RoomLeft' /\ OvertimeAccounted'
    BY DEF SheetInv, RoomLeft, OvertimeAccounted, Read, tables
  <1> QED BY <1>1, <1>2, <1>3 DEF SheetInv

\* A handler that returns, whatever it has written.
LEMMA ReturnKeeps ==
    ASSUME SheetInv, NEW s \in Sessions, Return(s),
           UNCHANGED now, closed' \in BOOLEAN,
           entry' \in Entry \cup {None}, lastId' \in 0..MaxIds, logs' \subseteq Log,
           RoomLeft', entry' # None => Accounted(entry')
    PROVE  SheetInv'
  <1>1. TypeOK'
    BY IdleTyped DEF SheetInv, TypeOK, Return
  <1>2. JobsFilled'
    BY IdleTyped DEF SheetInv, TypeOK, JobsFilled, Return
  <1>3. OvertimeAccounted'
    BY DEF OvertimeAccounted, Accounted
  <1> QED BY <1>1, <1>2, <1>3 DEF SheetInv

LEMMA RefuseKeeps ==
    ASSUME SheetInv, NEW s \in Sessions, Refuse(s)
    PROVE  SheetInv'
  <1>1. UNCHANGED <<now, entry, lastId, logs, closed>> /\ Return(s)
    BY DEF Refuse, tables
  <1>2. RoomLeft' /\ (entry' # None => Accounted(entry'))
    BY <1>1 DEF SheetInv, RoomLeft, OvertimeAccounted, Accounted
  <1>3. /\ closed' \in BOOLEAN /\ entry' \in Entry \cup {None}
        /\ lastId' \in 0..MaxIds /\ logs' \subseteq Log
    BY <1>1 DEF SheetInv, TypeOK
  <1> QED BY <1>1, <1>2, <1>3, ReturnKeeps

LEMMA UpdateKeeps ==
    ASSUME SheetInv, NEW s \in Sessions, NEW new, UpdateRow(s, new),
           entry # None => new \in Entry /\ Accounted(new)
    PROVE  SheetInv'
  <1>1. UNCHANGED <<now, lastId, logs, closed>> /\ Return(s)
    BY DEF UpdateRow
  <1>2. CASE StillThere(s)
    <2>1. entry' = new /\ new \in Entry /\ Accounted(new)
      BY <1>2 DEF UpdateRow, StillThere
    <2>2. new # None
      BY <2>1, TimesheetAssumption
    <2>3. RoomLeft'
      BY <2>1, <2>2 DEF RoomLeft
    <2>4. closed' \in BOOLEAN /\ lastId' \in 0..MaxIds /\ logs' \subseteq Log
      BY <1>1 DEF SheetInv, TypeOK
    <2> QED BY <1>1, <2>1, <2>3, <2>4, ReturnKeeps
  <1>3. CASE ~StillThere(s)
    <2>1. entry' = entry
      BY <1>3 DEF UpdateRow
    <2>2. Refuse(s)
      BY <1>1, <2>1 DEF Refuse, tables
    <2> QED BY <2>2, RefuseKeeps
  <1> QED BY <1>2, <1>3

LEMMA InsertKeeps ==
    ASSUME SheetInv, entry = None, NEW s \in Sessions,
           NEW row \in Entry, row.id = lastId + 1, Accounted(row), Insert(row)
    PROVE  /\ entry' = row /\ lastId' = row.id /\ row.id \in 1..MaxIds
           /\ entry' # None /\ RoomLeft'
           /\ UNCHANGED <<now, logs, closed>>
           /\ Return(s) => SheetInv'
  <1>1. entry' = row /\ lastId' = row.id /\ UNCHANGED <<now, logs, closed>>
    BY DEF Insert
  <1>2. entry' # None /\ RoomLeft'
    BY <1>1, TimesheetAssumption DEF RoomLeft
  <1>3. row.id \in 1..MaxIds
    BY DEF Entry
  <1>4. lastId' \in 0..MaxIds
    BY <1>1, <1>3, TimesheetAssumption
  <1>5. closed' \in BOOLEAN /\ logs' \subseteq Log
    BY <1>1 DEF SheetInv, TypeOK
  <1>6. ASSUME Return(s) PROVE SheetInv'
    BY <1>1, <1>2, <1>4, <1>5, <1>6, ReturnKeeps
  <1> QED BY <1>1, <1>2, <1>3, <1>6
(***************************************************************************)
(* SheetInv is an invariant.                                               *)
(***************************************************************************)
LEMMA SheetInit == Init => SheetInv
  <1> SUFFICES ASSUME Init PROVE SheetInv
    OBVIOUS
  <1>1. TypeOK
    <2>1. job \in [Sessions -> Job]
      BY IdleTyped DEF Init
    <2>2. /\ now \in Times /\ entry = None /\ lastId \in 0..MaxIds
          /\ logs = {} /\ closed = FALSE /\ fresh = {} /\ before = {}
      BY TimesheetAssumption DEF Init
    <2> QED BY <2>1, <2>2 DEF TypeOK
  <1>2. JobsFilled
    BY IdleTyped DEF Init, JobsFilled
  <1>3. RoomLeft /\ OvertimeAccounted
    BY TimesheetAssumption DEF Init, RoomLeft, OvertimeAccounted
  <1> QED BY <1>1, <1>2, <1>3 DEF SheetInv

LEMMA BeginKeeps ==
    ASSUME SheetInv, NEW s \in Sessions, NEW j \in Job, Filled(j), Begin(s, j)
    PROVE  SheetInv'
  <1>1. Read(s, j) /\ fresh' \subseteq Sessions
    BY DEF Begin, SheetInv, TypeOK
  <1> QED BY <1>1, ReadKeeps

LEMMA ReadRowKeeps ==
    ASSUME SheetInv, NEW s \in Sessions, NEW j \in Job, Filled(j), ReadRow(s, j)
    PROVE  SheetInv'
  <1>1. Read(s, j) /\ fresh' \subseteq Sessions
    BY DEF ReadRow, SheetInv, TypeOK
  <1> QED BY <1>1, ReadKeeps

LEMMA ClockInKeeps ==
    ASSUME SheetInv, NEW s \in Sessions,
           ClockInBegin(s) \/ ClockInRead(s) \/ ClockInWrite(s)
    PROVE  SheetInv'
  <1> USE DEF Job, Steps, WriteSteps, Choices, Time, Fixing, Filled
  <1>1. job[s] \in Job /\ Filled(job[s])
    BY DEF SheetInv, TypeOK, JobsFilled
  <1>2. CASE ClockInBegin(s)
    <2> DEFINE j == [Idle EXCEPT !.at = "in_read", !.in = now]
    <2>1. now \in Times
      BY <1>2 DEF ClockInBegin, SheetInv, TypeOK
    <2>2. now \in Time /\ "in_read" \in Steps
      BY <2>1 DEF Time, Steps
    <2>3. j \in Job /\ j.at = "in_read" /\ j.in = now
      BY <2>2, IdleTyped DEF Job
    <2>4. Begin(s, j)
      BY <1>2 DEF ClockInBegin
    <2> HIDE DEF j
    <2>5. Filled(j)
      BY <2>1, <2>3 DEF Filled, Fixing
    <2> QED BY <2>3, <2>4, <2>5, BeginKeeps
  <1>3. CASE ClockInRead(s)
    <2> DEFINE j == [job[s] EXCEPT !.at = "in_write"]
    <2>1. j \in Job /\ Filled(j)
      BY <1>1, <1>3 DEF ClockInRead
    <2>2. Refuse(s) \/ ReadRow(s, j)
      BY <1>3 DEF ClockInRead
    <2> HIDE DEF j
    <2> QED BY <2>1, <2>2, RefuseKeeps, ReadRowKeeps
  <1>4. CASE ClockInWrite(s)
    <2>1. job[s].in \in Times /\ Return(s)
      BY <1>1, <1>4 DEF ClockInWrite
    <2>2. PICK a \in Worked :
            IF entry = None
            THEN Insert([NewRow EXCEPT !.in = job[s].in, !.attendance = a])
            ELSE /\ entry' = [entry EXCEPT !.in = job[s].in, !.attendance = a]
                 /\ UNCHANGED <<now, lastId, logs, closed>>
      BY <1>4, AttendanceTyped DEF ClockInWrite
    <2>3. CASE entry = None
      <3> DEFINE row == [NewRow EXCEPT !.in = job[s].in, !.attendance = a]
      <3>1. row \in Entry /\ row.id = lastId + 1 /\ Accounted(row)
        BY <2>1, <2>3, NewRowTyped DEF Entry, Accounted
      <3>2. Insert(row)
        BY <2>2, <2>3
      <3> HIDE DEF row
      <3> QED BY <2>1, <2>3, <3>1, <3>2, InsertKeeps
    <2>4. CASE entry # None
      <3> DEFINE row == [entry EXCEPT !.in = job[s].in, !.attendance = a]
      <3>1. entry \in Entry /\ Accounted(entry)
        BY <2>4 DEF SheetInv, TypeOK, OvertimeAccounted, Accounted
      <3>2. row \in Entry /\ Accounted(row)
        BY <2>1, <3>1 DEF Entry, Accounted
      <3>3. entry' = row /\ UNCHANGED <<now, lastId, logs, closed>>
        BY <2>2, <2>4
      <3>4. RoomLeft'
        BY <3>2, <3>3, TimesheetAssumption DEF RoomLeft
      <3>5. closed' \in BOOLEAN /\ lastId' \in 0..MaxIds /\ logs' \subseteq Log
        BY <3>3 DEF SheetInv, TypeOK
      <3> HIDE DEF row
      <3> QED BY <2>1, <3>2, <3>3, <3>4, <3>5, ReturnKeeps
    <2> QED BY <2>3, <2>4
  <1> QED BY <1>2, <1>3, <1>4

LEMMA ClockOutKeeps ==
    ASSUME SheetInv, NEW s \in Sessions,
           ClockOutBegin(s) \/ ClockOutRead(s) \/ ClockOutWrite(s)
    PROVE  SheetInv'
  <1>1. job[s] \in Job /\ Filled(job[s])
    BY DEF SheetInv, TypeOK, JobsFilled
  <1>2. CASE ClockOutBegin(s)
    <2> DEFINE j == [Idle EXCEPT !.at = "out_read", !.out = now]
    <2>1. now \in Times
      BY <1>2 DEF ClockOutBegin, SheetInv, TypeOK
    <2>2. now \in Time /\ "out_read" \in Steps
      BY <2>1 DEF Time, Steps
    <2>3. j \in Job /\ j.at = "out_read" /\ j.out = now
      BY <2>2, IdleTyped DEF Job
    <2>4. Begin(s, j)
      BY <1>2 DEF ClockOutBegin
    <2> HIDE DEF j
    <2>5. Filled(j)
      BY <2>1, <2>3 DEF Filled, Fixing
    <2> QED BY <2>3, <2>4, <2>5, BeginKeeps
  <1>3. CASE ClockOutRead(s)
    <2> DEFINE j == [job[s] EXCEPT !.at = "out_write",
                                   !.id = entry.id, !.in = entry.in]
    <2>1. CASE entry # None /\ entry.in # None /\ entry.out = None
      <3>1. entry.id \in 1..MaxIds /\ entry.in \in Times
        BY <2>1 DEF SheetInv, TypeOK, Entry, Time
      <3>2. job[s].out \in Times
        BY <1>1, <1>3 DEF ClockOutRead, Filled
      <3>3. entry.in \in Time /\ entry.id \in 0..MaxIds /\ "out_write" \in Steps
        BY <3>1, TimesheetAssumption DEF Time, Steps, WriteSteps
      <3>4. /\ j \in Job
            /\ j.at = "out_write" /\ j.in = entry.in /\ j.out = job[s].out
        BY <1>1, <3>3 DEF Job
      <3>5. ReadRow(s, j)
        BY <1>3, <2>1 DEF ClockOutRead
      <3> HIDE DEF j
      <3>6. Filled(j)
        BY <3>1, <3>2, <3>4 DEF Filled, Fixing
      <3> QED BY <3>4, <3>5, <3>6, ReadRowKeeps
    <2>2. CASE ~(entry # None /\ entry.in # None /\ entry.out = None)
      BY <1>3, <2>2, RefuseKeeps DEF ClockOutRead
    <2> QED BY <2>1, <2>2
  <1>4. CASE ClockOutWrite(s)
    <2>1. job[s].at = "out_write"
      BY <1>4 DEF ClockOutWrite
    <2>2. PICK shift \in Shifts, f \in Settings :
            UpdateRow(s, ClockedOut(s, entry, shift, f))
      BY <1>4 DEF ClockOutWrite
    <2> QED BY <2>1, <2>2, ClockedOutTyped, UpdateKeeps
  <1> QED BY <1>2, <1>3, <1>4

\* A correction that has been asked for has both its times.
LEMMA CorrectionTyped ==
    ASSUME NEW at \in {"fix_check", "new_read"}, NEW id \in 0..MaxIds,
           at = "fix_check" => id # 0, NEW j \in Correction(at, id)
    PROVE  j \in Job /\ Filled(j) /\ j.at = at /\ j.id = id
  BY DEF Correction, Idle, Job, Steps, Choices, Time, Fixing, Filled

LEMMA FixKeeps ==
    ASSUME SheetInv, NEW s \in Sessions,
           \/ FixBegin(s) \/ FixRead(s) \/ FixCheck(s) \/ FixLog(s) \/ FixWrite(s)
    PROVE  SheetInv'
  <1>1. job[s] \in Job /\ Filled(job[s])
    BY DEF SheetInv, TypeOK, JobsFilled
  <1>2. CASE FixBegin(s)
    <2>1. PICK j \in Correction("fix_check", entry.id) : ReadRow(s, j)
      BY <1>2 DEF FixBegin
    <2>2. entry.id \in 1..MaxIds
      BY <1>2 DEF FixBegin, SheetInv, TypeOK, Entry
    <2>3. entry.id \in 0..MaxIds /\ entry.id # 0
      BY <2>2, TimesheetAssumption
    <2>4. j \in Job /\ Filled(j)
      BY <2>3, CorrectionTyped
    <2> QED BY <2>1, <2>4, ReadRowKeeps
  <1>3. CASE FixRead(s)
    <2> DEFINE j == [job[s] EXCEPT !.at = "fix_check"]
    <2>1. CASE StillThere(s)
      <3>1. job[s].id \in 1..MaxIds
        BY <2>1 DEF StillThere, SheetInv, TypeOK, Entry
      <3>2. j \in Job /\ Filled(j)
        BY <1>1, <1>3, <3>1, TimesheetAssumption DEF FixRead, Job, Steps, Fixing, Filled
      <3>3. ReadRow(s, j)
        BY <1>3, <2>1 DEF FixRead
      <3> HIDE DEF j
      <3> QED BY <3>2, <3>3, ReadRowKeeps
    <2>2. CASE ~StillThere(s)
      BY <1>3, <2>2, RefuseKeeps DEF FixRead
    <2> QED BY <2>1, <2>2
  <1>4. CASE FixCheck(s)
    <2> DEFINE j == [job[s] EXCEPT !.at = "fix_log"]
    <2>1. j \in Job /\ Filled(j)
      BY <1>1, <1>4 DEF FixCheck, Job, Steps, Fixing, Filled
    <2>2. Refuse(s) \/ (Read(s, j) /\ fresh' \subseteq Sessions)
      BY <1>4 DEF FixCheck, Go, SheetInv, TypeOK
    <2> HIDE DEF j
    <2> QED BY <2>1, <2>2, RefuseKeeps, ReadKeeps
  <1>5. CASE FixLog(s)
    <2>1. CASE StillThere(s)
      <3> DEFINE j == [job[s] EXCEPT !.at = "fix_write"]
      <3>1. j \in Job /\ Filled(j)
        BY <1>1, <1>5 DEF FixLog, Job, Steps, WriteSteps, Fixing, Filled
      <3>2. job' = [job EXCEPT ![s] = j]
        BY <1>5, <2>1 DEF FixLog, SheetInv, TypeOK
      <3>3. LogOf(s) \in Log
        <4>1. job[s].id \in 1..MaxIds
          BY <2>1 DEF StillThere, SheetInv, TypeOK, Entry
        <4>2. job[s].in \in Times /\ job[s].out \in Times
          BY <1>1, <1>5 DEF FixLog, Fixing, Filled
        <4> QED BY <4>1, <4>2 DEF LogOf, Log
      <3>4. /\ logs' = logs \cup {LogOf(s)}
            /\ UNCHANGED <<now, entry, lastId, closed, fresh, before>>
        BY <1>5, <2>1 DEF FixLog, history
      <3> HIDE DEF j
      <3>5. TypeOK'
        BY <3>1, <3>2, <3>3, <3>4 DEF SheetInv, TypeOK
      <3>6. JobsFilled'
        BY <3>1, <3>2 DEF SheetInv, TypeOK, JobsFilled
      <3> QED BY <3>4, <3>5, <3>6 DEF SheetInv, RoomLeft, OvertimeAccounted
    <2>2. CASE ~StillThere(s)
      BY <1>5, <2>2, RefuseKeeps DEF FixLog
    <2> QED BY <2>1, <2>2
  <1>6. CASE FixWrite(s)
    <2>1. job[s].at \in Fixing
      BY <1>6 DEF FixWrite, Fixing
    <2>2. PICK shift \in Shifts, f \in Settings :
            UpdateRow(s, Corrected(s, entry, shift, f))
      BY <1>6 DEF FixWrite
    <2>3. entry # None => entry \in Entry
      BY DEF SheetInv, TypeOK
    <2> QED BY <2>1, <2>2, <2>3, CorrectedTyped, UpdateKeeps
  <1> QED BY <1>2, <1>3, <1>4, <1>5, <1>6

LEMMA NewKeeps ==
    ASSUME SheetInv, NEW s \in Sessions,
           NewBegin(s) \/ NewRead(s) \/ NewInsert(s) \/ NewLog(s)
    PROVE  SheetInv'
  <1>1. job[s] \in Job /\ Filled(job[s])
    BY DEF SheetInv, TypeOK, JobsFilled
  <1>2. CASE NewBegin(s)
    <2>1. PICK j \in Correction("new_read", 0) : Begin(s, j)
      BY <1>2 DEF NewBegin
    <2>2. 0 \in 0..MaxIds
      BY TimesheetAssumption
    <2>3. j \in Job /\ Filled(j)
      BY <2>2, CorrectionTyped
    <2> QED BY <2>1, <2>3, BeginKeeps
  <1>3. CASE NewRead(s)
    <2>1. CASE entry = None
      <3> DEFINE j == [job[s] EXCEPT !.at = "new_insert"]
      <3>1. j \in Job /\ Filled(j)
        BY <1>1, <1>3 DEF NewRead, Job, Steps, WriteSteps, Fixing, Filled
      <3>2. ReadRow(s, j)
        BY <1>3, <2>1 DEF NewRead
      <3> HIDE DEF j
      <3> QED BY <3>1, <3>2, ReadRowKeeps
    <2>2. CASE entry # None
      <3> DEFINE j == [job[s] EXCEPT !.at = "fix_read", !.id = entry.id]
      <3>1. entry.id \in 1..MaxIds
        BY <2>2 DEF SheetInv, TypeOK, Entry
      <3>2. entry.id \in 0..MaxIds /\ "fix_read" \in Steps
        BY <3>1, TimesheetAssumption DEF Steps
      <3>3. /\ j \in Job
            /\ j.at = "fix_read" /\ j.in = job[s].in /\ j.out = job[s].out
        BY <1>1, <3>2 DEF Job
      <3>4. ReadRow(s, j)
        BY <1>3, <2>2 DEF NewRead
      <3> HIDE DEF j
      <3>5. Filled(j)
        BY <1>1, <1>3, <3>3 DEF NewRead, Fixing, Filled
      <3> QED BY <3>3, <3>4, <3>5, ReadRowKeeps
    <2> QED BY <2>1, <2>2
  <1>4. CASE NewInsert(s)
    <2>1. CASE entry = None
      <3>1. PICK shift \in Shifts, f \in Settings :
               Insert(Corrected(s, NewRow, shift, f))
        BY <1>4, <2>1 DEF NewInsert
      <3> DEFINE row == Corrected(s, NewRow, shift, f)
      <3>2. job[s].at \in Fixing
        BY <1>4 DEF NewInsert, Fixing
      <3>3. row \in Entry /\ row.id = lastId + 1 /\ Accounted(row)
        BY <2>1, <3>2, CorrectedTyped, NewRowTyped
      <3> HIDE DEF row
      <3>4. /\ entry' = row /\ lastId' = row.id /\ row.id \in 1..MaxIds
            /\ entry' # None /\ RoomLeft'
            /\ UNCHANGED <<now, logs, closed>>
        BY <2>1, <3>1, <3>3, InsertKeeps DEF row
      <3> DEFINE j == [job[s] EXCEPT !.at = "new_log", !.id = lastId']
      <3>5. j \in Job /\ Filled(j)
        <4>1. lastId' \in 0..MaxIds /\ lastId' # 0 /\ "new_log" \in Steps
          BY <3>4, TimesheetAssumption DEF Steps
        <4>2. /\ j \in Job /\ j.id = lastId'
              /\ j.at = "new_log" /\ j.in = job[s].in /\ j.out = job[s].out
          BY <1>1, <4>1 DEF Job
        <4> HIDE DEF j
        <4> QED BY <1>1, <1>4, <4>1, <4>2 DEF NewInsert, Fixing, Filled
      <3>6. job' = [job EXCEPT ![s] = j]
        BY <1>4, <2>1 DEF NewInsert, SheetInv, TypeOK
      <3>7. fresh' = {} /\ UNCHANGED before
        BY <1>4, <2>1 DEF NewInsert
      <3> HIDE DEF j
      <3>8. TypeOK'
        BY <3>3, <3>4, <3>5, <3>6, <3>7, TimesheetAssumption DEF SheetInv, TypeOK
      <3>9. JobsFilled'
        BY <3>5, <3>6 DEF SheetInv, TypeOK, JobsFilled
      <3>10. OvertimeAccounted'
        BY <3>3, <3>4 DEF OvertimeAccounted, Accounted
      <3> QED BY <3>4, <3>8, <3>9, <3>10 DEF SheetInv
    <2>2. CASE entry # None
      BY <1>4, <2>2, RefuseKeeps DEF NewInsert
    <2> QED BY <2>1, <2>2
  <1>5. CASE NewLog(s)
    <2>1. LogOf(s) \in Log
      <3>1. job[s].id \in 1..MaxIds /\ job[s].in \in Times /\ job[s].out \in Times
        BY <1>1, <1>5, TimesheetAssumption DEF NewLog, Job, Fixing, Filled
      <3> QED BY <3>1 DEF LogOf, Log
    <2>2. /\ logs' = logs \cup {LogOf(s)} /\ Return(s)
          /\ UNCHANGED <<now, entry, lastId, closed>>
      BY <1>5 DEF NewLog
    <2>3. RoomLeft' /\ (entry' # None => Accounted(entry'))
      BY <2>2 DEF SheetInv, RoomLeft, OvertimeAccounted, Accounted
    <2>4. /\ closed' \in BOOLEAN /\ entry' \in Entry \cup {None}
          /\ lastId' \in 0..MaxIds /\ logs' \subseteq Log
      BY <2>1, <2>2 DEF SheetInv, TypeOK
    <2> QED BY <2>2, <2>3, <2>4, ReturnKeeps
  <1> QED BY <1>2, <1>3, <1>4, <1>5

LEMMA ReviewKeeps ==
    ASSUME SheetInv, NEW s \in Sessions,
           ReviewBegin(s) \/ ReviewCheck(s) \/ ReviewWrite(s)
    PROVE  SheetInv'
  <1>1. job[s] \in Job /\ Filled(job[s])
    BY DEF SheetInv, TypeOK, JobsFilled
  <1>2. CASE ReviewBegin(s)
    <2>1. PICK verdict \in {"approved", "rejected"} :
            ReadRow(s, [Idle EXCEPT !.at = "review_check", !.id = entry.id,
                                    !.choice = verdict])
      BY <1>2 DEF ReviewBegin
    <2> DEFINE j == [Idle EXCEPT !.at = "review_check", !.id = entry.id,
                                 !.choice = verdict]
    <2>2. entry.id \in 1..MaxIds
      BY <1>2 DEF ReviewBegin, SheetInv, TypeOK, Entry
    <2>3. /\ entry.id \in 0..MaxIds /\ verdict \in Choices
          /\ "review_check" \in Steps
      BY <2>2, TimesheetAssumption DEF Choices, Steps
    <2>4. j \in Job /\ j.at = "review_check" /\ j.choice = verdict
      BY <2>3, IdleTyped DEF Job
    <2>5. ReadRow(s, j)
      BY <2>1
    <2> HIDE DEF j
    <2>6. Filled(j)
      BY <2>4 DEF Filled, Fixing
    <2> QED BY <2>4, <2>5, <2>6, ReadRowKeeps
  <1>3. CASE ReviewCheck(s)
    <2> DEFINE j == [job[s] EXCEPT !.at = "review_write"]
    <2>1. j \in Job /\ Filled(j)
      BY <1>1, <1>3 DEF ReviewCheck, Job, Steps, WriteSteps, Fixing, Filled
    <2>2. Refuse(s) \/ (Read(s, j) /\ fresh' \subseteq Sessions)
      BY <1>3 DEF ReviewCheck, Go, SheetInv, TypeOK
    <2> HIDE DEF j
    <2> QED BY <2>1, <2>2, RefuseKeeps, ReadKeeps
  <1>4. CASE ReviewWrite(s)
    <2> DEFINE row == [entry EXCEPT !.ot_status = job[s].choice, !.reviewed = TRUE]
    <2>1. job[s].choice \in {"approved", "rejected"}
      BY <1>1, <1>4 DEF ReviewWrite, Filled
    <2>2. entry # None => row \in Entry /\ Accounted(row)
      BY <2>1 DEF SheetInv, TypeOK, Entry, OtStatuses, Accounted
    <2>3. UpdateRow(s, row)
      BY <1>4 DEF ReviewWrite
    <2> HIDE DEF row
    <2> QED BY <2>2, <2>3, UpdateKeeps
  <1> QED BY <1>2, <1>3, <1>4

LEMMA MarkKeeps ==
    ASSUME SheetInv, NEW s \in Sessions,
           \/ MarkBegin(s) \/ MarkRead(s) \/ MarkUpdate(s) \/ MarkInsert(s)
           \/ ClearBegin(s) \/ ClearWrite(s)
    PROVE  SheetInv'
  <1>1. job[s] \in Job /\ Filled(job[s])
    BY DEF SheetInv, TypeOK, JobsFilled
  <1>2. ASSUME NEW at \in {"mark_read", "clear_write"}, NEW mark \in Absences,
               Begin(s, [Idle EXCEPT !.at = at, !.choice = mark])
        PROVE  SheetInv'
    <2> DEFINE j == [Idle EXCEPT !.at = at, !.choice = mark]
    <2>1. at \in Steps /\ mark \in Choices
      BY DEF Steps, WriteSteps, Choices
    <2>2. j \in Job /\ j.at = at /\ j.choice = mark
      BY <2>1, IdleTyped DEF Job
    <2>3. Begin(s, j)
      BY <1>2
    <2> HIDE DEF j
    <2>4. Filled(j)
      BY <2>2 DEF Filled, Fixing
    <2> QED BY <2>2, <2>3, <2>4, BeginKeeps
  <1>3. CASE MarkBegin(s) \/ ClearBegin(s)
    BY <1>2, <1>3 DEF MarkBegin, ClearBegin
  <1>4. CASE MarkRead(s)
    <2> DEFINE id == IF entry = None THEN 0 ELSE entry.id
               j == [job[s] EXCEPT !.at = "mark_write", !.id = id]
    <2>1. id \in 0..MaxIds /\ "mark_write" \in Steps
      BY TimesheetAssumption DEF SheetInv, TypeOK, Entry, Steps, WriteSteps
    <2> HIDE DEF id
    <2>2. j \in Job /\ j.at = "mark_write" /\ j.choice = job[s].choice
      BY <1>1, <2>1 DEF Job
    <2>3. Refuse(s) \/ ReadRow(s, j)
      BY <1>4 DEF MarkRead, id
    <2> HIDE DEF j
    <2>4. Filled(j)
      BY <1>1, <1>4, <2>2 DEF MarkRead, Filled, Fixing
    <2> QED BY <2>2, <2>3, <2>4, RefuseKeeps, ReadRowKeeps
  <1>5. CASE MarkUpdate(s)
    <2> DEFINE row == [entry EXCEPT !.attendance = job[s].choice]
    <2>1. job[s].choice \in Absences
      BY <1>1, <1>5 DEF MarkUpdate, Filled
    <2>2. entry # None => row \in Entry /\ Accounted(row)
      BY <2>1 DEF SheetInv, TypeOK, Entry, OvertimeAccounted, Accounted
    <2>3. UpdateRow(s, row)
      BY <1>5 DEF MarkUpdate
    <2> HIDE DEF row
    <2> QED BY <2>2, <2>3, UpdateKeeps
  <1>6. CASE MarkInsert(s)
    <2>1. CASE entry = None
      <3> DEFINE row == [NewRow EXCEPT !.attendance = job[s].choice]
      <3>1. job[s].choice \in Absences
        BY <1>1, <1>6 DEF MarkInsert, Filled
      <3>2. row \in Entry /\ row.id = lastId + 1 /\ Accounted(row)
        BY <2>1, <3>1, NewRowTyped DEF Entry, Accounted
      <3>3. Insert(row) /\ Return(s)
        BY <1>6, <2>1 DEF MarkInsert
      <3> HIDE DEF row
      <3> QED BY <2>1, <3>2, <3>3, InsertKeeps
    <2>2. CASE entry # None
      BY <1>6, <2>2, RefuseKeeps DEF MarkInsert
    <2> QED BY <2>1, <2>2
  <1>7. CASE ClearWrite(s)
    <2>1. /\ lastId < MaxIds /\ entry' \in {None, entry} /\ Return(s)
          /\ UNCHANGED <<now, lastId, logs, closed>>
      BY <1>7 DEF ClearWrite
    <2>2. RoomLeft'
      BY <2>1 DEF RoomLeft
    <2>3. entry' # None => Accounted(entry')
      BY <2>1 DEF SheetInv, OvertimeAccounted, Accounted
    <2>4. /\ closed' \in BOOLEAN /\ entry' \in Entry \cup {None}
          /\ lastId' \in 0..MaxIds /\ logs' \subseteq Log
      BY <2>1 DEF SheetInv, TypeOK
    <2> QED BY <2>1, <2>2, <2>3, <2>4, ReturnKeeps
  <1> QED BY <1>3, <1>4, <1>5, <1>6, <1>7

\* The clock, the period and steps in which nothing happens.
LEMMA WorldKeeps ==
    ASSUME SheetInv, Tick \/ ClosePeriod \/ ReopenPeriod \/ UNCHANGED vars
    PROVE  SheetInv'
  <1>1. UNCHANGED <<entry, lastId, logs, job, fresh>>
    BY DEF Tick, ClosePeriod, ReopenPeriod, vars, tables, history
  <1>2. TypeOK'
    BY <1>1 DEF SheetInv, TypeOK, Tick, ClosePeriod, ReopenPeriod, vars, tables, history
  <1> QED BY <1>1, <1>2 DEF SheetInv, JobsFilled, RoomLeft, OvertimeAccounted

LEMMA SheetStep == SheetInv /\ [Next]_vars => SheetInv'
  <1> SUFFICES ASSUME SheetInv, [Next]_vars PROVE SheetInv'
    OBVIOUS
  <1>1. ASSUME NEW s \in Sessions, Handler(s) PROVE SheetInv'
    <2>1. CASE Abort(s)
      BY <2>1, RefuseKeeps DEF Abort
    <2> QED BY <1>1, <2>1, ClockInKeeps, ClockOutKeeps, FixKeeps, NewKeeps,
               ReviewKeeps, MarkKeeps DEF Handler
  <1> QED BY <1>1, WorldKeeps DEF Next

\* Every time entry is well typed whatever the interleaving: no minutes are
\* negative, and what each handler writes has the times it needs.
THEOREM TimesheetTypes == Spec => []TypeOK
  BY SheetInit, SheetStep, PTL DEF Spec, SheetInv

\* Minutes above the threshold are never without an overtime status, and what
\* waits for review has such minutes.
THEOREM NoHiddenOvertime == Spec => []OvertimeAccounted
  BY SheetInit, SheetStep, PTL DEF Spec, SheetInv

(***************************************************************************)
(* What a step can do to the row.                                          *)
(***************************************************************************)
Writes(s) ==
    \/ ClockInWrite(s) \/ ClockOutWrite(s) \/ FixWrite(s) \/ NewInsert(s)
    \/ ReviewWrite(s) \/ MarkUpdate(s) \/ MarkInsert(s) \/ ClearWrite(s)

LEMMA WhoWrites ==
    ASSUME [Next]_vars, entry' # entry
    PROVE  \E s \in Sessions : Writes(s)
  <1>1. ~UNCHANGED vars /\ ~Tick /\ ~ClosePeriod /\ ~ReopenPeriod
    BY DEF vars, Tick, ClosePeriod, ReopenPeriod, tables
  <1>2. PICK s \in Sessions : Handler(s)
    BY <1>1 DEF Next
  <1>3. ~Refuse(s) /\ \A j : ~Read(s, j)
    BY DEF Refuse, Read, tables
  <1>4. /\ ~Abort(s) /\ ~ClockInBegin(s) /\ ~ClockInRead(s)
        /\ ~ClockOutBegin(s) /\ ~ClockOutRead(s)
        /\ ~FixBegin(s) /\ ~FixRead(s) /\ ~FixCheck(s)
        /\ ~NewBegin(s) /\ ~NewRead(s)
        /\ ~ReviewBegin(s) /\ ~ReviewCheck(s)
        /\ ~MarkBegin(s) /\ ~MarkRead(s) /\ ~ClearBegin(s)
    BY <1>3 DEF Abort, ClockInBegin, ClockInRead, ClockOutBegin, ClockOutRead,
         FixBegin, FixRead, FixCheck, NewBegin, NewRead, ReviewBegin,
         ReviewCheck, MarkBegin, MarkRead, ClearBegin, Begin, ReadRow, Go
  <1>5. ~FixLog(s) /\ ~NewLog(s)
    BY <1>3 DEF FixLog, NewLog
  <1> QED BY <1>2, <1>4, <1>5 DEF Handler, Writes

\* The row that is there is changed in place, and only a row without times
\* is ever deleted.
LEMMA WriteKeepsPunches ==
    ASSUME SheetInv, NEW s \in Sessions, Writes(s), entry # None, entry.in # None
    PROVE  /\ entry' # None /\ entry'.id = entry.id /\ entry'.in # None
           /\ entry.out # None => entry'.out # None
  <1>1. entry \in Entry
    BY DEF SheetInv, TypeOK
  <1>2. Filled(job[s])
    BY DEF SheetInv, JobsFilled
  <1>3. ASSUME NEW new, UpdateRow(s, new), new # None, new.id = entry.id,
               new.in # None, entry.out # None => new.out # None
        PROVE  /\ entry' # None /\ entry'.id = entry.id /\ entry'.in # None
               /\ entry.out # None => entry'.out # None
    BY <1>3 DEF UpdateRow
  <1>4. CASE ClockInWrite(s)
    <2>1. job[s].in # None
      BY <1>2, <1>4, TimesheetAssumption DEF ClockInWrite, Filled
    <2>2. PICK a \in Worked :
            entry' = [entry EXCEPT !.in = job[s].in, !.attendance = a]
      BY <1>4, AttendanceTyped DEF ClockInWrite
    <2>3. [entry EXCEPT !.in = job[s].in, !.attendance = a] \in Entry
      BY <1>1, <1>2, <1>4 DEF ClockInWrite, Filled, Entry, Time
    <2>4. entry' # None
      BY <2>2, <2>3, TimesheetAssumption
    <2> QED BY <1>1, <2>1, <2>2, <2>4 DEF Entry
  <1>5. CASE ClockOutWrite(s)
    <2>1. PICK shift \in Shifts, f \in Settings :
            UpdateRow(s, ClockedOut(s, entry, shift, f))
      BY <1>5 DEF ClockOutWrite
    <2> DEFINE new == ClockedOut(s, entry, shift, f)
    <2>2. job[s].out # None
      BY <1>2, <1>5, TimesheetAssumption DEF ClockOutWrite, Filled
    <2>3. new \in Entry
      BY <1>5, ClockedOutTyped DEF ClockOutWrite
    <2>4. new.id = entry.id /\ new.in = entry.in /\ new.out = job[s].out
      BY <1>1 DEF ClockedOut, Entry
    <2>5. UpdateRow(s, new)
      BY <2>1
    <2> HIDE DEF new
    <2> QED BY <1>3, <2>2, <2>3, <2>4, <2>5, TimesheetAssumption
  <1>6. CASE FixWrite(s)
    <2>1. PICK shift \in Shifts, f \in Settings :
            UpdateRow(s, Corrected(s, entry, shift, f))
      BY <1>6 DEF FixWrite
    <2> DEFINE new == Corrected(s, entry, shift, f)
    <2>2. job[s].in # None /\ job[s].out # None /\ job[s].at \in Fixing
      BY <1>2, <1>6, TimesheetAssumption DEF FixWrite, Filled, Fixing
    <2>3. new \in Entry /\ new.id = entry.id
      BY <1>1, <2>2, CorrectedTyped
    <2>4. new.in = job[s].in /\ new.out = job[s].out
      BY <1>1 DEF Corrected, Entry
    <2>5. UpdateRow(s, new)
      BY <2>1
    <2> HIDE DEF new
    <2> QED BY <1>3, <2>2, <2>3, <2>4, <2>5, TimesheetAssumption
  <1>7. CASE NewInsert(s) \/ MarkInsert(s)
    BY <1>7 DEF NewInsert, MarkInsert, Refuse, tables
  <1>8. CASE ReviewWrite(s)
    <2> DEFINE new == [entry EXCEPT !.ot_status = job[s].choice, !.reviewed = TRUE]
    <2>1. new \in Entry
      BY <1>1, <1>2, <1>8 DEF ReviewWrite, Filled, Entry, OtStatuses
    <2>2. new.id = entry.id /\ new.in = entry.in /\ new.out = entry.out
      BY <1>1 DEF Entry
    <2>3. UpdateRow(s, new)
      BY <1>8 DEF ReviewWrite
    <2> HIDE DEF new
    <2> QED BY <1>3, <2>1, <2>2, <2>3, TimesheetAssumption
  <1>9. CASE MarkUpdate(s)
    <2> DEFINE new == [entry EXCEPT !.attendance = job[s].choice]
    <2>1. new \in Entry
      BY <1>1, <1>2, <1>9 DEF MarkUpdate, Filled, Entry
    <2>2. new.id = entry.id /\ new.in = entry.in /\ new.out = entry.out
      BY <1>1 DEF Entry
    <2>3. UpdateRow(s, new)
      BY <1>9 DEF MarkUpdate
    <2> HIDE DEF new
    <2> QED BY <1>3, <2>1, <2>2, <2>3, TimesheetAssumption
  <1>10. CASE ClearWrite(s)
    <2>1. ~Clearable(s)
      BY DEF Clearable
    <2> QED BY <1>10, <2>1 DEF ClearWrite
  <1> QED BY <1>4, <1>5, <1>6, <1>7, <1>8, <1>9, <1>10 DEF Writes

LEMMA PunchesStep ==
    ASSUME SheetInv, [Next]_vars, entry # None, entry.in # None
    PROVE  /\ entry' # None /\ entry'.id = entry.id /\ entry'.in # None
           /\ entry.out # None => entry'.out # None
  <1>1. CASE entry' = entry
    BY <1>1
  <1>2. CASE entry' # entry
    BY <1>2, WhoWrites, WriteKeepsPunches
  <1> QED BY <1>1, <1>2

\* A row with a clock-in stays, with its times, through every interleaving of
\* the handlers.
THEOREM PunchesStay == Spec => PunchesKept
  <1>1. SheetInv /\ [Next]_vars =>
          [entry # None /\ entry.in # None =>
             /\ entry' # None /\ entry'.id = entry.id /\ entry'.in # None
             /\ entry.out # None => entry'.out # None]_vars
    BY PunchesStep
  <1> QED BY <1>1, SheetInit, SheetStep, PTL DEF Spec, PunchesKept

(***************************************************************************)
(* A closed date.                                                          *)
(***************************************************************************)
\* Steps before which a handler has not, or not yet again, asked whether the
\* date is closed.
Unchecked == {"idle", "fix_read", "fix_check", "review_check"}

\* Whoever is past the check of a closed date was at work when it closed.
Gate == closed => \A s \in Sessions : job[s].at \notin Unchecked => s \in before

LEMMA GateReturn ==
    ASSUME SheetInv, Gate, NEW s \in Sessions, Return(s), UNCHANGED closed
    PROVE  Gate'
  BY DEF SheetInv, TypeOK, Gate, Return, Idle, Unchecked

LEMMA GateMove ==
    ASSUME SheetInv, Gate, NEW s \in Sessions, NEW j, job' = [job EXCEPT ![s] = j],
           UNCHANGED <<closed, before>>,
           closed /\ j.at \notin Unchecked => job[s].at \notin Unchecked
    PROVE  Gate'
  BY DEF SheetInv, TypeOK, Gate

LEMMA GateRead ==
    ASSUME SheetInv, Gate, NEW s \in Sessions, NEW j, Read(s, j),
           closed /\ j.at \notin Unchecked => job[s].at \notin Unchecked
    PROVE  Gate'
  BY GateMove DEF Read, tables

LEMMA GateHandler ==
    ASSUME SheetInv, Gate, NEW s \in Sessions, Handler(s)
    PROVE  Gate'
  <1>1. ASSUME Return(s), UNCHANGED closed PROVE Gate'
    BY <1>1, GateReturn
  <1>2. Refuse(s) => Gate'
    BY <1>1 DEF Refuse, tables
  <1>3. job[s] \in Job /\ Idle \in Job
    BY IdleTyped DEF SheetInv, TypeOK
  <1>4. (\/ ClockInBegin(s) \/ ClockOutBegin(s) \/ NewBegin(s)
         \/ MarkBegin(s) \/ ClearBegin(s)) => Gate'
    <2>1. ASSUME NEW j, Begin(s, j), ~closed PROVE Gate'
      BY <2>1, GateRead DEF Begin
    <2> QED BY <2>1 DEF ClockInBegin, ClockOutBegin, NewBegin, MarkBegin,
                 ClearBegin, assert_work_date_editable
  <1>5. ClockInRead(s) \/ ClockOutRead(s) \/ NewRead(s) \/ MarkRead(s) => Gate'
    <2>1. ASSUME NEW j, ReadRow(s, j), job[s].at \notin Unchecked PROVE Gate'
      BY <2>1, GateRead DEF ReadRow
    <2> QED BY <1>2, <2>1 DEF ClockInRead, ClockOutRead, NewRead, MarkRead, Unchecked
  <1>6. FixBegin(s) \/ FixRead(s) \/ ReviewBegin(s) => Gate'
    <2>1. ASSUME NEW j, ReadRow(s, j), j.at \in Unchecked PROVE Gate'
      BY <2>1, GateRead DEF ReadRow
    <2>2. FixBegin(s) => Gate'
      <3>1. ASSUME NEW j \in Correction("fix_check", entry.id) PROVE j.at \in Unchecked
        BY <3>1 DEF Correction, Idle, Unchecked
      <3> QED BY <2>1, <3>1 DEF FixBegin
    <2>3. FixRead(s) => Gate'
      BY <1>2, <1>3, <2>1 DEF FixRead, Job, Unchecked
    <2>4. ReviewBegin(s) => Gate'
      BY <1>3, <2>1 DEF ReviewBegin, Job, Unchecked
    <2> QED BY <2>2, <2>3, <2>4
  <1>7. FixCheck(s) \/ ReviewCheck(s) => Gate'
    <2>1. ASSUME NEW j, Read(s, j), ~closed PROVE Gate'
      BY <2>1, GateRead
    <2> QED BY <1>2, <2>1 DEF FixCheck, ReviewCheck, Go, assert_work_date_editable
  <1>8. FixLog(s) => Gate'
    <2>1. ASSUME FixLog(s), StillThere(s) PROVE Gate'
      <3>1. /\ job' = [job EXCEPT ![s] = [job[s] EXCEPT !.at = "fix_write"]]
            /\ UNCHANGED <<closed, before>> /\ job[s].at = "fix_log"
        BY <2>1 DEF FixLog, history, SheetInv, TypeOK
      <3> QED BY <3>1, GateMove DEF Unchecked
    <2> QED BY <1>2, <2>1 DEF FixLog
  <1>9. NewInsert(s) => Gate'
    <2>1. ASSUME NewInsert(s), entry = None PROVE Gate'
      <3>1. /\ job' = [job EXCEPT ![s] =
                          [job[s] EXCEPT !.at = "new_log", !.id = lastId']]
            /\ UNCHANGED <<closed, before>> /\ job[s].at = "new_insert"
        BY <2>1 DEF NewInsert, Insert, SheetInv, TypeOK
      <3> QED BY <3>1, GateMove DEF Unchecked
    <2> QED BY <1>2, <2>1 DEF NewInsert
  <1>10. (\/ ClockInWrite(s) \/ ClockOutWrite(s) \/ FixWrite(s) \/ NewLog(s)
          \/ ReviewWrite(s) \/ MarkUpdate(s) \/ MarkInsert(s) \/ ClearWrite(s)) => Gate'
    BY <1>1, <1>2 DEF ClockInWrite, ClockOutWrite, FixWrite, NewLog, ReviewWrite,
         MarkUpdate, MarkInsert, ClearWrite, UpdateRow, Insert
  <1> QED BY <1>2, <1>4, <1>5, <1>6, <1>7, <1>8, <1>9, <1>10 DEF Handler, Abort

LEMMA GateStep == SheetInv /\ Gate /\ [Next]_vars => Gate'
  <1> SUFFICES ASSUME SheetInv, Gate, [Next]_vars PROVE Gate'
    OBVIOUS
  <1>1. CASE ClosePeriod
    <2>1. before' = {s \in Sessions : job[s] # Idle} /\ UNCHANGED job
      BY <1>1 DEF ClosePeriod
    <2>2. ASSUME NEW s \in Sessions, job[s].at \notin Unchecked PROVE job[s] # Idle
      BY <2>2 DEF Idle, Unchecked
    <2> QED BY <2>1, <2>2 DEF Gate
  <1>2. CASE ReopenPeriod
    BY <1>2 DEF ReopenPeriod, Gate
  <1>3. CASE Tick \/ UNCHANGED vars
    BY <1>3 DEF Tick, vars, tables, history, Gate
  <1> QED BY <1>1, <1>2, <1>3, GateHandler DEF Next

LEMMA GateInvariant == Spec => [](SheetInv /\ Gate)
  <1>1. Init => Gate
    BY DEF Init, Gate
  <1> QED BY <1>1, SheetInit, SheetStep, GateStep, PTL DEF Spec

\* A handler that writes is done with the row.
LEMMA WritersMoveOn ==
    ASSUME SheetInv, NEW s \in Sessions, Writes(s)
    PROVE  job[s].at \in WriteSteps /\ job'[s] # job[s]
  <1>1. job[s].at \in WriteSteps
    BY DEF Writes, ClockInWrite, ClockOutWrite, FixWrite, NewInsert, ReviewWrite,
         MarkUpdate, MarkInsert, ClearWrite, WriteSteps
  <1>2. CASE Return(s)
    BY <1>1, <1>2 DEF Return, SheetInv, TypeOK, Idle, WriteSteps
  <1>3. CASE ~Return(s)
    <2>1. NewInsert(s) /\ entry = None
      BY <1>3 DEF Writes, ClockInWrite, ClockOutWrite, FixWrite, NewInsert,
           ReviewWrite, MarkUpdate, MarkInsert, ClearWrite, UpdateRow, Refuse
    <2>2. /\ job' = [job EXCEPT ![s] =
                        [job[s] EXCEPT !.at = "new_log", !.id = lastId']]
          /\ job[s].at = "new_insert"
      BY <2>1 DEF NewInsert, SheetInv, TypeOK
    <2>3. job'[s].at = "new_log"
      BY <2>2 DEF SheetInv, TypeOK, Job
    <2> QED BY <1>1, <2>2, <2>3
  <1> QED BY <1>2, <1>3

LEMMA FrozenStep ==
    ASSUME SheetInv, Gate, [Next]_vars, closed, entry' # entry
    PROVE  \E s \in Sessions : /\ job[s].at \in WriteSteps
                               /\ job'[s] # job[s]
                               /\ s \in before
  <1>1. PICK s \in Sessions : Writes(s)
    BY WhoWrites
  <1>2. job[s].at \in WriteSteps /\ job'[s] # job[s]
    BY <1>1, WritersMoveOn
  <1>3. s \in before
    BY <1>2 DEF Gate, WriteSteps, Unchecked
  <1> QED BY <1>2, <1>3

\* A closed date changes through handlers that were at work when it closed, and
\* through no other.
THEOREM OnlyEarlierHandlersWrite == Spec => FrozenWhenClosed
  <1>1. SheetInv /\ Gate /\ [Next]_vars =>
          [closed /\ entry' # entry =>
             \E s \in Sessions : /\ job[s].at \in WriteSteps
                                 /\ job'[s] # job[s]
                                 /\ s \in before]_vars
    BY FrozenStep
  <1> QED BY <1>1, GateInvariant, PTL DEF Spec, FrozenWhenClosed

(***************************************************************************)
(* What a handler does to its own job. Known is what a session that has    *)
(* the row as it is can rely on when it writes.                            *)
(***************************************************************************)
Reviewing == {"review_check", "review_write"}

Known(j, row) ==
    /\ j.at = "in_write" => row = None \/ (row.in = None /\ row.out = None)
    /\ j.at = "out_write" =>
           row # None /\ row.in = j.in /\ row.in # None /\ row.out = None
    /\ j.at \in Reviewing => row # None /\ row.ot_status = "pending"
    /\ j.at = "mark_write" =>
           IF j.id = 0 THEN row = None ELSE row # None /\ row.in = None

\* The steps that take a job to the write of a row it has read.
Learned(s) == entry' = entry /\ Known(job'[s], entry)

\* The next job of the session: new in one of a few ways.
JobMoves(s) ==
    /\ job' = [job EXCEPT ![s] = job'[s]]
    /\ job'[s].id \in {0, job[s].id, lastId'} \/ (entry # None /\ job'[s].id = entry.id)
    /\ job'[s].at \in {"in_write", "out_write", "mark_write", "review_check"} => Learned(s)
    /\ job'[s].at = "review_write" =>
           /\ job[s].at = "review_check" /\ job'[s].id = job[s].id
           /\ UNCHANGED <<entry, fresh>>
    /\ job'[s].at = "fix_write" => LogOf(s)' \in logs'

LEMMA MoveShape ==
    ASSUME SheetInv, NEW s \in Sessions, NEW j, job' = [job EXCEPT ![s] = j]
    PROVE  job'[s] = j /\ job' = [job EXCEPT ![s] = job'[s]]
  BY DEF SheetInv, TypeOK

\* Moves that do not come near a write.
LEMMA PlainMove ==
    ASSUME SheetInv, NEW s \in Sessions, NEW j, job' = [job EXCEPT ![s] = j],
           j.id \in {0, job[s].id, lastId'} \/ (entry # None /\ j.id = entry.id),
           j.at \notin {"in_write", "out_write", "mark_write", "review_check",
                       "review_write", "fix_write"}
    PROVE  JobMoves(s)
  BY MoveShape DEF JobMoves

LEMMA ReturnMove ==
    ASSUME SheetInv, NEW s \in Sessions, Return(s)
    PROVE  JobMoves(s)
  <1>1. job' = [job EXCEPT ![s] = Idle] /\ Idle.id = 0 /\ Idle.at = "idle"
    BY DEF Return, Idle
  <1> QED BY <1>1, PlainMove

LEMMA HandlerMoves ==
    ASSUME SheetInv, NEW s \in Sessions, Handler(s)
    PROVE  JobMoves(s)
  <1>1. job[s] \in Job /\ Idle \in Job /\ Idle.id = 0
    BY IdleTyped DEF SheetInv, TypeOK, Idle
  <1>2. Refuse(s) \/ Return(s) => JobMoves(s)
    BY ReturnMove DEF Refuse
  <1>3. ASSUME NEW j, Read(s, j) \/ Begin(s, j) \/ ReadRow(s, j)
        PROVE  job' = [job EXCEPT ![s] = j] /\ job'[s] = j /\ entry' = entry
    <2>1. job' = [job EXCEPT ![s] = j] /\ entry' = entry
      BY <1>3 DEF Read, Begin, ReadRow, tables
    <2> QED BY <2>1, MoveShape
  <1>4. CASE ClockInBegin(s)
    <2> DEFINE j == [Idle EXCEPT !.at = "in_read", !.in = now]
    <2>1. Begin(s, j) /\ j.id = 0 /\ j.at = "in_read"
      BY <1>4 DEF ClockInBegin, Idle
    <2> HIDE DEF j
    <2> QED BY <1>3, <2>1, PlainMove
  <1>5. CASE ClockOutBegin(s)
    <2> DEFINE j == [Idle EXCEPT !.at = "out_read", !.out = now]
    <2>1. Begin(s, j) /\ j.id = 0 /\ j.at = "out_read"
      BY <1>5 DEF ClockOutBegin, Idle
    <2> HIDE DEF j
    <2> QED BY <1>3, <2>1, PlainMove
  <1>6. CASE ClockInRead(s)
    <2>1. SUFFICES ASSUME ~Refuse(s) PROVE JobMoves(s)
      BY <1>2
    <2> DEFINE j == [job[s] EXCEPT !.at = "in_write"]
    <2>2. /\ ReadRow(s, j) /\ job[s].at = "in_read"
          /\ entry = None \/ (entry.in = None /\ entry.out = None)
      BY <1>6, <2>1 DEF ClockInRead
    <2>3. j.at = "in_write" /\ j.id = job[s].id
      BY <1>1 DEF Job
    <2> HIDE DEF j
    <2>4. job' = [job EXCEPT ![s] = j] /\ job'[s] = j /\ entry' = entry
      BY <1>3, <2>2
    <2> QED BY <2>2, <2>3, <2>4 DEF JobMoves, Learned, Known, Reviewing
  <1>7. CASE ClockInWrite(s) \/ ClockOutWrite(s) \/ FixWrite(s) \/ NewLog(s)
             \/ ReviewWrite(s) \/ MarkUpdate(s) \/ MarkInsert(s) \/ ClearWrite(s)
             \/ Abort(s)
    BY <1>2, <1>7 DEF ClockInWrite, ClockOutWrite, FixWrite, NewLog, ReviewWrite,
         MarkUpdate, MarkInsert, ClearWrite, UpdateRow, Abort
  <1>8. CASE ClockOutRead(s)
    <2>1. SUFFICES ASSUME ~Refuse(s) PROVE JobMoves(s)
      BY <1>2
    <2> DEFINE j == [job[s] EXCEPT !.at = "out_write",
                                   !.id = entry.id, !.in = entry.in]
    <2>2. ReadRow(s, j) /\ entry # None /\ entry.in # None /\ entry.out = None
      BY <1>8, <2>1 DEF ClockOutRead
    <2>3. j.at = "out_write" /\ j.id = entry.id /\ j.in = entry.in
      BY <1>1 DEF Job
    <2> HIDE DEF j
    <2>4. job' = [job EXCEPT ![s] = j] /\ job'[s] = j /\ entry' = entry
      BY <1>3, <2>2
    <2> QED BY <2>2, <2>3, <2>4 DEF JobMoves, Learned, Known, Reviewing
  <1>9. CASE FixBegin(s)
    <2>1. PICK j \in Correction("fix_check", entry.id) : ReadRow(s, j)
      BY <1>9 DEF FixBegin
    <2>2. j.at = "fix_check" /\ j.id = entry.id /\ entry # None
      BY <1>9 DEF FixBegin, Correction, Idle
    <2> QED BY <1>3, <2>1, <2>2, PlainMove
  <1>10. CASE NewBegin(s)
    <2>1. PICK j \in Correction("new_read", 0) : Begin(s, j)
      BY <1>10 DEF NewBegin
    <2>2. j.at = "new_read" /\ j.id = 0
      BY DEF Correction, Idle
    <2> QED BY <1>3, <2>1, <2>2, PlainMove
  <1>11. ASSUME NEW at, ReadRow(s, [job[s] EXCEPT !.at = at])
                        \/ Read(s, [job[s] EXCEPT !.at = at]),
                at \notin {"in_write", "out_write", "mark_write", "review_check",
                          "review_write", "fix_write"}
         PROVE  JobMoves(s)
    <2>1. [job[s] EXCEPT !.at = at].at = at /\ [job[s] EXCEPT !.at = at].id = job[s].id
      BY <1>1 DEF Job
    <2> QED BY <1>3, <1>11, <2>1, PlainMove
  <1>12. CASE FixRead(s) \/ FixCheck(s)
    BY <1>2, <1>11, <1>12 DEF FixRead, FixCheck, Go
  <1>13. CASE NewRead(s)
    <2>1. CASE entry = None
      BY <1>11, <1>13, <2>1 DEF NewRead
    <2>2. CASE entry # None
      <3> DEFINE j == [job[s] EXCEPT !.at = "fix_read", !.id = entry.id]
      <3>1. ReadRow(s, j)
        BY <1>13, <2>2 DEF NewRead
      <3>2. j.at = "fix_read" /\ j.id = entry.id
        BY <1>1 DEF Job
      <3> HIDE DEF j
      <3> QED BY <1>3, <2>2, <3>1, <3>2, PlainMove
    <2> QED BY <2>1, <2>2
  <1>14. CASE FixLog(s)
    <2>1. SUFFICES ASSUME ~Refuse(s) PROVE JobMoves(s)
      BY <1>2
    <2> DEFINE j == [job[s] EXCEPT !.at = "fix_write"]
    <2>2. job' = [job EXCEPT ![s] = j] /\ logs' = logs \cup {LogOf(s)}
      BY <1>14, <2>1 DEF FixLog, SheetInv, TypeOK
    <2>3. /\ j.at = "fix_write" /\ j.id = job[s].id
          /\ j.in = job[s].in /\ j.out = job[s].out
      BY <1>1 DEF Job
    <2> HIDE DEF j
    <2>4. job' = [job EXCEPT ![s] = job'[s]] /\ job'[s] = j
      BY <2>2, MoveShape
    <2>5. LogOf(s)' = LogOf(s)
      BY <2>3, <2>4 DEF LogOf
    <2> QED BY <2>2, <2>3, <2>4, <2>5 DEF JobMoves
  <1>15. CASE NewInsert(s)
    <2>1. SUFFICES ASSUME ~Refuse(s) PROVE JobMoves(s)
      BY <1>2
    <2> DEFINE j == [job[s] EXCEPT !.at = "new_log", !.id = lastId']
    <2>2. job' = [job EXCEPT ![s] = j]
      BY <1>15, <2>1 DEF NewInsert, SheetInv, TypeOK
    <2>3. j.at = "new_log" /\ j.id = lastId'
      BY <1>1 DEF Job
    <2> HIDE DEF j
    <2> QED BY <2>2, <2>3, PlainMove
  <1>16. CASE ReviewBegin(s)
    <2>1. PICK verdict \in {"approved", "rejected"} :
            ReadRow(s, [Idle EXCEPT !.at = "review_check", !.id = entry.id,
                                    !.choice = verdict])
      BY <1>16 DEF ReviewBegin
    <2> DEFINE j == [Idle EXCEPT !.at = "review_check", !.id = entry.id,
                                 !.choice = verdict]
    <2>2. ReadRow(s, j) /\ entry # None /\ entry.ot_status = "pending"
      BY <1>16, <2>1 DEF ReviewBegin
    <2>3. j.at = "review_check" /\ j.id = entry.id
      BY DEF Idle
    <2> HIDE DEF j
    <2>4. job' = [job EXCEPT ![s] = j] /\ job'[s] = j /\ entry' = entry
      BY <1>3, <2>2
    <2> QED BY <2>2, <2>3, <2>4 DEF JobMoves, Learned, Known, Reviewing
  <1>17. CASE ReviewCheck(s)
    <2>1. SUFFICES ASSUME ~Refuse(s) PROVE JobMoves(s)
      BY <1>2
    <2> DEFINE j == [job[s] EXCEPT !.at = "review_write"]
    <2>2. Read(s, j) /\ UNCHANGED fresh /\ job[s].at = "review_check"
      BY <1>17, <2>1 DEF ReviewCheck, Go
    <2>3. j.at = "review_write" /\ j.id = job[s].id
      BY <1>1 DEF Job
    <2> HIDE DEF j
    <2>4. job' = [job EXCEPT ![s] = j] /\ job'[s] = j /\ entry' = entry
      BY <1>3, <2>2
    <2> QED BY <2>2, <2>3, <2>4 DEF JobMoves
  <1>18. ASSUME NEW at, NEW c, Begin(s, [Idle EXCEPT !.at = at, !.choice = c]),
                at \in {"mark_read", "clear_write"}
         PROVE  JobMoves(s)
    <2>1. /\ [Idle EXCEPT !.at = at, !.choice = c].id = 0
          /\ [Idle EXCEPT !.at = at, !.choice = c].at = at
      BY DEF Idle
    <2> QED BY <1>3, <1>18, <2>1, PlainMove
  <1>19. CASE MarkBegin(s) \/ ClearBegin(s)
    BY <1>18, <1>19 DEF MarkBegin, ClearBegin
  <1>20. CASE MarkRead(s)
    <2>1. SUFFICES ASSUME ~Refuse(s) PROVE JobMoves(s)
      BY <1>2
    <2> DEFINE id == IF entry = None THEN 0 ELSE entry.id
               j == [job[s] EXCEPT !.at = "mark_write", !.id = id]
    <2>2. ReadRow(s, j) /\ (entry # None => entry.in = None)
      BY <1>20, <2>1 DEF MarkRead
    <2>3. entry # None => id # 0
      BY TimesheetAssumption DEF SheetInv, TypeOK, Entry
    <2>4. (id = 0 /\ entry = None) \/ (entry # None /\ id = entry.id)
      OBVIOUS
    <2> HIDE DEF id
    <2>5. j.at = "mark_write" /\ j.id = id
      BY <1>1 DEF Job
    <2> HIDE DEF j
    <2>6. job' = [job EXCEPT ![s] = j] /\ job'[s] = j /\ entry' = entry
      BY <1>3, <2>2
    <2> QED BY <2>2, <2>3, <2>4, <2>5, <2>6 DEF JobMoves, Learned, Known, Reviewing
  <1> QED BY <1>4, <1>5, <1>6, <1>7, <1>8, <1>9, <1>10, <1>12, <1>13, <1>14, <1>15,
             <1>16, <1>17, <1>19, <1>20 DEF Handler

(***************************************************************************)
(* Corrections are logged.                                                 *)
(***************************************************************************)
LEMMA LogsStay ==
    ASSUME NEW s \in Sessions, Handler(s)
    PROVE  logs \subseteq logs'
  <1>1. Refuse(s) => logs' = logs
    BY DEF Refuse, tables
  <1>2. \A j : Read(s, j) \/ Begin(s, j) \/ ReadRow(s, j) => logs' = logs
    BY DEF Read, Begin, ReadRow, tables
  <1>3. \/ ClockInBegin(s) \/ ClockInRead(s) \/ ClockOutBegin(s) \/ ClockOutRead(s)
        \/ FixBegin(s) \/ FixRead(s) \/ FixCheck(s) \/ FixLog(s)
        \/ NewBegin(s) \/ NewRead(s) \/ NewLog(s)
        \/ ReviewBegin(s) \/ ReviewCheck(s)
        \/ MarkBegin(s) \/ MarkRead(s) \/ ClearBegin(s) \/ Abort(s)
        \/ Writes(s)
    BY DEF Handler, Writes
  <1>4. Writes(s) => logs' = logs
    BY <1>1 DEF Writes, ClockInWrite, ClockOutWrite, FixWrite, NewInsert,
         ReviewWrite, MarkUpdate, MarkInsert, ClearWrite, UpdateRow, Insert
  <1>5. FixLog(s) \/ NewLog(s) => logs \subseteq logs'
    BY <1>1 DEF FixLog, NewLog
  <1>6. ClockInBegin(s) \/ ClockOutBegin(s) \/ NewBegin(s) \/ MarkBegin(s)
          \/ ClearBegin(s) \/ FixBegin(s) \/ ReviewBegin(s) => logs' = logs
    BY <1>2 DEF ClockInBegin, ClockOutBegin, NewBegin, MarkBegin, ClearBegin,
         FixBegin, ReviewBegin
  <1>7. ClockInRead(s) \/ ClockOutRead(s) \/ FixRead(s) \/ FixCheck(s)
          \/ NewRead(s) \/ ReviewCheck(s) \/ MarkRead(s) \/ Abort(s) => logs' = logs
    BY <1>1, <1>2 DEF ClockInRead, ClockOutRead, FixRead, FixCheck, NewRead,
         ReviewCheck, MarkRead, Abort, Go
  <1> QED BY <1>3, <1>4, <1>5, <1>6, <1>7

LEMMA LoggedStep == SheetInv /\ Logged /\ [Next]_vars => Logged'
  <1> SUFFICES ASSUME SheetInv, Logged, [Next]_vars PROVE Logged'
    OBVIOUS
  <1>1. ASSUME NEW s \in Sessions, Handler(s) PROVE Logged'
    <2>1. JobMoves(s) /\ logs \subseteq logs'
      BY <1>1, HandlerMoves, LogsStay
    <2>2. ASSUME NEW t \in Sessions, job'[t].at = "fix_write"
          PROVE  LogOf(t)' \in logs'
      <3>1. CASE t = s
        BY <2>1, <2>2, <3>1 DEF JobMoves
      <3>2. CASE t # s
        <4>1. job'[t] = job[t]
          BY <2>1, <3>2 DEF JobMoves, SheetInv, TypeOK
        <4>2. LogOf(t)' = LogOf(t) /\ LogOf(t) \in logs
          BY <2>2, <4>1 DEF LogOf, Logged
        <4> QED BY <2>1, <4>2
      <3> QED BY <3>1, <3>2
    <2> QED BY <2>2 DEF Logged
  <1>2. CASE Tick \/ ClosePeriod \/ ReopenPeriod \/ UNCHANGED vars
    <2>1. UNCHANGED <<job, logs>>
      BY <1>2 DEF Tick, ClosePeriod, ReopenPeriod, vars, tables
    <2> QED BY <2>1 DEF Logged, LogOf
  <1> QED BY <1>1, <1>2 DEF Next

LEMMA LoggedInvariant == Spec => [](SheetInv /\ Logged)
  <1>1. Init => Logged
    BY DEF Init, Logged, Idle
  <1> QED BY <1>1, SheetInit, SheetStep, LoggedStep, PTL DEF Spec

LEMMA CorrectionStep ==
    ASSUME SheetInv, Logged, NEW s \in Sessions, FixWrite(s), StillThere(s)
    PROVE  \E l \in logs : l.id = entry.id /\ l.in = entry'.in /\ l.out = entry'.out
  <1>1. PICK shift \in Shifts, f \in Settings :
          UpdateRow(s, Corrected(s, entry, shift, f))
    BY DEF FixWrite
  <1>2. entry \in Entry /\ entry.id = job[s].id
    BY DEF StillThere, SheetInv, TypeOK
  <1>3. entry' = Corrected(s, entry, shift, f)
    BY <1>1 DEF UpdateRow
  <1>4. entry'.in = job[s].in /\ entry'.out = job[s].out
    BY <1>2, <1>3 DEF Corrected, Entry
  <1>5. LogOf(s) \in logs
    BY DEF FixWrite, Logged
  <1> QED BY <1>2, <1>4, <1>5 DEF LogOf

\* No correction of an existing row lands without a log of the times it writes.
THEOREM CorrectionsLogged == Spec => CorrectionLogged
  <1>1. SheetInv /\ Logged /\ [Next]_vars =>
          [\A s \in Sessions :
              FixWrite(s) /\ StillThere(s) =>
                  \E l \in logs :
                      l.id = entry.id /\ l.in = entry'.in /\ l.out = entry'.out]_vars
    BY CorrectionStep
  <1> QED BY <1>1, LoggedInvariant, PTL DEF Spec, CorrectionLogged

(***************************************************************************)
(* Writes over a row that is as it was read keep it coherent. Two more     *)
(* invariants: only a row with both times has overtime or a review, and a  *)
(* session that has the row as it is knows what it needs to know of it.    *)
(***************************************************************************)
RowWhole ==
    entry # None =>
        /\ entry.id <= lastId
        /\ entry.out # None => entry.in # None
        /\ entry.ot_status # "none" \/ entry.reviewed = TRUE => entry.out # None

JobsWhole ==
    \A s \in Sessions :
        /\ job[s].id <= lastId
        /\ StillThere(s) /\ job[s].at = "out_write" => entry.in # None
        /\ StillThere(s) /\ job[s].at \in Reviewing => entry.out # None

FreshKnown == \A s \in fresh : Known(job[s], entry)

CoherenceInv == SheetInv /\ RowWhole /\ JobsWhole /\ FreshKnown

\* The row that a write leaves: none, the same one or a new one.
LEMMA RowMoves ==
    ASSUME SheetInv, RowWhole, JobsWhole, NEW s \in Sessions, Writes(s), entry' # None
    PROVE  /\ RowWhole'
           /\ \/ entry # None /\ entry'.id = entry.id /\ lastId' = lastId
              \/ entry = None /\ entry'.id = lastId + 1 /\ lastId' = lastId + 1
  <1> USE DEF RowWhole
  <1>1. entry \in Entry \cup {None} /\ lastId \in Int /\ job[s] \in Job /\ Filled(job[s])
    BY TimesheetAssumption DEF SheetInv, TypeOK, JobsFilled
  <1>2. CASE entry' = entry /\ lastId' = lastId
    BY <1>2
  <1>3. ASSUME NEW new \in Entry, UpdateRow(s, new), new.id = entry.id,
               StillThere(s) =>
                 /\ new.out # None => new.in # None
                 /\ new.ot_status # "none" \/ new.reviewed = TRUE => new.out # None
        PROVE  /\ RowWhole'
               /\ \/ entry # None /\ entry'.id = entry.id /\ lastId' = lastId
                  \/ entry = None /\ entry'.id = lastId + 1 /\ lastId' = lastId + 1
    <2>1. CASE StillThere(s)
      <3>1. entry' = new /\ lastId' = lastId /\ entry # None
        BY <1>3, <2>1 DEF UpdateRow, StillThere
      <3> QED BY <1>3, <2>1, <3>1
    <2>2. CASE ~StillThere(s)
      BY <1>3, <2>2 DEF UpdateRow
    <2> QED BY <2>1, <2>2
  <1>4. ASSUME NEW row \in Entry, Insert(row), entry = None, row.id = lastId + 1,
               row.out # None => row.in # None,
               row.ot_status # "none" \/ row.reviewed = TRUE => row.out # None
        PROVE  /\ RowWhole'
               /\ \/ entry # None /\ entry'.id = entry.id /\ lastId' = lastId
                  \/ entry = None /\ entry'.id = lastId + 1 /\ lastId' = lastId + 1
    BY <1>1, <1>4 DEF Insert
  <1>5. CASE ClockInWrite(s)
    <2>1. job[s].in \in Times /\ job[s].in # None
      BY <1>1, <1>5, TimesheetAssumption DEF ClockInWrite, Filled
    <2>2. PICK a \in Worked :
            IF entry = None
            THEN Insert([NewRow EXCEPT !.in = job[s].in, !.attendance = a])
            ELSE /\ entry' = [entry EXCEPT !.in = job[s].in, !.attendance = a]
                 /\ UNCHANGED <<now, lastId, logs, closed>>
      BY <1>5, AttendanceTyped DEF ClockInWrite
    <2>3. CASE entry = None
      <3> DEFINE row == [NewRow EXCEPT !.in = job[s].in, !.attendance = a]
      <3>1. row \in Entry /\ row.id = lastId + 1
        BY <2>1, <2>3, NewRowTyped DEF Entry, Time
      <3>2. row.in = job[s].in /\ row.ot_status = "none" /\ row.reviewed = FALSE
        BY DEF NewRow
      <3>3. Insert(row)
        BY <2>2, <2>3
      <3> HIDE DEF row
      <3> QED BY <1>4, <2>1, <2>3, <3>1, <3>2, <3>3
    <2>4. CASE entry # None
      <3> DEFINE row == [entry EXCEPT !.in = job[s].in, !.attendance = a]
      <3>1. /\ row.id = entry.id /\ row.in = job[s].in /\ row.out = entry.out
            /\ row.ot_status = entry.ot_status /\ row.reviewed = entry.reviewed
        BY <1>1, <2>4 DEF Entry
      <3>2. entry' = row /\ lastId' = lastId
        BY <2>2, <2>4
      <3> HIDE DEF row
      <3> QED BY <1>1, <2>1, <2>4, <3>1, <3>2
    <2> QED BY <2>3, <2>4
  <1>6. CASE Refuse(s)
    BY <1>2, <1>6 DEF Refuse, tables
  <1>7. CASE ClockOutWrite(s)
    <2>1. CASE entry = None
      BY <1>7, <2>1 DEF ClockOutWrite, UpdateRow, StillThere
    <2>2. CASE entry # None
      <3>1. PICK shift \in Shifts, f \in Settings :
              UpdateRow(s, ClockedOut(s, entry, shift, f))
        BY <1>7 DEF ClockOutWrite
      <3> DEFINE new == ClockedOut(s, entry, shift, f)
      <3>2. new \in Entry
        BY <1>7, <2>2, ClockedOutTyped DEF ClockOutWrite
      <3>3. new.id = entry.id /\ new.in = entry.in /\ new.out = job[s].out
        BY <1>1, <2>2 DEF ClockedOut, Entry
      <3>4. job[s].out # None
        BY <1>1, <1>7, TimesheetAssumption DEF ClockOutWrite, Filled
      <3>5. StillThere(s) => entry.in # None
        BY <1>7 DEF ClockOutWrite, JobsWhole
      <3>6. UpdateRow(s, new)
        BY <3>1
      <3> HIDE DEF new
      <3> QED BY <1>3, <3>2, <3>3, <3>4, <3>5, <3>6
    <2> QED BY <2>1, <2>2
  <1>8. job[s].at \in Fixing => job[s].in # None /\ job[s].out # None
    BY <1>1, TimesheetAssumption DEF Filled
  <1>9. CASE FixWrite(s)
    <2>1. CASE entry = None
      BY <1>9, <2>1 DEF FixWrite, UpdateRow, StillThere
    <2>2. CASE entry # None
      <3>1. PICK shift \in Shifts, f \in Settings :
              UpdateRow(s, Corrected(s, entry, shift, f))
        BY <1>9 DEF FixWrite
      <3> DEFINE new == Corrected(s, entry, shift, f)
      <3>2. job[s].at \in Fixing
        BY <1>9 DEF FixWrite, Fixing
      <3>3. new \in Entry /\ new.id = entry.id
        BY <1>1, <2>2, <3>2, CorrectedTyped
      <3>4. new.in = job[s].in /\ new.out = job[s].out
        BY <1>1, <2>2 DEF Corrected, Entry
      <3>5. UpdateRow(s, new)
        BY <3>1
      <3> HIDE DEF new
      <3> QED BY <1>3, <1>8, <3>2, <3>3, <3>4, <3>5
    <2> QED BY <2>1, <2>2
  <1>10. CASE NewInsert(s) /\ ~Refuse(s)
    <2>1. PICK shift \in Shifts, f \in Settings :
             Insert(Corrected(s, NewRow, shift, f))
      BY <1>10 DEF NewInsert
    <2> DEFINE row == Corrected(s, NewRow, shift, f)
    <2>2. job[s].at \in Fixing /\ entry = None
      BY <1>10 DEF NewInsert, Fixing
    <2>3. NewRow \in Entry /\ NewRow.id = lastId + 1
      BY <2>2, NewRowTyped
    <2>4. row \in Entry /\ row.id = lastId + 1
      BY <2>2, <2>3, CorrectedTyped
    <2>5. row.in = job[s].in /\ row.out = job[s].out
      BY <2>3 DEF Corrected, Entry
    <2>6. Insert(row)
      BY <2>1
    <2> HIDE DEF row
    <2> QED BY <1>4, <1>8, <2>2, <2>4, <2>5, <2>6
  <1>11. CASE ReviewWrite(s)
    <2>1. CASE entry = None
      BY <1>11, <2>1 DEF ReviewWrite, UpdateRow, StillThere
    <2>2. CASE entry # None
      <3> DEFINE new == [entry EXCEPT !.ot_status = job[s].choice, !.reviewed = TRUE]
      <3>1. new \in Entry
        BY <1>1, <1>11, <2>2 DEF ReviewWrite, Filled, Entry, OtStatuses
      <3>2. new.id = entry.id /\ new.in = entry.in /\ new.out = entry.out
        BY <1>1, <2>2 DEF Entry
      <3>3. StillThere(s) => entry.out # None
        BY <1>11 DEF ReviewWrite, JobsWhole, Reviewing
      <3>4. UpdateRow(s, new)
        BY <1>11 DEF ReviewWrite
      <3> HIDE DEF new
      <3> QED BY <1>3, <2>2, <3>1, <3>2, <3>3, <3>4
    <2> QED BY <2>1, <2>2
  <1>12. CASE MarkUpdate(s)
    <2>1. CASE entry = None
      BY <1>12, <2>1 DEF MarkUpdate, UpdateRow, StillThere
    <2>2. CASE entry # None
      <3> DEFINE new == [entry EXCEPT !.attendance = job[s].choice]
      <3>1. new \in Entry
        BY <1>1, <1>12, <2>2 DEF MarkUpdate, Filled, Entry
      <3>2. /\ new.id = entry.id /\ new.in = entry.in /\ new.out = entry.out
            /\ new.ot_status = entry.ot_status /\ new.reviewed = entry.reviewed
        BY <1>1, <2>2 DEF Entry
      <3>3. UpdateRow(s, new)
        BY <1>12 DEF MarkUpdate
      <3> HIDE DEF new
      <3> QED BY <1>3, <2>2, <3>1, <3>2, <3>3
    <2> QED BY <2>1, <2>2
  <1>13. CASE MarkInsert(s) /\ ~Refuse(s)
    <2> DEFINE row == [NewRow EXCEPT !.attendance = job[s].choice]
    <2>1. Insert(row) /\ entry = None
      BY <1>13 DEF MarkInsert
    <2>2. row \in Entry /\ row.id = lastId + 1
      BY <1>1, <1>13, <2>1, NewRowTyped DEF MarkInsert, Filled, Entry
    <2>3. row.out = None /\ row.ot_status = "none" /\ row.reviewed = FALSE
      BY DEF NewRow
    <2> HIDE DEF row
    <2> QED BY <1>4, <2>1, <2>2, <2>3
  <1>14. CASE ClearWrite(s)
    BY <1>2, <1>14 DEF ClearWrite
  <1> QED BY <1>5, <1>6, <1>7, <1>9, <1>10, <1>11, <1>12, <1>13, <1>14 DEF Writes

LEMMA OthersLeaveRow ==
    ASSUME NEW s \in Sessions, Handler(s), ~Writes(s)
    PROVE  UNCHANGED <<entry, lastId>>
  <1>1. Refuse(s) => UNCHANGED <<entry, lastId>>
    BY DEF Refuse, tables
  <1>2. \A j : Read(s, j) \/ Begin(s, j) \/ ReadRow(s, j) => UNCHANGED <<entry, lastId>>
    BY DEF Read, Begin, ReadRow, tables
  <1>3. ClockInBegin(s) \/ ClockOutBegin(s) \/ NewBegin(s) \/ MarkBegin(s)
          \/ ClearBegin(s) \/ FixBegin(s) \/ ReviewBegin(s) => UNCHANGED <<entry, lastId>>
    BY <1>2 DEF ClockInBegin, ClockOutBegin, NewBegin, MarkBegin, ClearBegin,
         FixBegin, ReviewBegin
  <1>4. ClockInRead(s) \/ ClockOutRead(s) \/ FixRead(s) \/ FixCheck(s)
          \/ NewRead(s) \/ ReviewCheck(s) \/ MarkRead(s) \/ Abort(s)
          => UNCHANGED <<entry, lastId>>
    BY <1>1, <1>2 DEF ClockInRead, ClockOutRead, FixRead, FixCheck, NewRead,
         ReviewCheck, MarkRead, Abort, Go
  <1>5. FixLog(s) \/ NewLog(s) => UNCHANGED <<entry, lastId>>
    BY <1>1 DEF FixLog, NewLog
  <1> QED BY <1>3, <1>4, <1>5 DEF Handler, Writes

LEMMA IdsGrow ==
    ASSUME NEW s \in Sessions, Writes(s)
    PROVE  lastId' \in {lastId, lastId + 1}
  <1>1. NewRow.id = lastId + 1
    BY DEF NewRow
  <1>2. \A in, a : [NewRow EXCEPT !.in = in, !.attendance = a].id = lastId + 1
    BY DEF NewRow
  <1>3. \A a : [NewRow EXCEPT !.attendance = a].id = lastId + 1
    BY DEF NewRow
  <1>4. \A shift, f : Corrected(s, NewRow, shift, f).id = lastId + 1
    BY DEF NewRow, Corrected
  <1>5. Refuse(s) => lastId' = lastId
    BY DEF Refuse, tables
  <1>6. ClockInWrite(s) => lastId' \in {lastId, lastId + 1}
    BY <1>2 DEF ClockInWrite, Insert
  <1>7. MarkInsert(s) => lastId' \in {lastId, lastId + 1}
    BY <1>3, <1>5 DEF MarkInsert, Insert
  <1>8. NewInsert(s) => lastId' \in {lastId, lastId + 1}
    BY <1>4, <1>5 DEF NewInsert, Insert
  <1>9. ClockOutWrite(s) \/ FixWrite(s) \/ ReviewWrite(s) \/ MarkUpdate(s)
          \/ ClearWrite(s) => lastId' = lastId
    BY DEF ClockOutWrite, FixWrite, ReviewWrite, MarkUpdate, ClearWrite, UpdateRow
  <1> QED BY <1>6, <1>7, <1>8, <1>9 DEF Writes

LEMMA WholeStep ==
    SheetInv /\ RowWhole /\ JobsWhole /\ [Next]_vars => RowWhole' /\ JobsWhole'
  <1> SUFFICES ASSUME SheetInv, RowWhole, JobsWhole, [Next]_vars
               PROVE  RowWhole' /\ JobsWhole'
    OBVIOUS
  <1>1. ASSUME NEW s \in Sessions, Handler(s) PROVE RowWhole' /\ JobsWhole'
    <2>1. JobMoves(s)
      BY <1>1, HandlerMoves
    <2>2. lastId \in Int /\ (lastId' = lastId \/ lastId' = lastId + 1)
      BY <1>1, OthersLeaveRow, IdsGrow, TimesheetAssumption DEF SheetInv, TypeOK
    <2>3. entry' # None =>
            \/ entry # None /\ entry'.id = entry.id
            \/ entry = None /\ entry'.id = lastId + 1 /\ lastId' = lastId + 1
      BY <1>1, OthersLeaveRow, RowMoves
    <2>4. RowWhole'
      <3>1. CASE Writes(s)
        BY <3>1, RowMoves DEF RowWhole
      <3>2. CASE ~Writes(s)
        BY <1>1, <3>2, OthersLeaveRow DEF RowWhole
      <3> QED BY <3>1, <3>2
    <2>5. \A t \in Sessions : job[t].id \in Int /\ job[t].id <= lastId
      BY TimesheetAssumption DEF JobsWhole, SheetInv, TypeOK, Job
    <2>6. \A t \in Sessions : job'[t] = IF t = s THEN job'[s] ELSE job[t]
      BY <2>1 DEF JobMoves, SheetInv, TypeOK
    <2>7. ASSUME NEW t \in Sessions PROVE job'[t].id <= lastId'
      <3>1. entry # None => entry.id <= lastId /\ entry.id \in Int
        BY TimesheetAssumption DEF RowWhole, SheetInv, TypeOK, Entry
      <3>2. 0 <= lastId
        BY TimesheetAssumption DEF SheetInv, TypeOK
      <3>3. CASE t = s
        BY <2>1, <2>2, <2>5, <3>1, <3>2, <3>3 DEF JobMoves
      <3>4. CASE t # s
        BY <2>2, <2>5, <2>6, <3>4
      <3> QED BY <3>3, <3>4
    <2>8. ASSUME NEW t \in Sessions, StillThere(t), StillThere(t)', entry.in # None
          PROVE  entry'.in # None /\ (entry.out # None => entry'.out # None)
      BY <2>8, PunchesStep DEF StillThere
    <2>9. ASSUME NEW t \in Sessions, t # s, StillThere(t)'
          PROVE  StillThere(t) /\ job'[t] = job[t]
      BY <2>2, <2>3, <2>5, <2>6, <2>9 DEF StillThere
    <2>10. ASSUME NEW t \in Sessions, StillThere(t)', job'[t].at = "out_write"
           PROVE  entry'.in # None
      <3>1. CASE t = s
        BY <2>1, <2>10, <3>1 DEF JobMoves, Learned, Known
      <3>2. CASE t # s
        BY <2>8, <2>9, <2>10, <3>2 DEF JobsWhole
      <3> QED BY <3>1, <3>2
    <2>11. ASSUME NEW t \in Sessions, StillThere(t)', job'[t].at \in Reviewing
           PROVE  entry'.out # None
      <3>1. CASE t = s /\ job'[s].at = "review_check"
        BY <2>1, <3>1 DEF JobMoves, Learned, Known, Reviewing, RowWhole
      <3>2. CASE t = s /\ job'[s].at = "review_write"
        <4>1. job[s].at \in Reviewing /\ entry' = entry /\ job'[s].id = job[s].id
          BY <2>1, <3>2 DEF JobMoves, Reviewing
        <4>2. StillThere(s)
          BY <2>11, <3>2, <4>1 DEF StillThere
        <4> QED BY <4>1, <4>2 DEF JobsWhole
      <3>3. CASE t # s
        <4>1. StillThere(t) /\ entry.out # None
          BY <2>9, <2>11, <3>3 DEF JobsWhole
        <4>2. entry.in # None
          BY <4>1 DEF StillThere, RowWhole
        <4> QED BY <2>8, <2>11, <4>1, <4>2
      <3> QED BY <2>11, <3>1, <3>2, <3>3 DEF Reviewing
    <2> QED BY <2>4, <2>7, <2>10, <2>11 DEF JobsWhole
  <1>2. CASE Tick \/ ClosePeriod \/ ReopenPeriod \/ UNCHANGED vars
    <2>1. UNCHANGED <<entry, lastId, job>>
      BY <1>2 DEF Tick, ClosePeriod, ReopenPeriod, vars, tables
    <2> QED BY <2>1 DEF RowWhole, JobsWhole, StillThere
  <1> QED BY <1>1, <1>2 DEF Next

\* Whoever changes the row leaves nobody with the row as it is.
LEMMA WritesEndFreshness ==
    ASSUME NEW s \in Sessions, Handler(s), entry' # entry
    PROVE  fresh' = {}
  <1>1. Writes(s)
    BY OthersLeaveRow
  <1>2. Return(s) => fresh' = {}
    BY DEF Return
  <1> QED BY <1>1, <1>2 DEF Writes, ClockInWrite, ClockOutWrite, FixWrite,
        NewInsert, ReviewWrite, MarkUpdate, MarkInsert, ClearWrite, UpdateRow, Refuse

LEMMA FreshComes ==
    ASSUME NEW s \in Sessions, Handler(s)
    PROVE  fresh' \subseteq fresh \cup {s}
  <1>1. Refuse(s) \/ Return(s) => fresh' \subseteq fresh
    BY DEF Refuse, Return
  <1>2. \A j : Begin(s, j) \/ ReadRow(s, j) => fresh' \subseteq fresh \cup {s}
    BY DEF Begin, ReadRow
  <1>3. ClockInBegin(s) \/ ClockOutBegin(s) \/ NewBegin(s) \/ MarkBegin(s)
          \/ ClearBegin(s) \/ FixBegin(s) \/ ReviewBegin(s)
          => fresh' \subseteq fresh \cup {s}
    BY <1>2 DEF ClockInBegin, ClockOutBegin, NewBegin, MarkBegin, ClearBegin,
         FixBegin, ReviewBegin
  <1>4. ClockInRead(s) \/ ClockOutRead(s) \/ FixRead(s) \/ FixCheck(s)
          \/ NewRead(s) \/ ReviewCheck(s) \/ MarkRead(s) \/ Abort(s)
          => fresh' \subseteq fresh \cup {s}
    BY <1>1, <1>2 DEF ClockInRead, ClockOutRead, FixRead, FixCheck, NewRead,
         ReviewCheck, MarkRead, Abort, Go
  <1>5. FixLog(s) \/ NewLog(s) \/ NewInsert(s) => fresh' \subseteq fresh
    BY <1>1 DEF FixLog, NewLog, NewInsert, history
  <1>6. ClockInWrite(s) \/ ClockOutWrite(s) \/ FixWrite(s) \/ ReviewWrite(s)
          \/ MarkUpdate(s) \/ MarkInsert(s) \/ ClearWrite(s) => fresh' \subseteq fresh
    BY <1>1 DEF ClockInWrite, ClockOutWrite, FixWrite, ReviewWrite, MarkUpdate,
         MarkInsert, ClearWrite, UpdateRow
  <1> QED BY <1>3, <1>4, <1>5, <1>6 DEF Handler

LEMMA FreshStep == SheetInv /\ FreshKnown /\ [Next]_vars => FreshKnown'
  <1> SUFFICES ASSUME SheetInv, FreshKnown, [Next]_vars PROVE FreshKnown'
    OBVIOUS
  <1>1. ASSUME NEW s \in Sessions, Handler(s) PROVE FreshKnown'
    <2>1. JobMoves(s) /\ fresh' \subseteq fresh \cup {s}
      BY <1>1, HandlerMoves, FreshComes
    <2>2. CASE entry' # entry
      BY <1>1, <2>2, WritesEndFreshness DEF FreshKnown
    <2>3. CASE entry' = entry
      <3>1. ASSUME NEW t \in fresh', t # s PROVE Known(job'[t], entry')
        <4>1. t \in fresh /\ job'[t] = job[t]
          BY <2>1, <3>1 DEF JobMoves, SheetInv, TypeOK
        <4> QED BY <2>3, <4>1 DEF FreshKnown
      <3>2. ASSUME s \in fresh' PROVE Known(job'[s], entry')
        <4>1. CASE Learned(s)
          BY <4>1 DEF Learned
        <4>2. CASE job'[s].at = "review_write"
          <5>1. s \in fresh /\ job[s].at = "review_check"
            BY <2>1, <3>2, <4>2 DEF JobMoves
          <5>2. entry # None /\ entry.ot_status = "pending"
            BY <5>1 DEF FreshKnown, Known, Reviewing
          <5> QED BY <2>3, <4>2, <5>2 DEF Known, Reviewing
        <4>3. CASE ~Learned(s) /\ job'[s].at # "review_write"
          <5>1. job'[s].at \notin {"in_write", "out_write", "mark_write",
                                  "review_check", "review_write"}
            BY <2>1, <4>3 DEF JobMoves
          <5> QED BY <5>1 DEF Known, Reviewing
        <4> QED BY <4>1, <4>2, <4>3
      <3> QED BY <3>1, <3>2 DEF FreshKnown
    <2> QED BY <2>2, <2>3
  <1>2. CASE Tick \/ ClosePeriod \/ ReopenPeriod \/ UNCHANGED vars
    <2>1. UNCHANGED <<entry, fresh, job>>
      BY <1>2 DEF Tick, ClosePeriod, ReopenPeriod, vars, tables, history
    <2> QED BY <2>1 DEF FreshKnown
  <1> QED BY <1>1, <1>2 DEF Next

LEMMA CoherenceInvariant == Spec => []CoherenceInv
  <1>1. Init => CoherenceInv
    <2>1. Init => RowWhole /\ FreshKnown
      BY DEF Init, RowWhole, FreshKnown
    <2>2. Init => JobsWhole
      BY DEF Init, JobsWhole, Idle, StillThere
    <2> QED BY <2>1, <2>2, SheetInit DEF CoherenceInv
  <1>2. CoherenceInv /\ [Next]_vars => CoherenceInv'
    BY SheetStep, WholeStep, FreshStep DEF CoherenceInv
  <1> QED BY <1>1, <1>2, PTL DEF Spec

\* Coherent, of a row.
CoherentRow(row) ==
    /\ row.out # None => row.in # None
    /\ row.in # None /\ row.out # None =>
           \E f \in Settings : row.hours = calculate(row.in, row.out, f)
    /\ row.reviewed = TRUE => row.ot_status \in {"approved", "rejected"}
    /\ row.attendance \in Absences => row.in = None

LEMMA FreshWriteCoherent ==
    ASSUME CoherenceInv, NEW s \in Sessions, Writes(s), Known(job[s], entry),
           entry # None => CoherentRow(entry), entry' # None, entry' # entry
    PROVE  CoherentRow(entry')
  <1> USE DEF CoherentRow
  <1>1. /\ entry \in Entry \cup {None} /\ job[s] \in Job /\ Filled(job[s]) /\ SheetInv
        /\ ~Refuse(s) /\ Worked \cap Absences = {}
    BY TimesheetAssumption DEF CoherenceInv, SheetInv, TypeOK, JobsFilled, Refuse,
       tables, Worked
  <1>2. \A new : UpdateRow(s, new) => entry' = new /\ entry # None
    BY DEF UpdateRow, StillThere
  <1>3. CASE ClockInWrite(s)
    <2>1. entry = None \/ (entry.in = None /\ entry.out = None)
      BY <1>3 DEF ClockInWrite, Known
    <2>2. PICK a \in Worked :
            IF entry = None
            THEN Insert([NewRow EXCEPT !.in = job[s].in, !.attendance = a])
            ELSE /\ entry' = [entry EXCEPT !.in = job[s].in, !.attendance = a]
                 /\ UNCHANGED <<now, lastId, logs, closed>>
      BY <1>3, AttendanceTyped DEF ClockInWrite
    <2>3. CASE entry = None
      <3> DEFINE row == [NewRow EXCEPT !.in = job[s].in, !.attendance = a]
      <3>1. row.out = None /\ row.reviewed = FALSE /\ row.attendance = a
        BY DEF NewRow
      <3>2. entry' = row
        BY <2>2, <2>3 DEF Insert
      <3> HIDE DEF row
      <3> QED BY <1>1, <3>1, <3>2
    <2>4. CASE entry # None
      <3> DEFINE row == [entry EXCEPT !.in = job[s].in, !.attendance = a]
      <3>1. /\ row.out = entry.out /\ row.reviewed = entry.reviewed
            /\ row.ot_status = entry.ot_status /\ row.attendance = a
        BY <1>1, <2>4 DEF Entry
      <3>2. entry' = row
        BY <2>2, <2>4
      <3> HIDE DEF row
      <3> QED BY <1>1, <2>1, <2>4, <3>1, <3>2
    <2> QED BY <2>3, <2>4
  <1>4. CASE ClockOutWrite(s)
    <2>1. PICK shift \in Shifts, f \in Settings :
            UpdateRow(s, ClockedOut(s, entry, shift, f))
      BY <1>4 DEF ClockOutWrite
    <2> DEFINE a == evaluate_attendance(job[s].in, job[s].out, shift, f)
               hours == calculate(job[s].in, job[s].out, f)
               status == ot_status_for_minutes(hours.ot, f)
               row == [entry EXCEPT !.out = job[s].out, !.hours = hours,
                                    !.ot_status = status, !.attendance = a]
    <2>2. entry' = row /\ entry # None
      BY <1>2, <2>1 DEF ClockedOut
    <2>3. a \in Worked
      BY AttendanceTyped
    <2>4. entry.in = job[s].in /\ entry.in # None /\ entry.out = None
      BY <1>4 DEF ClockOutWrite, Known
    <2>5. entry.reviewed # TRUE
      BY <2>2, <2>4 DEF CoherenceInv, RowWhole
    <2> HIDE DEF a, status
    <2>6. /\ row.in = entry.in /\ row.out = job[s].out /\ row.hours = hours
          /\ row.reviewed = entry.reviewed /\ row.attendance = a
      BY <1>1, <2>2 DEF Entry
    <2> HIDE DEF row
    <2> QED BY <1>1, <2>2, <2>3, <2>4, <2>5, <2>6
  <1>5. ASSUME NEW old \in Entry, NEW shift \in Shifts, NEW f \in Settings,
               job[s].at \in Fixing, entry' = Corrected(s, old, shift, f)
        PROVE  CoherentRow(entry')
    <2> DEFINE a == evaluate_attendance(job[s].in, job[s].out, shift, f)
               hours == calculate(job[s].in, job[s].out, f)
               status == ot_status_for_minutes(hours.ot, f)
               row == [old EXCEPT !.in = job[s].in, !.out = job[s].out,
                                  !.hours = hours, !.ot_status = status,
                                  !.reviewed = FALSE, !.attendance = a]
    <2>1. entry' = row
      BY <1>5 DEF Corrected
    <2>2. a \in Worked
      BY AttendanceTyped
    <2>3. job[s].in # None
      BY <1>1, <1>5, TimesheetAssumption DEF Filled
    <2> HIDE DEF a, status
    <2>4. /\ row.in = job[s].in /\ row.out = job[s].out /\ row.hours = hours
          /\ row.reviewed = FALSE /\ row.attendance = a
      BY DEF Entry
    <2> HIDE DEF row
    <2> QED BY <1>1, <2>1, <2>2, <2>3, <2>4
  <1>6. CASE FixWrite(s)
    <2>1. PICK shift \in Shifts, f \in Settings :
            UpdateRow(s, Corrected(s, entry, shift, f))
      BY <1>6 DEF FixWrite
    <2>2. entry' = Corrected(s, entry, shift, f) /\ entry # None
      BY <1>2, <2>1
    <2>3. entry \in Entry /\ job[s].at \in Fixing
      BY <1>1, <1>6, <2>2 DEF FixWrite, Fixing
    <2> QED BY <1>5, <2>2, <2>3
  <1>7. CASE NewInsert(s)
    <2>1. entry = None /\ job[s].at \in Fixing
      BY <1>1, <1>7 DEF NewInsert, Fixing
    <2>2. NewRow \in Entry
      BY <1>1, <2>1, NewRowTyped
    <2> QED BY <1>1, <1>5, <1>7, <2>1, <2>2 DEF NewInsert, Insert
  <1>8. CASE ReviewWrite(s)
    <2> DEFINE row == [entry EXCEPT !.ot_status = job[s].choice, !.reviewed = TRUE]
    <2>1. entry' = row /\ entry # None
      BY <1>2, <1>8 DEF ReviewWrite
    <2>2. job[s].choice \in {"approved", "rejected"}
      BY <1>1, <1>8 DEF ReviewWrite, Filled
    <2>3. /\ row.in = entry.in /\ row.out = entry.out /\ row.hours = entry.hours
          /\ row.ot_status = job[s].choice /\ row.attendance = entry.attendance
      BY <1>1, <2>1 DEF Entry
    <2> HIDE DEF row
    <2> QED BY <2>1, <2>2, <2>3
  <1>9. CASE MarkUpdate(s)
    <2> DEFINE row == [entry EXCEPT !.attendance = job[s].choice]
    <2>1. entry' = row /\ entry # None
      BY <1>2, <1>9 DEF MarkUpdate
    <2>2. entry.in = None
      BY <1>9 DEF MarkUpdate, Known
    <2>3. /\ row.in = entry.in /\ row.out = entry.out /\ row.hours = entry.hours
          /\ row.ot_status = entry.ot_status /\ row.reviewed = entry.reviewed
      BY <1>1, <2>1 DEF Entry
    <2> HIDE DEF row
    <2> QED BY <2>1, <2>2, <2>3
  <1>10. CASE MarkInsert(s)
    <2> DEFINE row == [NewRow EXCEPT !.attendance = job[s].choice]
    <2>1. entry' = row
      BY <1>1, <1>10 DEF MarkInsert, Insert
    <2>2. row.in = None /\ row.out = None /\ row.reviewed = FALSE
      BY DEF NewRow
    <2> HIDE DEF row
    <2> QED BY <2>1, <2>2
  <1>11. CASE ClearWrite(s)
    BY <1>11 DEF ClearWrite
  <1> QED BY <1>3, <1>4, <1>6, <1>7, <1>8, <1>9, <1>10, <1>11 DEF Writes

LEMMA CoherenceStep ==
    ASSUME CoherenceInv, [Next]_vars, Coherent, \A s \in Sessions : WritesFresh(s)
    PROVE  Coherent'
  <1>1. entry \in Entry \cup {None} /\ entry' \in Entry \cup {None}
    BY SheetStep DEF CoherenceInv, SheetInv, TypeOK
  <1>2. /\ \A row \in Entry : row.reviewed \in BOOLEAN
        /\ entry # None => CoherentRow(entry)
    BY <1>1 DEF Coherent, CoherentRow, HoursMatch, ReviewStands, MarkedMeansAbsent, Entry
  <1>3. CASE entry' = entry
    BY <1>3 DEF Coherent, HoursMatch, ReviewStands, MarkedMeansAbsent
  <1>4. CASE entry' # entry
    <2>1. PICK s \in Sessions : Writes(s)
      BY <1>4, WhoWrites
    <2>2. s \in fresh
      BY <2>1, WritersMoveOn DEF WritesFresh, CoherenceInv
    <2>3. Known(job[s], entry)
      BY <2>2 DEF CoherenceInv, FreshKnown
    <2>4. entry' # None => CoherentRow(entry')
      BY <1>2, <1>4, <2>1, <2>3, FreshWriteCoherent
    <2>5. entry' # None /\ entry'.reviewed => entry'.reviewed = TRUE
      BY <1>1, <1>2
    <2> QED BY <2>4, <2>5 DEF Coherent, CoherentRow, HoursMatch, ReviewStands,
               MarkedMeansAbsent
  <1> QED BY <1>3, <1>4

\* Requests that do not overlap on the row keep it coherent: only a write over a
\* row that has changed since it was read can leave minutes of other times, a
\* review of other overtime, or a mark on a worked day.
THEOREM FreshWritesCoherent == Spec => CoherenceKept
  <1>1. CoherenceInv /\ [Next]_vars =>
          [Coherent /\ (\A s \in Sessions : WritesFresh(s)) => Coherent']_vars
    BY CoherenceStep
  <1> QED BY <1>1, CoherenceInvariant, PTL DEF Spec, CoherenceKept
=============================================================================
