----------------------------- MODULE Timesheet -----------------------------
(***************************************************************************)
(* The time entry of one employee on one work date, and everything that    *)
(* writes it: services/clock.rs, corrections.rs, ot.rs, attendance.rs and  *)
(* the minutes of services/hours.rs. Rows of other employees and dates are *)
(* never read by these handlers.                                           *)
(*                                                                         *)
(* Every statement commits on its own. A handler starts with the step of   *)
(* its first check; job[s].at names the statement that comes next. Shift   *)
(* templates and settings can be changed at any time, so a handler may have *)
(* read any of them. Requests that are refused for what they contain (a    *)
(* correction that ends before it starts, overtime without a reason, a     *)
(* reviewer of another team) change nothing and are no steps.              *)
(***************************************************************************)
EXTENDS Integers, FiniteSets

CONSTANTS
    Sessions,      \* HTTP requests being served at the same time
    Times,         \* minutes of the work date at which something happens
    Settings,      \* what an admin may set up
    Shifts,        \* shift templates of the weekday, None for a day off
    Absences,      \* marks of an absence, by a manager or an approved leave
    MaxIds,        \* rows that the date can have one after the other
    MaxLogs,       \* no correction begins with this many logged
    None           \* NULL, no row

Midnight == 1440
Setting == [break : Nat, threshold : Nat, grace : Nat, approval : BOOLEAN]
Shift == [start : 0 .. Midnight - 1, end : 0 .. Midnight - 1]

VARIABLES
    now,      \* the company clock; Midnight when the work date is over
    entry,    \* the time_entries row, None while there is none
    lastId,   \* rows inserted so far
    logs,     \* correction_logs rows: the row and the times it was given
    closed,   \* the date is in a closed pay period
    job,      \* job[s]: what session s is doing and has read
    fresh,    \* history: sessions that have the row as it is
    before    \* history: sessions at work since before the date was closed

vars == <<now, entry, lastId, logs, closed, job, fresh, before>>
history == <<fresh, before>>
tables == <<entry, lastId, logs, closed>>

OtStatuses == {"none", "pending", "approved", "rejected"}
Worked == {"on_time", "late", "partial"}
Hours == [net : Nat, regular : Nat, ot : Nat]
NoHours == [net |-> 0, regular |-> 0, ot |-> 0]
Time == Times \cup {None}

Entry == [id : 1..MaxIds, in : Time, out : Time, hours : Hours,
          ot_status : OtStatuses, reviewed : BOOLEAN,
          attendance : Worked \cup Absences]
Log == [id : 1..MaxIds, in : Times, out : Times]

ASSUME TimesheetAssumption ==
    /\ Times \subseteq 0 .. Midnight - 1
    /\ Settings \subseteq Setting
    /\ Shifts \subseteq Shift \cup {None}
    /\ None \notin Times /\ None \notin Settings /\ None \notin Entry
    /\ Absences \cap {None, "on_time", "late", "partial"} = {}
    /\ MaxIds \in Nat \ {0} /\ MaxLogs \in Nat

WriteSteps == {"in_write", "out_write", "fix_write", "new_insert",
               "review_write", "mark_write", "clear_write"}
Steps == {"idle", "in_read", "out_read", "fix_read", "fix_check", "fix_log",
          "new_read", "new_log", "review_check", "mark_read"} \cup WriteSteps
Choices == Absences \cup {"approved", "rejected", None}

Idle == [at |-> "idle", id |-> 0, in |-> None, out |-> None, choice |-> None]
Job == [at : Steps, id : 0..MaxIds, in : Time, out : Time, choice : Choices]

TypeOK ==
    /\ now \in Times \cup {Midnight}
    /\ entry \in Entry \cup {None}
    /\ lastId \in 0..MaxIds
    /\ logs \subseteq Log
    /\ closed \in BOOLEAN
    /\ job \in [Sessions -> Job]
    /\ fresh \subseteq Sessions
    /\ before \subseteq Sessions

Init ==
    /\ now \in Times
    /\ entry = None
    /\ lastId = 0
    /\ logs = {}
    /\ closed = FALSE
    /\ job = [s \in Sessions |-> Idle]
    /\ fresh = {}
    /\ before = {}

(***************************************************************************)
(* Minutes and attendance.                                                 *)
(***************************************************************************)
AtLeastZero(n) == IF n > 0 THEN n ELSE 0
Lesser(m, n) == IF m < n THEN m ELSE n

calculate(in, out, f) ==
    LET net == AtLeastZero(out - in - f.break) IN
    [net |-> net, regular |-> Lesser(net, f.threshold),
     ot |-> AtLeastZero(net - f.threshold)]

ot_status_for_minutes(ot, f) ==
    IF ot = 0 THEN "none" ELSE IF f.approval THEN "pending" ELSE "approved"

ShiftEnd(shift) ==
    IF shift.end <= shift.start THEN shift.end + Midnight ELSE shift.end

\* Half an hour less than the shift still counts as the whole of it.
Short(in, out, shift) == out - in + 30 < ShiftEnd(shift) - shift.start

evaluate_attendance(in, out, shift, f) ==
    IF shift = None THEN "on_time"
    ELSE IF in > shift.start + f.grace THEN "late"
    ELSE IF out # None /\ Short(in, out, shift) THEN "partial"
    ELSE "on_time"

(***************************************************************************)
(* Steps of a handler.                                                     *)
(***************************************************************************)
\* The statements between the first check and the first write.
Read(s, j) ==
    /\ job' = [job EXCEPT ![s] = j]
    /\ UNCHANGED <<now, tables, before>>

Begin(s, j) == job[s] = Idle /\ Read(s, j) /\ UNCHANGED fresh

\* The next statement, with the row as it is now.
ReadRow(s, j) == Read(s, j) /\ fresh' = fresh \cup {s}
Go(s, at) == Read(s, [job[s] EXCEPT !.at = at]) /\ UNCHANGED fresh

\* The handler is over; nobody has the row as it is when it has just changed.
Return(s) ==
    /\ job' = [job EXCEPT ![s] = Idle]
    /\ fresh' = IF entry' = entry THEN fresh \ {s} ELSE {}
    /\ before' = before \ {s}
Refuse(s) == UNCHANGED <<now, tables>> /\ Return(s)

\* WHERE id = $1 finds the row that was read.
StillThere(s) == entry # None /\ entry.id = job[s].id

\* The row is updated, by id: nothing happens when it is gone.
UpdateRow(s, new) ==
    /\ entry' = IF StillThere(s) THEN new ELSE entry
    /\ Return(s)
    /\ UNCHANGED <<now, lastId, logs, closed>>

NewRow == [id |-> lastId + 1, in |-> None, out |-> None, hours |-> NoHours,
           ot_status |-> "none", reviewed |-> FALSE, attendance |-> "on_time"]

Insert(row) == /\ entry' = row
               /\ lastId' = row.id
               /\ UNCHANGED <<now, logs, closed>>

assert_work_date_editable == ~closed

(***************************************************************************)
(* clock_in and clock_out.                                                 *)
(***************************************************************************)
ClockInBegin(s) ==
    /\ now # Midnight
    /\ assert_work_date_editable
    /\ Begin(s, [Idle EXCEPT !.at = "in_read", !.in = now])

ClockInRead(s) ==
    /\ job[s].at = "in_read"
    /\ IF entry # None /\ (entry.in # None \/ entry.out # None)
       THEN Refuse(s)
       ELSE ReadRow(s, [job[s] EXCEPT !.at = "in_write"])

\* INSERT .. ON CONFLICT (employee_id, work_date) DO UPDATE.
ClockInWrite(s) ==
    /\ job[s].at = "in_write"
    /\ \E shift \in Shifts, f \in Settings :
          LET a == evaluate_attendance(job[s].in, None, shift, f) IN
          IF entry = None
          THEN Insert([NewRow EXCEPT !.in = job[s].in, !.attendance = a])
          ELSE /\ entry' = [entry EXCEPT !.in = job[s].in, !.attendance = a]
               /\ UNCHANGED <<now, lastId, logs, closed>>
    /\ Return(s)

ClockOutBegin(s) ==
    /\ now # Midnight
    /\ assert_work_date_editable
    /\ Begin(s, [Idle EXCEPT !.at = "out_read", !.out = now])

ClockOutRead(s) ==
    /\ job[s].at = "out_read"
    /\ IF entry # None /\ entry.in # None /\ entry.out = None
       THEN ReadRow(s, [job[s] EXCEPT !.at = "out_write",
                                      !.id = entry.id, !.in = entry.in])
       ELSE Refuse(s)

ClockedOut(s, row, shift, f) ==
    LET in == job[s].in
        out == job[s].out
        hours == calculate(in, out, f)
    IN [row EXCEPT !.out = out, !.hours = hours,
                   !.ot_status = ot_status_for_minutes(hours.ot, f),
                   !.attendance = evaluate_attendance(in, out, shift, f)]

ClockOutWrite(s) ==
    /\ job[s].at = "out_write"
    /\ \E shift \in Shifts, f \in Settings :
          UpdateRow(s, ClockedOut(s, entry, shift, f))

(***************************************************************************)
(* correct_entry and create_corrected_entry.                               *)
(***************************************************************************)
\* Both times are on the work date.
Correction(at, id) ==
    {[Idle EXCEPT !.at = at, !.id = id, !.in = p[1], !.out = p[2]] :
        p \in {q \in Times \X Times : q[1] < q[2]}}

FixBegin(s) ==
    /\ job[s] = Idle /\ entry # None
    /\ Cardinality(logs) < MaxLogs
    /\ \E j \in Correction("fix_check", entry.id) : ReadRow(s, j)

\* Mutant: the closed period is not looked at.
FixUnchecked(s) == job[s].at = "fix_check" /\ Go(s, "fix_log")

FixCheck(s) ==
    /\ job[s].at = "fix_check"
    /\ IF assert_work_date_editable THEN Go(s, "fix_log") ELSE Refuse(s)

LogOf(s) == [id |-> job[s].id, in |-> job[s].in, out |-> job[s].out]

\* Mutant: the log is left to the statement after the update.
FixLogLater(s) == job[s].at = "fix_log" /\ Go(s, "fix_write")

\* The log refers to the row, so it cannot be inserted when that is gone.
FixLog(s) ==
    /\ job[s].at = "fix_log"
    /\ IF StillThere(s)
       THEN /\ logs' = logs \cup {LogOf(s)}
            /\ job' = [job EXCEPT ![s].at = "fix_write"]
            /\ UNCHANGED <<now, entry, lastId, closed, history>>
       ELSE Refuse(s)

Corrected(s, row, shift, f) ==
    LET in == job[s].in
        out == job[s].out
        hours == calculate(in, out, f)
    IN [row EXCEPT !.in = in, !.out = out, !.hours = hours,
                   !.ot_status = ot_status_for_minutes(hours.ot, f),
                   !.reviewed = FALSE,
                   !.attendance = evaluate_attendance(in, out, shift, f)]

\* Mutant: the review of the old minutes is kept.
FixKeepsReview(s) ==
    /\ job[s].at = "fix_write"
    /\ \E shift \in Shifts, f \in Settings :
          UpdateRow(s, [Corrected(s, entry, shift, f) EXCEPT !.reviewed = entry.reviewed])

\* Mutant: the overtime status stays as it was.
FixKeepsStatus(s) ==
    /\ job[s].at = "fix_write"
    /\ \E shift \in Shifts, f \in Settings :
          UpdateRow(s, [Corrected(s, entry, shift, f) EXCEPT !.ot_status = entry.ot_status])

FixWrite(s) ==
    /\ job[s].at = "fix_write"
    /\ \E shift \in Shifts, f \in Settings :
          UpdateRow(s, Corrected(s, entry, shift, f))

NewBegin(s) ==
    /\ assert_work_date_editable
    /\ Cardinality(logs) < MaxLogs
    /\ \E j \in Correction("new_read", 0) : Begin(s, j)

\* An entry that is there is corrected, from its row read once more.
NewRead(s) ==
    /\ job[s].at = "new_read"
    /\ IF entry = None
       THEN ReadRow(s, [job[s] EXCEPT !.at = "new_insert"])
       ELSE ReadRow(s, [job[s] EXCEPT !.at = "fix_read", !.id = entry.id])

FixRead(s) ==
    /\ job[s].at = "fix_read"
    /\ IF StillThere(s)
       THEN ReadRow(s, [job[s] EXCEPT !.at = "fix_check"])
       ELSE Refuse(s)

\* UNIQUE (employee_id, work_date) refuses a second row.
NewInsert(s) ==
    /\ job[s].at = "new_insert"
    /\ IF entry = None
       THEN /\ \E shift \in Shifts, f \in Settings :
                  Insert(Corrected(s, NewRow, shift, f))
            /\ job' = [job EXCEPT ![s].at = "new_log", ![s].id = lastId']
            /\ fresh' = {}
            /\ UNCHANGED before
       ELSE Refuse(s)

NewLog(s) ==
    /\ job[s].at = "new_log"
    /\ logs' = logs \cup {LogOf(s)}
    /\ UNCHANGED <<now, entry, lastId, closed>>
    /\ Return(s)

(***************************************************************************)
(* review_overtime.                                                        *)
(***************************************************************************)
ReviewBegin(s) ==
    /\ job[s] = Idle
    /\ entry # None /\ entry.ot_status = "pending"
    /\ \E verdict \in {"approved", "rejected"} :
          ReadRow(s, [Idle EXCEPT !.at = "review_check", !.id = entry.id,
                                  !.choice = verdict])

ReviewCheck(s) ==
    /\ job[s].at = "review_check"
    /\ IF assert_work_date_editable THEN Go(s, "review_write") ELSE Refuse(s)

ReviewWrite(s) ==
    /\ job[s].at = "review_write"
    /\ UpdateRow(s, [entry EXCEPT !.ot_status = job[s].choice, !.reviewed = TRUE])

(***************************************************************************)
(* mark_absence_for_employee, and the marks of an approved leave request.  *)
(***************************************************************************)
MarkBegin(s) ==
    /\ assert_work_date_editable
    /\ \E mark \in Absences :
          Begin(s, [Idle EXCEPT !.at = "mark_read", !.choice = mark])

MarkRead(s) ==
    /\ job[s].at = "mark_read"
    /\ IF entry # None /\ entry.in # None
       THEN Refuse(s)
       ELSE ReadRow(s, [job[s] EXCEPT !.at = "mark_write",
                           !.id = IF entry = None THEN 0 ELSE entry.id])

MarkUpdate(s) ==
    /\ job[s].at = "mark_write" /\ job[s].id # 0
    /\ UpdateRow(s, [entry EXCEPT !.attendance = job[s].choice])

MarkInsert(s) ==
    /\ job[s].at = "mark_write" /\ job[s].id = 0
    /\ IF entry = None
       THEN Insert([NewRow EXCEPT !.attendance = job[s].choice]) /\ Return(s)
       ELSE Refuse(s)

(***************************************************************************)
(* clear_leave_absence_for_employee_in_tx, when a leave is revoked.        *)
(***************************************************************************)
ClearBegin(s) ==
    /\ assert_work_date_editable
    /\ \E mark \in Absences :
          Begin(s, [Idle EXCEPT !.at = "clear_write", !.choice = mark])

Clearable(s) ==
    /\ entry # None
    /\ entry.in = None /\ entry.out = None
    /\ entry.attendance = job[s].choice

\* A log that refers to the row makes the DELETE fail.
ClearWrite(s) ==
    /\ job[s].at = "clear_write"
    /\ lastId < MaxIds
    /\ entry' = IF Clearable(s) /\ \A l \in logs : l.id # entry.id
                THEN None ELSE entry
    /\ Return(s)
    /\ UNCHANGED <<now, lastId, logs, closed>>

(***************************************************************************)
(* The rest of the world.                                                  *)
(***************************************************************************)
\* The client goes away, and with it the handler's future, or a statement
\* fails: the handler stops between two statements.
Abort(s) == job[s] # Idle /\ Refuse(s)

Tick ==
    /\ now' \in Times \cup {Midnight}
    /\ now' > now
    /\ UNCHANGED <<tables, job, history>>

ClosePeriod ==
    /\ ~closed
    /\ closed' = TRUE
    /\ before' = {s \in Sessions : job[s] # Idle}
    /\ UNCHANGED <<now, entry, lastId, logs, job, fresh>>

ReopenPeriod ==
    /\ closed
    /\ closed' = FALSE
    /\ before' = {}
    /\ UNCHANGED <<now, entry, lastId, logs, job, fresh>>

Handler(s) ==
    \/ ClockInBegin(s) \/ ClockInRead(s) \/ ClockInWrite(s)
    \/ ClockOutBegin(s) \/ ClockOutRead(s) \/ ClockOutWrite(s)
    \/ FixBegin(s) \/ FixRead(s) \/ FixCheck(s) \/ FixLog(s) \/ FixWrite(s)
    \/ NewBegin(s) \/ NewRead(s) \/ NewInsert(s) \/ NewLog(s)
    \/ ReviewBegin(s) \/ ReviewCheck(s) \/ ReviewWrite(s)
    \/ MarkBegin(s) \/ MarkRead(s) \/ MarkUpdate(s) \/ MarkInsert(s)
    \/ ClearBegin(s) \/ ClearWrite(s)
    \/ Abort(s)

Next == (\E s \in Sessions : Handler(s)) \/ Tick \/ ClosePeriod \/ ReopenPeriod

Spec == Init /\ [][Next]_vars

(***************************************************************************)
(* Properties.                                                             *)
(***************************************************************************)
\* Overtime is never out of sight of payroll: minutes above the threshold are
\* pending, approved or rejected, and what is pending has such minutes. Three
\* handlers write the minutes, a fourth only the status (clock.rs:146,
\* corrections.rs:73 and 207, ot.rs:113).
OvertimeAccounted ==
    entry # None =>
        /\ entry.hours.ot > 0 => entry.ot_status # "none"
        /\ entry.ot_status = "pending" => entry.hours.ot > 0

\* A row with a clock-in is never deleted or replaced, and neither of its
\* times becomes NULL again, whatever leave is marked and revoked meanwhile
\* (attendance.rs:79-100, 181-225).
PunchesKept ==
    [][entry # None /\ entry.in # None =>
          /\ entry' # None /\ entry'.id = entry.id /\ entry'.in # None
          /\ entry.out # None => entry'.out # None]_vars

\* A closed date only changes through a handler that started before the close
\* (assert_work_date_editable in every handler). README.md:209 of the system
\* promises that it does not change at all.
FrozenWhenClosed ==
    [][closed /\ entry' # entry =>
          \E s \in Sessions : /\ job[s].at \in WriteSteps
                              /\ job'[s] # job[s]
                              /\ s \in before]_vars

\* A correction of a row has its log, with the times it writes, before it lands,
\* also when the row has gone and come back meanwhile (corrections.rs:54-103).
CorrectionLogged ==
    [][\A s \in Sessions :
          FixWrite(s) /\ StillThere(s) =>
              \E l \in logs :
                  l.id = entry.id /\ l.in = entry'.in /\ l.out = entry'.out]_vars

\* What a reader of a row relies on: its minutes are those of its times under
\* some settings, a review is of the overtime it has, and an absence mark is on
\* a row without times.
HoursMatch ==
    entry.in # None /\ entry.out # None =>
        \E f \in Settings : entry.hours = calculate(entry.in, entry.out, f)
ReviewStands == entry.reviewed => entry.ot_status \in {"approved", "rejected"}
MarkedMeansAbsent == entry.attendance \in Absences => entry.in = None

Coherent ==
    entry # None =>
        /\ entry.out # None => entry.in # None
        /\ HoursMatch
        /\ ReviewStands
        /\ MarkedMeansAbsent

\* A session that writes has the row as it is.
WritesFresh(s) ==
    job'[s] # job[s] /\ job[s].at \in WriteSteps => s \in fresh

\* Only a write over a row that has changed since it was read can make the row
\* incoherent: no sequence of requests that do not overlap can
\* (clock.rs:55-175, corrections.rs:23-103, ot.rs:68-129, attendance.rs).
CoherenceKept ==
    [][Coherent /\ (\A s \in Sessions : WritesFresh(s)) => Coherent']_vars
=============================================================================
