--------------------------------- MODULE Eod --------------------------------
(***************************************************************************)
(* End-of-day reports: drafts, submissions and unlocks, the pages that     *)
(* list them and the notifications of a missing one (services/eod,         *)
(* services/notifications.rs, handlers/eod).                               *)
(*                                                                         *)
(* A save is a sequence of statements outside a transaction: it looks at   *)
(* the clock, the closed periods and the report, writes the report, clears *)
(* its tasks and inserts the new ones one by one.  Saves of two tabs, the  *)
(* unlock of an administrator, the close of a period and midnight come     *)
(* between any two of them.  The texts are left out: a task is the save    *)
(* that wrote it and its line.                                             *)
(***************************************************************************)
EXTENDS Team, Integers, FiniteSets

CONSTANTS
    Authors,      \* the people who write reports
    Saves,        \* the requests that save one; bounds their number
    Unlocks,      \* the requests that unlock one
    Days,         \* the dates on which something happens
    Holidays,
    CloseDays,    \* the dates a period may be closed over
    Watchers,     \* the people who dismiss notifications
    Rosters,      \* the rosters the administrators give the company
    Sizes         \* the numbers of tasks in a form

Rows == [status : {"draft", "submitted"}, sent : BOOLEAN, unlocked : BOOLEAN, form : Saves]

ASSUME EodAssumption ==
    /\ Authors \cup Watchers \subseteq People /\ Saves \cap Unlocks = {}
    /\ Days \subseteq Nat /\ Days # {} /\ Holidays \cup CloseDays \subseteq Days
    /\ Rosters \subseteq AllRosters /\ \A t \in Rosters : NobodyManagesThemselves(t)
    /\ Sizes \subseteq Nat
    /\ None \notin People \cup Days \cup Rows

VARIABLES
    day,        \* the date in the company's time zone
    team,       \* the roster
    clocked,    \* the dates with a clock-in, of every author
    closed,     \* the dates of closed periods
    report,     \* report[e][d]: the row of eod_reports, or None
    tasks,      \* tasks[e][d]: its rows of eod_tasks
    job,        \* the requests
    dismissed,  \* notification_dismissals, and history: on which date
    mixed       \* history: reports whose saves overlapped or were dropped

vars == <<day, team, clocked, closed, report, tasks, job, dismissed, mixed>>

Requests == Saves \cup Unlocks
Today(d) == [kind : {"missing_eod", "missing_team_eod"}, date : {d}, count : 0 .. Cardinality(People)]

(* since is history: what came after the request had looked for it.        *)
New == [at |-> "new", who |-> None, date |-> None, submit |-> FALSE,
        lines |-> 0, found |-> FALSE, done |-> 0, since |-> {}]

Jobs ==
    [at : {"new", "today", "editable", "look", "write", "clear", "insert", "done"},
     who : Authors \cup {None}, date : Days \cup {None}, submit : BOOLEAN, lines : Nat,
     found : BOOLEAN, done : Nat, since : SUBSET {"midnight", "close", "submit"}]

TypeOK ==
    /\ day \in Days /\ team \in Rosters
    /\ clocked \in [Authors -> SUBSET Days] /\ closed \subseteq CloseDays
    /\ report \in [Authors -> [Days -> Rows \cup {None}]]
    /\ tasks \in [Authors -> [Days -> SUBSET [form : Saves, line : Nat]]]
    /\ job \in [Requests -> Jobs]
    /\ \A s \in Requests : job[s].at \notin {"new", "done"} => job[s].who # None /\ job[s].date # None
    /\ dismissed \in [Watchers -> SUBSET [key : UNION {Today(d) : d \in Days}, on : Days]]
    /\ mixed \subseteq Authors \X Days

Init ==
    /\ day \in {d \in Days : \A c \in Days : d <= c}
    /\ team \in Rosters
    /\ clocked = [e \in Authors |-> {}]
    /\ closed = {}
    /\ report = [e \in Authors |-> [d \in Days |-> None]]
    /\ tasks = [e \in Authors |-> [d \in Days |-> {}]]
    /\ job = [s \in Requests |-> New]
    /\ dismissed = [v \in Watchers |-> {}]
    /\ mixed = {}

Submitted(e, d) == report[e][d] # None /\ report[e][d].status = "submitted"
Of(s) == <<job[s].who, job[s].date>>

-----------------------------------------------------------------------------
(* Around the reports.                                                     *)

Tell(requests, what) ==
    [s \in Requests |-> IF s \in requests THEN [job[s] EXCEPT !.since = @ \cup {what}] ELSE job[s]]

(* The requests that are past their look at the clock, at the periods, at  *)
(* the report of e on d.                                                   *)
PastToday == {s \in Requests : job[s].at \in {"editable", "look", "write", "clear", "insert"}}
PastEditable == {s \in PastToday : job[s].at # "editable"}
PastLook(e, d) == {s \in PastEditable : job[s].at = "write" /\ Of(s) = <<e, d>>}

Midnight ==
    /\ \E d \in Days : day < d /\ day' = d
    /\ job' = Tell(PastToday, "midnight")
    /\ UNCHANGED <<team, clocked, closed, report, tasks, dismissed, mixed>>

(* update_employee and set_employee_active.                                *)
Reassign(t) ==
    /\ t # team
    /\ team' = t
    /\ UNCHANGED <<day, clocked, closed, report, tasks, job, dismissed, mixed>>

ClockIn(e) ==
    /\ team[e].active /\ ~IsAdmin(team, e)
    /\ day \notin clocked[e] /\ day \notin closed
    /\ clocked' = [clocked EXCEPT ![e] = @ \cup {day}]
    /\ UNCHANGED <<day, team, closed, report, tasks, job, dismissed, mixed>>

Close(d) ==
    /\ d \notin closed
    /\ closed' = closed \cup {d}
    /\ job' = Tell({s \in PastEditable : job[s].date = d}, "close")
    /\ UNCHANGED <<day, team, clocked, report, tasks, dismissed, mixed>>

Reopen(d) ==
    /\ d \in closed
    /\ closed' = closed \ {d}
    /\ UNCHANGED <<day, team, clocked, report, tasks, job, dismissed, mixed>>

-----------------------------------------------------------------------------
(* save_report.                                                            *)

(* Of a request that is over only the number of its tasks is still told.   *)
Over(s) == [New EXCEPT !.at = "done", !.lines = job[s].lines]
Goto(s, at) == job' = [job EXCEPT ![s].at = at]
Stop(s) == job' = [job EXCEPT ![s] = Over(s)]

(* save_my_eod, up to the check that the employee clocked in today.  An    *)
(* administrator has no such page.                                         *)
SaveBegin(s, e, submit, lines) ==
    /\ job[s].at = "new" /\ team[e].active /\ ~IsAdmin(team, e)
    /\ day \in clocked[e]
    /\ job' = [job EXCEPT ![s] = [New EXCEPT !.at = "today", !.who = e, !.date = day,
                                             !.submit = submit, !.lines = lines]]
    /\ UNCHANGED <<day, team, clocked, closed, report, tasks, dismissed, mixed>>

SaveAnyDay(s) ==
    /\ job[s].at = "today"
    /\ Goto(s, "editable")
    /\ UNCHANGED <<day, team, clocked, closed, report, tasks, dismissed, mixed>>

SaveToday(s) ==
    /\ job[s].at = "today"
    /\ IF job[s].date = day THEN Goto(s, "editable") ELSE Stop(s)
    /\ UNCHANGED <<day, team, clocked, closed, report, tasks, dismissed, mixed>>

SaveEditable(s) ==
    /\ job[s].at = "editable"
    /\ IF job[s].date \in closed THEN Stop(s) ELSE Goto(s, "look")
    /\ UNCHANGED <<day, team, clocked, closed, report, tasks, dismissed, mixed>>

SaveLook(s) ==
    LET e == job[s].who  d == job[s].date IN
    /\ job[s].at = "look"
    /\ IF Submitted(e, d) THEN Stop(s)
       ELSE job' = [job EXCEPT ![s].at = "write", ![s].found = (report[e][d] # None)]
    /\ UNCHANGED <<day, team, clocked, closed, report, tasks, dismissed, mixed>>

(* The saves that have written the report and not yet all of its tasks.    *)
Writing(e, d) == {s \in Saves : job[s].at \in {"clear", "insert"} /\ Of(s) = <<e, d>>}

(* UPDATE by id, or INSERT: of two first saves the second breaks the       *)
(* uniqueness of the report and ends.                                      *)
SaveWrite(s) ==
    LET e == job[s].who  d == job[s].date  row == report[e][d] IN
    /\ job[s].at = "write"
    /\ IF ~job[s].found /\ row # None
       THEN Stop(s) /\ UNCHANGED <<report, mixed>>
       ELSE /\ report' = [report EXCEPT ![e][d] =
                   [status |-> IF job[s].submit THEN "submitted" ELSE "draft",
                    sent |-> job[s].submit \/ (row # None /\ row.sent),
                    unlocked |-> row # None /\ row.unlocked,
                    form |-> s]]
            /\ job' = [Tell(IF job[s].submit THEN PastLook(e, d) ELSE {}, "submit")
                          EXCEPT ![s].at = "clear"]
            /\ mixed' = IF Writing(e, d) = {} THEN mixed \ {Of(s)} ELSE mixed \cup {Of(s)}
    /\ UNCHANGED <<day, team, clocked, closed, tasks, dismissed>>

ClearNothing(s) ==
    /\ job[s].at = "clear"
    /\ UNCHANGED tasks
    /\ IF job[s].lines = 0 THEN Stop(s) ELSE Goto(s, "insert")
    /\ UNCHANGED <<day, team, clocked, closed, report, dismissed, mixed>>

ClearTasks(s) ==
    /\ job[s].at = "clear"
    /\ tasks' = [tasks EXCEPT ![job[s].who][job[s].date] = {}]
    /\ IF job[s].lines = 0 THEN Stop(s) ELSE Goto(s, "insert")
    /\ UNCHANGED <<day, team, clocked, closed, report, dismissed, mixed>>

InsertTask(s) ==
    LET next == job[s].done + 1 IN
    /\ job[s].at = "insert"
    /\ tasks' = [tasks EXCEPT ![job[s].who][job[s].date] = @ \cup {[form |-> s, line |-> next]}]
    /\ job' = [job EXCEPT ![s] = IF next = job[s].lines THEN Over(s) ELSE [@ EXCEPT !.done = next]]
    /\ UNCHANGED <<day, team, clocked, closed, report, dismissed, mixed>>

(* unlock_report of the report of e on d, today's if it is to be found.    *)
UnlockBegin(u, e, d) ==
    /\ job[u].at = "new" /\ report[e][d] # None
    /\ day \notin closed
    /\ job' = [job EXCEPT ![u] = [New EXCEPT !.at = "write", !.who = e, !.date = d,
                                             !.found = (d = day)]]
    /\ UNCHANGED <<day, team, clocked, closed, report, tasks, dismissed, mixed>>

UnlockWrite(u) ==
    LET e == job[u].who  d == job[u].date IN
    /\ job[u].at = "write"
    /\ Stop(u)
    /\ report' = IF job[u].found /\ Submitted(e, d)
                 THEN [report EXCEPT ![e][d].status = "draft", ![e][d].sent = FALSE,
                                     ![e][d].unlocked = TRUE]
                 ELSE report
    /\ UNCHANGED <<day, team, clocked, closed, tasks, dismissed, mixed>>

(* The browser goes away and the handler is dropped where it stands.       *)
Abort(s) ==
    /\ job[s].at \notin {"new", "done"}
    /\ Stop(s)
    /\ mixed' = IF job[s].at \in {"clear", "insert"} THEN mixed \cup {Of(s)} ELSE mixed
    /\ UNCHANGED <<day, team, clocked, closed, report, tasks, dismissed>>

-----------------------------------------------------------------------------
(* The pages and the notifications.                                        *)

ClockedIn(e, d) == e \in Authors /\ d \in clocked[e]
HasSubmitted(e, d) == e \in Authors /\ Submitted(e, d)

NeedsReminder(e) == day \notin Holidays /\ ClockedIn(e, day) /\ ~HasSubmitted(e, day)

Missing(m) == {e \in Manageable(team, m) : ClockedIn(e, day) /\ ~HasSubmitted(e, day)}

Key(kind, count) == [kind |-> kind, date |-> day, count |-> count]

(* What list_for_user makes of the reports, before the dismissed are left  *)
(* out.                                                                    *)
Due(v) ==
    {k \in Today(day) :
        CASE k.kind = "missing_eod" ->
                ~IsAdmin(team, v) /\ NeedsReminder(v) /\ k = Key("missing_eod", 0)
          [] OTHER ->
                ManagesTeam(team, v) /\ Missing(v) # {}
                    /\ k = Key("missing_team_eod", Cardinality(Missing(v)))}

HiddenUndated(v, k) == \E was \in dismissed[v] : was.key.kind = k.kind /\ was.key.count = k.count
Hidden(v, k) == \E was \in dismissed[v] : was.key = k

Dismiss(v, k) ==
    /\ k \in Due(v) /\ ~Hidden(v, k)
    /\ dismissed' = [dismissed EXCEPT ![v] = @ \cup {[key |-> k, on |-> day]}]
    /\ UNCHANGED <<day, team, clocked, closed, report, tasks, job, mixed>>

(* The pages: reports of e since a date, and in the week's export.         *)
RecentSince == day - 7
WeekSince == day - 6

FeedRows(v) ==
    {r \in Authors \X Days : r[1] \in Feed(team, v) /\ r[2] = day /\ Submitted(r[1], r[2])}
RecentRows(v) ==
    {r \in Authors \X Days : r[1] \in Feed(team, v) /\ r[2] >= RecentSince /\ Submitted(r[1], r[2])}
ExportRows(m) ==
    {r \in Authors \X Days : /\ r[1] \in Manageable(team, m) /\ report[r[1]][r[2]] # None
                            /\ r[2] >= WeekSince /\ r[2] <= day}
UnlockRows == {r \in Authors \X Days : r[2] = day /\ Submitted(r[1], r[2])}
Openable(v) == {r \in Authors \X Days : Submitted(r[1], r[2]) /\ CanView(team, v, r[1])}

Next ==
    \/ Midnight
    \/ \E t \in Rosters : Reassign(t)
    \/ \E d \in CloseDays : Close(d) \/ Reopen(d)
    \/ \E e \in Authors : ClockIn(e)
    \/ \E s \in Saves :
          \/ \E e \in Authors, submit \in BOOLEAN, n \in Sizes : SaveBegin(s, e, submit, n)
          \/ SaveToday(s) \/ SaveEditable(s) \/ SaveLook(s) \/ SaveWrite(s)
          \/ ClearTasks(s) \/ InsertTask(s)
    \/ \E u \in Unlocks :
          \/ \E e \in Authors, d \in Days : UnlockBegin(u, e, d)
          \/ UnlockWrite(u)
    \/ \E s \in Requests : Abort(s)
    \/ \E v \in Watchers, k \in Today(day) : Dismiss(v, k)

Spec == Init /\ [][Next]_vars

-----------------------------------------------------------------------------
(* While one save alone writes a report, its tasks so far are the first of *)
(* that save's.                                                            *)
FirstLines(s, k) == {[form |-> s, line |-> n] : n \in 1 .. k}
Lines(s) == FirstLines(s, job[s].lines)

Progress(s, e, d) ==
    /\ Writing(e, d) = {s}
    /\ report[e][d] # None /\ report[e][d].form = s
    /\ job[s].at = "clear" => job[s].done = 0
    /\ job[s].at = "insert" => job[s].done < job[s].lines
                                  /\ tasks[e][d] = FirstLines(s, job[s].done)

SavesInOrder ==
    /\ TypeOK
    /\ \A s \in Saves : job[s].at \in {"today", "editable", "look", "write"} => job[s].done = 0
    /\ \A u \in Unlocks : job[u].at \in {"new", "write", "done"}
    /\ \A e \in Authors, d \in Days : report[e][d] # None =>
          job[report[e][d].form].at \in {"clear", "insert", "done"}
    /\ \A e \in Authors, d \in Days : <<e, d>> \notin mixed =>
          \A s \in Writing(e, d) : Progress(s, e, d)

(* A submitted report changes only by an unlock, or by a save that found a *)
(* draft before the submission came; a report of a past day only by a      *)
(* request that looked at the clock before midnight; one of a closed       *)
(* period, tasks and all, only by one that looked before the close         *)
(* (eod/report.rs:44-58, 62-102, 178-202).                                  *)
ReportsSettle ==
    [][\A e \in Authors, d \in Days :
          /\ report'[e][d] # report[e][d] =>
                \E s \in Requests :
                    /\ job[s].at = "write" /\ job'[s].at # "write" /\ Of(s) = <<e, d>>
                    /\ Submitted(e, d) => s \in Unlocks \/ (job[s].found /\ "submit" \in job[s].since)
          /\ <<report'[e][d], tasks'[e][d]>> # <<report[e][d], tasks[e][d]>> =>
                \E s \in Requests :
                    /\ job[s] # job'[s] /\ Of(s) = <<e, d>>
                    /\ d # day => "midnight" \in job[s].since
                    /\ d \in closed => "close" \in job[s].since]_vars

(* Between saves, the tasks of a report are those of the form that wrote   *)
(* its summary, all of them and no others, unless its last saves overlapped *)
(* or one was dropped among its tasks (eod/report.rs:60-123).              *)
OneFormAtRest ==
    \A e \in Authors, d \in Days :
        Writing(e, d) = {} /\ <<e, d>> \notin mixed =>
            tasks[e][d] = IF report[e][d] = None THEN {} ELSE Lines(report[e][d].form)

(* Who is reminded is counted by his manager and, as an employee, by every *)
(* administrator; who is counted on a working day is reminded; and a       *)
(* reminder is missing only where it was dismissed on the same day         *)
(* (eod/reminder.rs:27-47, eod/team.rs:237-249, notifications.rs:29-143).   *)
RemindersAgree ==
    \A e \in People :
        LET m == team[e].manager IN
        /\ NeedsReminder(e) /\ team[e].active =>
              /\ m # None /\ ~IsAdmin(team, m) => e \in Missing(m)
              /\ team[e].role = "employee" => \A a \in People : IsAdmin(team, a) => e \in Missing(a)
        /\ day \notin Holidays => \A v \in People : e \in Missing(v) => NeedsReminder(e)
        /\ e \in Watchers => \A k \in Due(e) :
              Hidden(e, k) => \E was \in dismissed[e] : was.key.kind = k.kind /\ was.on = day

(* What a page lists can be opened: the feeds are within what the detail   *)
(* page shows, today's feed is on the page that unlocks, and the weekly    *)
(* export has no submitted report that the recent feed lacks               *)
(* (eod/team.rs:42-235, 296-339, handlers/eod/employee.rs:251-272).        *)
PagesAgree ==
    \A v \in People : team[v].active =>
        /\ FeedRows(v) \subseteq Openable(v) \cap UnlockRows \cap RecentRows(v)
        /\ RecentRows(v) \subseteq Openable(v)
        /\ ManagesTeam(team, v) => ExportRows(v) \cap Openable(v) \subseteq RecentRows(v)
        /\ \A e \in Manageable(team, v) : CanManage(team, v, e)
=============================================================================
