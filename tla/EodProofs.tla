----------------------------- MODULE EodProofs ------------------------------
(***************************************************************************)
(* Proofs about Eod: what the pages list can be opened and who is reminded *)
(* is counted, whatever the roster; between saves a report has the tasks   *)
(* of one form; and a report that is submitted, of a past day or of a      *)
(* closed period changes only under a request that looked before.          *)
(***************************************************************************)
EXTENDS Eod, TLAPS

EodInv == SavesInOrder /\ OneFormAtRest

\* The initial state satisfies the invariant: there are no reports.
LEMMA InitInv == Init => EodInv
<1> SUFFICES ASSUME Init PROVE EodInv
  OBVIOUS
<1>1. New \in Jobs /\ New.at = "new" /\ New.done = 0
  BY DEF New, Jobs
<1>2. TypeOK
  BY <1>1, EodAssumption DEF Init, TypeOK
<1>3. \A e \in Authors, d \in Days : Writing(e, d) = {} /\ report[e][d] = None /\ tasks[e][d] = {}
  BY <1>1 DEF Init, Writing, Requests
<1>4. SavesInOrder
  BY <1>1, <1>2, <1>3 DEF Init, SavesInOrder, Requests
<1> QED
  BY <1>3, <1>4 DEF OneFormAtRest, EodInv

\* A request that is over has the fields of one.
LEMMA OverFacts ==
    ASSUME TypeOK, NEW s \in Requests
    PROVE  Over(s) \in Jobs /\ Over(s).at = "done" /\ Over(s).lines = job[s].lines
  BY DEF TypeOK, Over, New, Jobs

\* The history of a request is no other field of it.
LEMMA TellFacts ==
    ASSUME TypeOK, NEW S, NEW what \in {"midnight", "close", "submit"}
    PROVE  /\ Tell(S, what) \in [Requests -> Jobs]
           /\ \A s \in Requests :
                 /\ Tell(S, what)[s].at = job[s].at /\ Tell(S, what)[s].who = job[s].who
                 /\ Tell(S, what)[s].date = job[s].date /\ Tell(S, what)[s].lines = job[s].lines
                 /\ Tell(S, what)[s].done = job[s].done /\ Tell(S, what)[s].submit = job[s].submit
<1>1. ASSUME NEW s \in Requests
      PROVE  /\ job[s] \in Jobs
             /\ [job[s] EXCEPT !.since = @ \cup {what}] \in Jobs
  BY ZenonT(60) DEF TypeOK, Jobs
<1> QED
  BY <1>1 DEF Tell, Jobs

\* Every step keeps the types.
LEMMA TypesKept ==
    ASSUME SavesInOrder, [Next]_vars
    PROVE  TypeOK'
<1>0. TypeOK
  BY DEF SavesInOrder
<1>r. report \in [Authors -> [Days -> Rows \cup {None}]]
  BY <1>0 DEF TypeOK
<1>t. tasks \in [Authors -> [Days -> SUBSET [form : Saves, line : Nat]]]
  BY <1>0 DEF TypeOK
<1>j. /\ job \in [Requests -> Jobs]
      /\ \A s \in Requests : job[s].at \notin {"new", "done"} => job[s].who # None /\ job[s].date # None
  BY <1>0 DEF TypeOK
<1>c. clocked \in [Authors -> SUBSET Days] /\ day \in Days
  BY <1>0 DEF TypeOK
<1>n. /\ \A e \in Authors : e # None
      /\ \A d \in Days : d # None
      /\ Sizes \subseteq Nat
  BY EodAssumption
<1>1. CASE Midnight
  BY SMTT(30), <1>0, <1>1, TellFacts DEF TypeOK, Midnight
<1>2. CASE \E t \in Rosters : Reassign(t)
  BY <1>0, <1>2 DEF TypeOK, Reassign
<1>3. CASE \E d \in CloseDays : Close(d) \/ Reopen(d)
  BY <1>0, <1>3, TellFacts DEF TypeOK, Close, Reopen
<1>4. CASE \E e \in Authors : ClockIn(e)
  <2>1. PICK e \in Authors : ClockIn(e)
    BY <1>4
  <2>2. clocked' \in [Authors -> SUBSET Days]
    BY <1>c, <2>1 DEF ClockIn
  <2>3. UNCHANGED <<day, team, closed, report, tasks, job, dismissed, mixed>>
    BY <2>1 DEF ClockIn
  <2> QED
    BY <1>0, <2>2, <2>3 DEF TypeOK
<1>5. ASSUME NEW s \in Saves, NEW e \in Authors, NEW submit \in BOOLEAN, NEW n \in Sizes,
             SaveBegin(s, e, submit, n)
      PROVE  TypeOK'
  <2>1. [New EXCEPT !.at = "today", !.who = e, !.date = day, !.submit = submit, !.lines = n] \in Jobs
    BY <1>c, <1>n DEF New, Jobs
  <2> QED
    BY <1>0, <1>c, <1>n, <1>5, <2>1 DEF TypeOK, SaveBegin, Requests, New, Jobs
<1>6. ASSUME NEW s \in Saves, SaveToday(s) \/ SaveEditable(s) \/ SaveLook(s)
      PROVE  TypeOK'
  <2>1. s \in Requests /\ job[s] \in Jobs /\ Over(s) \in Jobs
    BY <1>0, OverFacts DEF TypeOK, Requests
  <2>2. job[s].who # None /\ job[s].date # None
    BY <1>j, <1>6, <2>1 DEF SaveToday, SaveEditable, SaveLook
  <2> DEFINE Moved(j) == /\ j \in Jobs /\ job' = [job EXCEPT ![s] = j]
                         /\ j.at = "done" \/ (j.who = job[s].who /\ j.date = job[s].date)
  <2>3. \E j : Moved(j)
    <3>0. Over(s) \in Jobs /\ Over(s).at = "done"
      BY <1>0, <2>1, OverFacts
    <3>1. ASSUME NEW at \in {"editable", "look", "write"}, Goto(s, at)
          PROVE  Moved([job[s] EXCEPT !.at = at])
      BY <1>j, <2>1, <3>1 DEF Jobs, Goto
    <3>2. ASSUME Stop(s)
          PROVE  Moved(Over(s))
      BY <1>0, <2>1, <3>0, <3>2 DEF Stop
    <3>3. CASE SaveToday(s)
      BY <3>1, <3>2, <3>3 DEF SaveToday
    <3>4. CASE SaveEditable(s)
      BY <3>1, <3>2, <3>4 DEF SaveEditable
    <3>5. CASE SaveLook(s)
      <4> DEFINE found == report[job[s].who][job[s].date] # None
                 j == [job[s] EXCEPT !.at = "write", !.found = found]
      <4>1. CASE Stop(s)
        BY <3>2, <4>1
      <4>2. CASE job' = [job EXCEPT ![s].at = "write", ![s].found = found]
        <5>1. job' = [job EXCEPT ![s] = j]
          BY <1>j, <2>1, <4>2
        <5>2. found \in BOOLEAN
          OBVIOUS
        <5> HIDE DEF found
        <5>3. j \in Jobs /\ j.who = job[s].who /\ j.date = job[s].date
          BY <2>1, <5>2 DEF Jobs
        <5> QED
          BY <5>1, <5>3
      <4> QED
        BY <3>5, <4>1, <4>2 DEF SaveLook
    <3> QED
      BY <1>6, <3>3, <3>4, <3>5
  <2>4. job' \in [Requests -> Jobs]
        /\ \A r \in Requests : job'[r].at \notin {"new", "done"} => job'[r].who # None /\ job'[r].date # None
    BY <1>j, <2>1, <2>2, <2>3
  <2> HIDE DEF Moved
  <2> QED
    BY <1>0, <1>6, <2>4 DEF TypeOK, SaveToday, SaveEditable, SaveLook
<1>7. ASSUME NEW s \in Saves, SaveWrite(s)
      PROVE  TypeOK'
  <2>1. s \in Requests /\ job[s] \in Jobs /\ Over(s) \in Jobs
    BY <1>0, OverFacts DEF TypeOK, Requests
  <2> DEFINE e == job[s].who
             d == job[s].date
  <2>2. e \in Authors /\ d \in Days /\ Of(s) = <<e, d>>
    BY <1>0, <1>7, <2>1 DEF TypeOK, Jobs, SaveWrite, Of
  <2>3. CASE ~job[s].found /\ report[e][d] # None
    BY <1>0, <1>7, <2>1, <2>3, OverFacts DEF TypeOK, SaveWrite, Stop
  <2>4. CASE ~(~job[s].found /\ report[e][d] # None)
    <3> DEFINE told == Tell(IF job[s].submit THEN PastLook(e, d) ELSE {}, "submit")
               row == [status |-> IF job[s].submit THEN "submitted" ELSE "draft",
                       sent |-> job[s].submit \/ (report[e][d] # None /\ report[e][d].sent),
                       unlocked |-> report[e][d] # None /\ report[e][d].unlocked,
                       form |-> s]
    <3>1. told \in [Requests -> Jobs] /\ \A r \in Requests : told[r].at = job[r].at
                /\ told[r].who = job[r].who /\ told[r].date = job[r].date
      BY <1>0, TellFacts
    <3>2. report' = [report EXCEPT ![e][d] = row] /\ job' = [told EXCEPT ![s].at = "clear"]
      BY <1>7, <2>4 DEF SaveWrite
    <3>3. report[e][d] = None \/ report[e][d] \in Rows
      BY <1>r, <2>2
    <3>4. row \in Rows
      BY <2>1, <3>3 DEF Rows, Jobs
    <3>5. report' \in [Authors -> [Days -> Rows \cup {None}]]
      BY <1>r, <2>2, <3>2, <3>4
    <3> HIDE DEF told, row
    <3>6. job' \in [Requests -> Jobs]
      BY <2>1, <3>1, <3>2 DEF Jobs
    <3>7. \A r \in Requests : job'[r].at \notin {"new", "done"} => job'[r].who # None /\ job'[r].date # None
      BY <1>j, <1>n, <2>1, <2>2, <3>1, <3>2 DEF Jobs
    <3>8. mixed' \subseteq Authors \X Days
      <4>1. mixed' \subseteq mixed \cup {Of(s)}
        <5>1. mixed' = IF Writing(e, d) = {} THEN mixed \ {Of(s)} ELSE mixed \cup {Of(s)}
          BY <1>7, <2>4 DEF SaveWrite
        <5> HIDE DEF e, d
        <5> QED
          BY <5>1
      <4>2. mixed \subseteq Authors \X Days
        BY <1>0 DEF TypeOK
      <4> HIDE DEF e, d
      <4> QED
        BY <2>2, <4>1, <4>2
    <3> QED
      BY <1>0, <1>7, <3>5, <3>6, <3>7, <3>8 DEF TypeOK, SaveWrite
  <2> QED
    BY <2>3, <2>4
<1>8. ASSUME NEW s \in Saves, ClearTasks(s)
      PROVE  TypeOK'
  <2>1. s \in Requests /\ job[s] \in Jobs /\ Over(s) \in Jobs
    BY <1>0, OverFacts DEF TypeOK, Requests
  <2>2. job[s].who \in Authors /\ job[s].date \in Days
    BY <1>0, <1>8, <2>1 DEF TypeOK, Jobs, ClearTasks
  <2>3. tasks' \in [Authors -> [Days -> SUBSET [form : Saves, line : Nat]]]
    BY <1>0, <1>8, <2>2 DEF TypeOK, ClearTasks
  <2>a. [job[s] EXCEPT !.at = "insert"] \in Jobs
    BY <2>1 DEF Jobs
  <2>b. job' = [job EXCEPT ![s] = Over(s)] \/ job' = [job EXCEPT ![s] = [job[s] EXCEPT !.at = "insert"]]
    BY <1>j, <1>8, <2>1 DEF ClearTasks, Stop, Goto, Jobs
  <2>c. [job[s] EXCEPT !.at = "insert"].who = job[s].who /\ [job[s] EXCEPT !.at = "insert"].date = job[s].date
    BY <2>1 DEF Jobs
  <2>4. job' \in [Requests -> Jobs]
    BY <1>j, <2>1, <2>a, <2>b
  <2>5. \A r \in Requests : job'[r].at \notin {"new", "done"} => job'[r].who # None /\ job'[r].date # None
    BY <1>0, <1>j, <1>n, <2>1, <2>2, <2>b, <2>c, OverFacts
  <2> QED
    BY <1>0, <1>8, <2>3, <2>4, <2>5 DEF TypeOK, ClearTasks
<1>9. ASSUME NEW s \in Saves, InsertTask(s)
      PROVE  TypeOK'
  <2>1. s \in Requests /\ job[s] \in Jobs /\ Over(s) \in Jobs
    BY <1>0, OverFacts DEF TypeOK, Requests
  <2> DEFINE next == job[s].done + 1
  <2>2. job[s].who \in Authors /\ job[s].date \in Days /\ next \in Nat
    BY <1>j, <1>9, <2>1 DEF Jobs, InsertTask
  <2>3. tasks' \in [Authors -> [Days -> SUBSET [form : Saves, line : Nat]]]
    BY <1>0, <1>9, <2>2 DEF TypeOK, InsertTask
  <2>4. [job[s] EXCEPT !.done = next] \in Jobs
    BY <2>1, <2>2 DEF Jobs
  <2>5. job' = [job EXCEPT ![s] = Over(s)] \/ job' = [job EXCEPT ![s] = [job[s] EXCEPT !.done = next]]
    BY <1>9 DEF InsertTask
  <2>6. job' \in [Requests -> Jobs]
    BY <1>0, <2>1, <2>4, <2>5 DEF TypeOK
  <2>7. \A r \in Requests : job'[r].at \notin {"new", "done"} => job'[r].who # None /\ job'[r].date # None
    BY <1>0, <1>j, <1>n, <2>1, <2>2, <2>5, OverFacts DEF Jobs
  <2> QED
    BY <1>0, <1>9, <2>3, <2>6, <2>7 DEF TypeOK, InsertTask
<1>10. ASSUME NEW u \in Unlocks, NEW e \in Authors, NEW d \in Days, UnlockBegin(u, e, d)
       PROVE  TypeOK'
  <2>1. [New EXCEPT !.at = "write", !.who = e, !.date = d, !.found = (d = day)] \in Jobs
    BY DEF New, Jobs
  <2> QED
    BY <1>0, <1>n, <1>10, <2>1 DEF TypeOK, UnlockBegin, Requests, New, Jobs
<1>11. ASSUME NEW u \in Unlocks, UnlockWrite(u)
       PROVE  TypeOK'
  <2>1. u \in Requests /\ job[u] \in Jobs /\ Over(u) \in Jobs
    BY <1>0, OverFacts DEF TypeOK, Requests
  <2> DEFINE e == job[u].who
             d == job[u].date
  <2>2. e \in Authors /\ d \in Days
    BY <1>j, <1>11, <2>1 DEF Jobs, UnlockWrite
  <2>w. /\ report' = IF job[u].found /\ Submitted(e, d)
                     THEN [report EXCEPT ![e][d].status = "draft", ![e][d].sent = FALSE,
                                         ![e][d].unlocked = TRUE]
                     ELSE report
        /\ job' = [job EXCEPT ![u] = Over(u)]
        /\ UNCHANGED <<day, team, clocked, closed, tasks, dismissed, mixed>>
    BY <1>11 DEF UnlockWrite, Stop
  <2> HIDE DEF e, d
  <2>3. CASE job[u].found /\ Submitted(e, d)
    <3>1. report[e][d] \in Rows
      BY <1>r, <2>2, <2>3 DEF Submitted
    <3>2. [report[e][d] EXCEPT !.status = "draft", !.sent = FALSE, !.unlocked = TRUE] \in Rows
      BY <3>1 DEF Rows
    <3>3. report' = [report EXCEPT ![e][d] =
                        [report[e][d] EXCEPT !.status = "draft", !.sent = FALSE, !.unlocked = TRUE]]
      BY <1>r, <2>w, <2>2, <2>3, <3>1 DEF Rows
    <3>4. report' \in [Authors -> [Days -> Rows \cup {None}]]
      BY <1>r, <2>2, <3>2, <3>3
    <3> QED
      BY <1>0, <2>w, <2>1, <3>4, OverFacts DEF TypeOK
  <2>4. CASE ~(job[u].found /\ Submitted(e, d))
    BY <1>0, <2>w, <2>1, <2>4, OverFacts DEF TypeOK
  <2> QED
    BY <2>3, <2>4
<1>12. ASSUME NEW s \in Requests, Abort(s)
       PROVE  TypeOK'
  <2>1. job[s] \in Jobs /\ Over(s) \in Jobs
    BY <1>0, OverFacts DEF TypeOK
  <2>2. Of(s) \in Authors \X Days
    BY <1>0, <1>12, <2>1 DEF TypeOK, Jobs, Abort, Of
  <2>3. mixed' \subseteq Authors \X Days
    BY <1>0, <1>12, <2>2 DEF TypeOK, Abort
  <2>4. job' \in [Requests -> Jobs]
        /\ \A r \in Requests : job'[r].at \notin {"new", "done"} => job'[r].who # None /\ job'[r].date # None
    BY <1>0, <1>j, <1>12, <2>1, OverFacts DEF Abort, Stop
  <2> QED
    BY <1>0, <1>12, <2>3, <2>4 DEF TypeOK, Abort
<1>13. CASE \E v \in Watchers, k \in Today(day) : Dismiss(v, k)
  BY <1>0, <1>13 DEF TypeOK, Dismiss
<1>14. CASE UNCHANGED vars
  BY <1>0, <1>14 DEF TypeOK, vars, Today
<1> QED
  BY <1>1, <1>2, <1>3, <1>4, <1>5, <1>6, <1>7, <1>8, <1>9, <1>10, <1>11, <1>12, <1>13, <1>14 DEF Next

\* A request moves without a word about the tasks of any report: who is at
\* them, and how far, stays as it is.
Quiet ==
    /\ UNCHANGED <<tasks, mixed>>
    /\ \A e \in Authors, d \in Days :
          /\ report'[e][d] = None <=> report[e][d] = None
          /\ report[e][d] # None => report'[e][d].form = report[e][d].form
    /\ \A s \in Saves :
          /\ job[s].at \in {"clear", "insert"} <=> job'[s].at \in {"clear", "insert"}
          /\ job[s].at \in {"clear", "insert", "done"} =>
                /\ job'[s].at = job[s].at
                /\ job'[s].lines = job[s].lines
          /\ job[s].at \in {"clear", "insert"} =>
                /\ job'[s].who = job[s].who
                /\ job'[s].date = job[s].date
                /\ job'[s].done = job[s].done
          /\ job'[s].at \in {"today", "editable", "look", "write"} => job'[s].done = 0
    /\ \A u \in Unlocks : job'[u].at \in {"new", "write", "done"}

LEMMA QuietStep ==
    ASSUME EodInv, Quiet, TypeOK'
    PROVE  EodInv'
<1>1. \A e \in Authors, d \in Days : report[e][d] # None => report[e][d].form \in Saves
  BY DEF EodInv, SavesInOrder, TypeOK, Rows
<1>2. ASSUME NEW e \in Authors, NEW d \in Days
      PROVE  Writing(e, d)' = Writing(e, d)
  BY DEF Writing, Quiet, Of
<1>3. ASSUME NEW e \in Authors, NEW d \in Days, report'[e][d] # None
      PROVE  /\ report'[e][d].form = report[e][d].form /\ report[e][d] # None
             /\ report[e][d].form \in Saves
             /\ job[report[e][d].form].at \in {"clear", "insert", "done"}
             /\ job'[report[e][d].form].at = job[report[e][d].form].at
             /\ job'[report[e][d].form].lines = job[report[e][d].form].lines
  BY <1>1, <1>3 DEF EodInv, SavesInOrder, Quiet
<1>4. ASSUME NEW e \in Authors, NEW d \in Days, <<e, d>> \notin mixed', NEW s \in Writing(e, d)'
      PROVE  Progress(s, e, d)'
  <2>1. Progress(s, e, d) /\ s \in Saves /\ job[s].at \in {"clear", "insert"}
    BY <1>2, <1>4 DEF EodInv, SavesInOrder, Quiet, Writing
  <2> QED
    BY <1>2, <2>1 DEF Progress, Quiet
<1>5. SavesInOrder'
  BY <1>3, <1>4 DEF SavesInOrder, Quiet
<1>6. ASSUME NEW e \in Authors, NEW d \in Days, Writing(e, d)' = {}, <<e, d>> \notin mixed'
      PROVE  tasks'[e][d] = IF report'[e][d] = None THEN {} ELSE FirstLines(report'[e][d].form, job'[report'[e][d].form].lines)
  <2>1. tasks[e][d] = IF report[e][d] = None THEN {} ELSE FirstLines(report[e][d].form, job[report[e][d].form].lines)
    BY <1>2, <1>6 DEF EodInv, OneFormAtRest, Quiet, Lines
  <2> QED
    BY <1>3, <2>1 DEF Quiet
<1>7. OneFormAtRest'
  BY <1>6 DEF OneFormAtRest, Lines
<1> QED
  BY <1>5, <1>7 DEF EodInv

\* The save of s that has written its report alone goes on, or ends.
LEMMA WritersMove ==
    ASSUME EodInv, TypeOK', NEW s \in Saves, UNCHANGED report,
           job[s].at \in {"clear", "insert"},
           \A r \in Requests \ {s} : job'[r] = job[r],
           mixed \subseteq mixed',
           job'[s].at = "done" => job'[s].lines = job[s].lines,
           job'[s].at # "done" => /\ job'[s].at = "insert" /\ Of(s)' = Of(s)
                                  /\ job'[s].lines = job[s].lines,
           \A e \in Authors, d \in Days : Of(s) # <<e, d>> => tasks'[e][d] = tasks[e][d],
           Of(s) \notin mixed' =>
              IF job'[s].at = "done"
              THEN tasks'[job[s].who][job[s].date] = FirstLines(s, job[s].lines)
              ELSE /\ job'[s].done < job'[s].lines
                   /\ tasks'[job[s].who][job[s].date] = FirstLines(s, job'[s].done)
    PROVE  EodInv'
<1>1. s \in Requests /\ s \notin Unlocks /\ Saves \subseteq Requests /\ Unlocks \subseteq Requests
  BY EodAssumption DEF Requests
<1>2. job[s].who \in Authors /\ job[s].date \in Days
  BY ZenonT(60), <1>1 DEF EodInv, SavesInOrder, TypeOK, Jobs
<1>3. \A e \in Authors, d \in Days : report[e][d] # None => report[e][d].form \in Saves
  BY DEF EodInv, SavesInOrder, TypeOK, Rows
<1>4. ASSUME NEW e \in Authors, NEW d \in Days, Of(s) # <<e, d>>
      PROVE  Writing(e, d)' = Writing(e, d)
  BY <1>1, <1>4 DEF Writing, Of
<1>5. ASSUME NEW e \in Authors, NEW d \in Days, <<e, d>> \notin mixed', NEW r \in Writing(e, d)'
      PROVE  Progress(r, e, d)'
  <2>1. CASE Of(s) # <<e, d>>
    <3>1. r # s /\ r \in Writing(e, d) /\ <<e, d>> \notin mixed
      BY <1>4, <1>5, <2>1 DEF Writing, Of
    <3>2. Progress(r, e, d) /\ job'[r] = job[r] /\ tasks'[e][d] = tasks[e][d]
      BY <1>1, <2>1, <3>1 DEF EodInv, SavesInOrder, Writing
    <3> QED
      BY <1>4, <2>1, <3>2 DEF Progress
  <2>2. CASE Of(s) = <<e, d>>
    <3>1. s \in Writing(e, d) /\ <<e, d>> \notin mixed
      BY <1>5, <2>2 DEF Writing
    <3>2. Progress(s, e, d)
      BY <3>1 DEF EodInv, SavesInOrder
    <3>3. r = s /\ job'[s].at = "insert" /\ Writing(e, d)' = {s}
      BY <1>1, <1>5, <2>2, <3>2 DEF Progress, Writing, Of
    <3>4. e = job[s].who /\ d = job[s].date
      BY <2>2 DEF Of
    <3> QED
      BY <1>5, <2>2, <3>2, <3>3, <3>4 DEF Progress
  <2> QED
    BY <2>1, <2>2
<1>6. SavesInOrder'
  <2>1. \A r \in Saves : job'[r].at \in {"today", "editable", "look", "write"} => job'[r].done = 0
    BY <1>1 DEF EodInv, SavesInOrder
  <2>2. \A u \in Unlocks : job'[u].at \in {"new", "write", "done"}
    BY <1>1 DEF EodInv, SavesInOrder
  <2>3. \A e \in Authors, d \in Days : report'[e][d] # None =>
           job'[report'[e][d].form].at \in {"clear", "insert", "done"}
    BY <1>1, <1>3 DEF EodInv, SavesInOrder
  <2> QED
    BY <1>5, <2>1, <2>2, <2>3 DEF SavesInOrder
<1>7. ASSUME NEW e \in Authors, NEW d \in Days, Writing(e, d)' = {}, <<e, d>> \notin mixed'
      PROVE  tasks'[e][d] = IF report[e][d] = None THEN {}
                            ELSE FirstLines(report[e][d].form, job'[report[e][d].form].lines)
  <2>0. report[e][d] # None => job'[report[e][d].form].lines = job[report[e][d].form].lines
    BY <1>1, <1>3
  <2>1. CASE Of(s) # <<e, d>>
    BY <1>4, <1>7, <2>0, <2>1 DEF EodInv, OneFormAtRest, Lines
  <2>2. CASE Of(s) = <<e, d>>
    <3>1. s \in Writing(e, d) /\ <<e, d>> \notin mixed /\ e = job[s].who /\ d = job[s].date
      BY <1>7, <2>2 DEF Writing, Of
    <3>2. Progress(s, e, d)
      BY <3>1 DEF EodInv, SavesInOrder
    <3>3. job'[s].at = "done"
      BY <1>7, <2>2 DEF Writing
    <3> QED
      BY <1>7, <2>0, <2>2, <3>1, <3>2, <3>3 DEF Progress
  <2> QED
    BY <2>1, <2>2
<1>8. OneFormAtRest'
  BY <1>7 DEF OneFormAtRest, Lines
<1> QED
  BY <1>6, <1>8 DEF EodInv

\* The report is written: if no other save was among its tasks, s alone is.
LEMMA WriteStep ==
    ASSUME EodInv, TypeOK', NEW s \in Saves, SaveWrite(s),
           job[s].found \/ report[job[s].who][job[s].date] = None
    PROVE  EodInv'
<1> DEFINE e0 == job[s].who
           d0 == job[s].date
           told == Tell(IF job[s].submit THEN PastLook(e0, d0) ELSE {}, "submit")
<1>1. s \in Requests /\ s \notin Unlocks /\ Saves \subseteq Requests /\ Unlocks \subseteq Requests
  BY EodAssumption DEF Requests
<1>2. e0 \in Authors /\ d0 \in Days /\ Of(s) = <<e0, d0>> /\ job[s].at = "write" /\ job[s].done = 0
  BY <1>1 DEF EodInv, SavesInOrder, TypeOK, Jobs, SaveWrite, Of
<1>3. \A e \in Authors, d \in Days : report[e][d] # None => report[e][d].form \in Saves
  BY DEF EodInv, SavesInOrder, TypeOK, Rows
<1>4. /\ told \in [Requests -> Jobs]
      /\ \A r \in Requests : /\ told[r].at = job[r].at /\ told[r].who = job[r].who
                             /\ told[r].date = job[r].date /\ told[r].lines = job[r].lines
                             /\ told[r].done = job[r].done
  <2>1. TypeOK
    BY DEF EodInv, SavesInOrder
  <2> DEFINE S == IF job[s].submit THEN PastLook(e0, d0) ELSE {}
  <2> HIDE DEF S
  <2>2. /\ Tell(S, "submit") \in [Requests -> Jobs]
        /\ \A r \in Requests : /\ Tell(S, "submit")[r].at = job[r].at
                               /\ Tell(S, "submit")[r].who = job[r].who
                               /\ Tell(S, "submit")[r].date = job[r].date
                               /\ Tell(S, "submit")[r].lines = job[r].lines
                               /\ Tell(S, "submit")[r].done = job[r].done
    BY <2>1, TellFacts
  <2>3. told = Tell(S, "submit")
    BY DEF S
  <2> HIDE DEF told
  <2> QED
    BY <2>2, <2>3
<1>5. /\ job' = [told EXCEPT ![s].at = "clear"]
      /\ mixed' = IF Writing(e0, d0) = {} THEN mixed \ {Of(s)} ELSE mixed \cup {Of(s)}
      /\ tasks' = tasks
  BY DEF SaveWrite
<1>6. report'[e0][d0].form = s /\ report'[e0][d0] # None
  <2>1. report \in [Authors -> [Days -> Rows \cup {None}]]
    BY DEF EodInv, SavesInOrder, TypeOK
  <2>2. report' \in [Authors -> [Days -> Rows \cup {None}]]
    BY DEF TypeOK
  <2>3. PICK row : report' = [report EXCEPT ![e0][d0] = row] /\ row.form = s /\ row \in Rows
    <3>1. report[e0][d0] = None \/ report[e0][d0] \in Rows
      BY <1>2, <2>1
    <3> DEFINE row == [status |-> IF job[s].submit THEN "submitted" ELSE "draft",
                       sent |-> job[s].submit \/ (report[e0][d0] # None /\ report[e0][d0].sent),
                       unlocked |-> report[e0][d0] # None /\ report[e0][d0].unlocked,
                       form |-> s]
    <3>2. row \in Rows /\ row.form = s
      BY <1>1, <3>1 DEF Rows, EodInv, SavesInOrder, TypeOK, Jobs
    <3>3. report' = [report EXCEPT ![e0][d0] = row]
      BY DEF SaveWrite
    <3> QED
      BY <3>2, <3>3
  <2> QED
    BY <1>2, <2>1, <2>3, EodAssumption
<1>7. ASSUME NEW e \in Authors, NEW d \in Days, <<e, d>> # <<e0, d0>>
      PROVE  report'[e][d] = report[e][d]
  <2>1. PICK v : report' = report \/ report' = [report EXCEPT ![e0][d0] = v]
    BY DEF SaveWrite
  <2>2. report \in [Authors -> [Days -> Rows \cup {None}]]
    BY DEF EodInv, SavesInOrder, TypeOK
  <2> HIDE DEF e0, d0, told
  <2> QED
    BY <1>2, <1>7, <2>1, <2>2
<1> HIDE DEF told, e0, d0
<1>8. \A r \in Requests \ {s} : /\ job'[r].at = job[r].at /\ job'[r].who = job[r].who
                               /\ job'[r].date = job[r].date /\ job'[r].lines = job[r].lines
                               /\ job'[r].done = job[r].done
  BY <1>1, <1>4, <1>5
<1>9. job'[s].at = "clear" /\ job'[s].who = e0 /\ job'[s].date = d0 /\ job'[s].done = 0
  BY <1>1, <1>2, <1>4, <1>5 DEF Jobs, e0, d0
<1>10. ASSUME NEW e \in Authors, NEW d \in Days, <<e, d>> # <<e0, d0>>
       PROVE  Writing(e, d)' = Writing(e, d)
  BY <1>1, <1>2, <1>8, <1>9, <1>10 DEF Writing, Of, e0, d0
<1>11. ASSUME NEW e \in Authors, NEW d \in Days, e = e0, d = d0
       PROVE  Writing(e, d)' = Writing(e, d) \cup {s}
  BY <1>1, <1>2, <1>8, <1>9, <1>11 DEF Writing, Of, e0, d0
<1>12. ASSUME NEW e \in Authors, NEW d \in Days, <<e, d>> \notin mixed', NEW r \in Writing(e, d)'
       PROVE  Progress(r, e, d)'
  <2>1. CASE <<e, d>> # <<e0, d0>>
    <3>1. r # s /\ r \in Writing(e, d) /\ <<e, d>> \notin mixed
      BY <1>2, <1>5, <1>9, <1>10, <1>12, <2>1 DEF Writing, Of
    <3>2. Progress(r, e, d) /\ r \in Requests \ {s}
      BY <1>1, <3>1 DEF EodInv, SavesInOrder, Writing
    <3> QED
      BY <1>5, <1>7, <1>8, <1>10, <2>1, <3>2 DEF Progress
  <2>2. CASE <<e, d>> = <<e0, d0>>
    <3>1. e = e0 /\ d = d0
      BY <2>2
    <3>2. Of(s) \notin mixed'
      BY <1>2, <1>12, <3>1
    <3>3. Writing(e0, d0) = {}
      BY <1>5, <3>2
    <3>4. Writing(e, d)' = {s} /\ r = s
      BY <1>11, <1>12, <3>1, <3>3
    <3>5. report'[e][d] # None /\ report'[e][d].form = s /\ job'[s].at = "clear" /\ job'[s].done = 0
      BY <1>6, <1>9, <3>1
    <3> QED
      BY <3>4, <3>5 DEF Progress
  <2> QED
    BY <2>1, <2>2
<1>13. SavesInOrder'
  <2>1. \A r \in Saves : job'[r].at \in {"today", "editable", "look", "write"} => job'[r].done = 0
    BY <1>1, <1>8, <1>9 DEF EodInv, SavesInOrder
  <2>2. \A u \in Unlocks : job'[u].at \in {"new", "write", "done"}
    BY <1>1, <1>8 DEF EodInv, SavesInOrder
  <2>3. ASSUME NEW e \in Authors, NEW d \in Days, report'[e][d] # None
        PROVE  job'[report'[e][d].form].at \in {"clear", "insert", "done"}
    <3>1. CASE <<e, d>> = <<e0, d0>>
      <4>1. e = e0 /\ d = d0
        BY <3>1
      <4> QED
        BY <1>6, <1>9, <4>1
    <3>2. CASE <<e, d>> # <<e0, d0>>
      BY <1>1, <1>2, <1>3, <1>7, <1>8, <1>9, <2>3, <3>2 DEF EodInv, SavesInOrder
    <3> QED
      BY <3>1, <3>2
  <2> QED
    BY <1>12, <2>1, <2>2, <2>3 DEF SavesInOrder
<1>14. ASSUME NEW e \in Authors, NEW d \in Days, Writing(e, d)' = {}, <<e, d>> \notin mixed'
       PROVE  tasks'[e][d] = IF report'[e][d] = None THEN {}
                             ELSE FirstLines(report'[e][d].form, job'[report'[e][d].form].lines)
  <2>1. <<e, d>> # <<e0, d0>>
    <3>1. CASE e = e0 /\ d = d0
      BY <1>11, <1>14, <3>1
    <3> QED
      BY <3>1
  <2>2. <<e, d>> \notin mixed
    BY <1>2, <1>5, <1>14, <2>1
  <2>3. tasks[e][d] = IF report[e][d] = None THEN {}
                      ELSE FirstLines(report[e][d].form, job[report[e][d].form].lines)
    BY <1>10, <1>14, <2>1, <2>2 DEF EodInv, OneFormAtRest, Lines
  <2>4. report[e][d] # None => report[e][d].form \in Requests \ {s}
    BY <1>1, <1>2, <1>3 DEF EodInv, SavesInOrder
  <2> QED
    BY <1>5, <1>7, <1>8, <2>1, <2>3, <2>4
<1>15. OneFormAtRest'
  BY <1>14 DEF OneFormAtRest, Lines
<1> QED
  BY <1>13, <1>15 DEF EodInv

\* Every step preserves the invariant.
LEMMA NextInv == EodInv /\ [Next]_vars => EodInv'
<1> SUFFICES ASSUME EodInv, [Next]_vars PROVE EodInv'
  OBVIOUS
<1>1. TypeOK /\ TypeOK' /\ SavesInOrder
  BY TypesKept DEF EodInv, SavesInOrder
<1>2. Saves \subseteq Requests /\ Unlocks \subseteq Requests /\ \A s \in Saves : s \notin Unlocks
  BY EodAssumption DEF Requests
<1>3. \A s \in Saves : job[s].at \in {"today", "editable", "look", "write"} => job[s].done = 0
  BY <1>1 DEF SavesInOrder
<1>4. \A u \in Unlocks : job[u].at \in {"new", "write", "done"}
  BY <1>1 DEF SavesInOrder
<1>5. job \in [Requests -> Jobs]
  BY <1>1 DEF TypeOK
<1>6. ASSUME NEW S, NEW what \in {"midnight", "close", "submit"}, job' = Tell(S, what),
             UNCHANGED <<report, tasks, mixed>>
      PROVE  Quiet
  BY <1>1, <1>2, <1>3, <1>4, <1>6, TellFacts DEF Quiet
<1>7. CASE Midnight
  BY <1>1, <1>6, <1>7, QuietStep DEF Midnight
<1>8. ASSUME NEW d \in CloseDays, Close(d)
      PROVE  EodInv'
  BY <1>1, <1>6, <1>8, QuietStep DEF Close
<1>9. ASSUME UNCHANGED <<report, tasks, job, mixed>>
      PROVE  EodInv'
  <2>1. Quiet
    BY <1>3, <1>4, <1>9 DEF Quiet
  <2> QED
    BY <1>1, <2>1, QuietStep
\* A request that is at no report's tasks, before and after.
<1>10. ASSUME NEW s \in Requests, NEW j \in Jobs, job' = [job EXCEPT ![s] = j],
              job[s].at \notin {"clear", "insert", "done"}, j.at \notin {"clear", "insert"},
              s \in Saves /\ j.at \in {"today", "editable", "look", "write"} => j.done = 0,
              s \in Unlocks => j.at \in {"new", "write", "done"},
              UNCHANGED <<tasks, mixed>>,
              \A e \in Authors, d \in Days :
                 /\ report'[e][d] = None <=> report[e][d] = None
                 /\ report[e][d] # None => report'[e][d].form = report[e][d].form
       PROVE  EodInv'
  <2>1. Quiet
    BY <1>2, <1>3, <1>4, <1>5, <1>10 DEF Quiet
  <2> QED
    BY <1>1, <2>1, QuietStep
<1>11. ASSUME NEW s \in Saves, NEW e \in Authors, NEW submit \in BOOLEAN, NEW n \in Sizes,
              SaveBegin(s, e, submit, n)
       PROVE  EodInv'
  <2> DEFINE j == [New EXCEPT !.at = "today", !.who = e, !.date = day, !.submit = submit, !.lines = n]
  <2>1. j \in Jobs /\ j.at = "today" /\ j.done = 0
    BY <1>1, EodAssumption DEF New, Jobs, TypeOK
  <2>2. job' = [job EXCEPT ![s] = j] /\ job[s].at = "new" /\ UNCHANGED <<report, tasks, mixed>>
    BY <1>11 DEF SaveBegin
  <2> HIDE DEF j
  <2> QED
    BY <1>2, <1>10, <2>1, <2>2
<1>12. ASSUME NEW s \in Requests, job[s].at \notin {"clear", "insert", "done"}, Stop(s),
              UNCHANGED <<report, tasks, mixed>>
       PROVE  EodInv'
  <2>1. Over(s) \in Jobs /\ Over(s).at = "done" /\ job' = [job EXCEPT ![s] = Over(s)]
    BY <1>1, <1>12, OverFacts DEF Stop
  <2> QED
    BY <1>10, <1>12, <2>1
<1>13. ASSUME NEW s \in Saves, NEW at \in {"editable", "look"}, Goto(s, at),
              job[s].at \in {"today", "editable"}, UNCHANGED <<report, tasks, mixed>>
       PROVE  EodInv'
  <2> DEFINE j == [job[s] EXCEPT !.at = at]
  <2>1. j \in Jobs /\ j.at = at /\ j.done = 0
    BY <1>2, <1>3, <1>5, <1>13 DEF Jobs
  <2>2. job' = [job EXCEPT ![s] = j]
    BY <1>2, <1>5, <1>13 DEF Goto
  <2> HIDE DEF j
  <2> QED
    BY <1>2, <1>10, <1>13, <2>1, <2>2
<1>14. ASSUME NEW s \in Saves, SaveToday(s)
       PROVE  EodInv'
  BY <1>2, <1>12, <1>13, <1>14 DEF SaveToday
<1>15. ASSUME NEW s \in Saves, SaveEditable(s)
       PROVE  EodInv'
  BY <1>2, <1>12, <1>13, <1>15 DEF SaveEditable
<1>16. ASSUME NEW s \in Saves, SaveLook(s)
       PROVE  EodInv'
  <2> DEFINE found == report[job[s].who][job[s].date] # None
             j == [job[s] EXCEPT !.at = "write", !.found = found]
  <2>1. CASE Stop(s)
    BY <1>2, <1>12, <1>16, <2>1 DEF SaveLook
  <2>2. CASE job' = [job EXCEPT ![s].at = "write", ![s].found = found]
    <3>1. job' = [job EXCEPT ![s] = j] /\ found \in BOOLEAN
      BY <1>2, <1>5, <2>2 DEF Jobs
    <3>2. job[s].at = "look" /\ UNCHANGED <<report, tasks, mixed>>
      BY <1>16 DEF SaveLook
    <3>a. job[s] \in Jobs /\ job[s].done = 0
      BY <1>2, <1>3, <1>5, <3>2
    <3> HIDE DEF found
    <3>3. j \in Jobs /\ j.at = "write" /\ j.done = 0
      BY <3>1, <3>a DEF Jobs
    <3> HIDE DEF j
    <3> QED
      BY <1>2, <1>10, <3>1, <3>2, <3>3
  <2> QED
    BY <1>16, <2>1, <2>2 DEF SaveLook
<1>17. ASSUME NEW s \in Saves, SaveWrite(s)
       PROVE  EodInv'
  <2>1. CASE job[s].found \/ report[job[s].who][job[s].date] = None
    BY <1>1, <1>17, <2>1, WriteStep
  <2>2. CASE ~(job[s].found \/ report[job[s].who][job[s].date] = None)
    BY <1>2, <1>12, <1>17, <2>2 DEF SaveWrite
  <2> QED
    BY <2>1, <2>2
<1>18. ASSUME NEW s \in Saves, ClearTasks(s)
       PROVE  EodInv'
  <2> DEFINE e0 == job[s].who
             d0 == job[s].date
  <2>1. e0 \in Authors /\ d0 \in Days /\ job[s].at = "clear" /\ Of(s) = <<e0, d0>>
    BY <1>1, <1>2, <1>5, <1>18 DEF TypeOK, Jobs, ClearTasks, Of
  <2>2. /\ tasks' = [tasks EXCEPT ![e0][d0] = {}] /\ UNCHANGED <<report, mixed>>
        /\ IF job[s].lines = 0 THEN Stop(s) ELSE Goto(s, "insert")
    BY <1>18 DEF ClearTasks
  <2>3. job[s].lines \in Nat /\ FirstLines(s, 0) = {}
    <3>1. 1 .. 0 = {}
      OBVIOUS
    <3>2. job[s].lines \in Nat
      BY <1>2, <1>5 DEF Jobs
    <3> QED
      BY <3>1, <3>2 DEF FirstLines
  <2>4. Of(s) \notin mixed => job[s].done = 0
    BY <1>1, <2>1 DEF SavesInOrder, Progress, Writing
  <2>5. /\ \A r \in Requests \ {s} : job'[r] = job[r]
        /\ job'[s].lines = job[s].lines
        /\ job[s].lines = 0 => job'[s].at = "done"
        /\ job[s].lines # 0 => job'[s].at = "insert" /\ Of(s)' = Of(s) /\ job'[s].done = job[s].done
    <3>1. CASE job[s].lines = 0
      BY <1>1, <1>2, <1>5, <2>2, <3>1, OverFacts DEF Stop
    <3>2. CASE job[s].lines # 0
      BY <1>2, <1>5, <2>2, <3>2 DEF Goto, Of, Jobs
    <3> QED
      BY <3>1, <3>2
  <2>6. tasks'[e0][d0] = {} /\ \A e \in Authors, d \in Days : Of(s) # <<e, d>> => tasks'[e][d] = tasks[e][d]
    BY <1>1, <2>1, <2>2 DEF TypeOK
  <2>7. Of(s) \notin mixed' =>
           IF job'[s].at = "done" THEN tasks'[e0][d0] = FirstLines(s, job[s].lines)
           ELSE job'[s].done < job'[s].lines /\ tasks'[e0][d0] = FirstLines(s, job'[s].done)
    <3> HIDE DEF e0, d0
    <3>1. CASE job[s].lines = 0
      <4>1. job'[s].at = "done" /\ FirstLines(s, job[s].lines) = {}
        BY <2>3, <2>5, <3>1
      <4> QED
        BY <2>6, <4>1
    <3>2. CASE job[s].lines # 0
      <4>1. Of(s) \notin mixed' => job[s].done = 0
        BY <2>2, <2>4
      <4>2. job'[s].at = "insert" /\ job'[s].lines = job[s].lines /\ job'[s].done = job[s].done
        BY <2>5, <3>2
      <4>3. Of(s) \notin mixed' => job'[s].done < job'[s].lines
        BY <2>3, <3>2, <4>1, <4>2
      <4>4. Of(s) \notin mixed' => tasks'[e0][d0] = FirstLines(s, job'[s].done)
        BY <2>3, <2>6, <4>1, <4>2
      <4> QED
        BY <4>2, <4>3, <4>4
    <3> QED
      BY <3>1, <3>2
  <2> QED
    BY <1>1, <2>1, <2>2, <2>5, <2>6, <2>7, WritersMove
<1>19. ASSUME NEW s \in Saves, InsertTask(s)
       PROVE  EodInv'
  <2> DEFINE e0 == job[s].who
             d0 == job[s].date
             next == job[s].done + 1
  <2>1. e0 \in Authors /\ d0 \in Days /\ job[s].at = "insert" /\ Of(s) = <<e0, d0>>
        /\ job[s].lines \in Nat /\ job[s].done \in Nat /\ next \in Nat
    BY <1>1, <1>2, <1>5, <1>19 DEF TypeOK, Jobs, InsertTask, Of
  <2>2. /\ tasks' = [tasks EXCEPT ![e0][d0] = @ \cup {[form |-> s, line |-> next]}]
        /\ job' = [job EXCEPT ![s] = IF next = job[s].lines THEN Over(s) ELSE [job[s] EXCEPT !.done = next]]
        /\ UNCHANGED <<report, mixed>>
    BY <1>19 DEF InsertTask
  <2>3. FirstLines(s, next) = FirstLines(s, job[s].done) \cup {[form |-> s, line |-> next]}
    <3>1. 1 .. next = 1 .. job[s].done \cup {next}
      BY <2>1
    <3> HIDE DEF next
    <3> QED
      BY <3>1 DEF FirstLines
  <2>4. Of(s) \notin mixed => job[s].done < job[s].lines /\ tasks[e0][d0] = FirstLines(s, job[s].done)
    BY <1>1, <2>1 DEF SavesInOrder, Progress, Writing
  <2>5. /\ \A r \in Requests \ {s} : job'[r] = job[r]
        /\ job'[s].lines = job[s].lines
        /\ next = job[s].lines => job'[s].at = "done"
        /\ next # job[s].lines => job'[s].at = "insert" /\ Of(s)' = Of(s) /\ job'[s].done = next
    <3>1. CASE next = job[s].lines
      BY <1>1, <1>2, <1>5, <2>2, <3>1, OverFacts
    <3>2. CASE next # job[s].lines
      BY <1>2, <1>5, <2>1, <2>2, <3>2 DEF Of, Jobs
    <3> QED
      BY <3>1, <3>2
  <2>6. /\ tasks'[e0][d0] = tasks[e0][d0] \cup {[form |-> s, line |-> next]}
        /\ \A e \in Authors, d \in Days : Of(s) # <<e, d>> => tasks'[e][d] = tasks[e][d]
    BY <1>1, <2>1, <2>2 DEF TypeOK
  <2>7. Of(s) \notin mixed' =>
           IF job'[s].at = "done" THEN tasks'[e0][d0] = FirstLines(s, job[s].lines)
           ELSE job'[s].done < job'[s].lines /\ tasks'[e0][d0] = FirstLines(s, job'[s].done)
    <3>1. ASSUME Of(s) \notin mixed
          PROVE  tasks'[e0][d0] = FirstLines(s, next) /\ next <= job[s].lines
      BY <2>1, <2>3, <2>4, <2>6, <3>1
    <3> HIDE DEF e0, d0
    <3> QED
      BY <2>1, <2>2, <2>5, <3>1
  <2>8. job'[s].at = "done" \/ job'[s].at = "insert"
    BY <2>5
  <2> QED
    BY <1>1, <2>1, <2>2, <2>5, <2>6, <2>7, WritersMove
<1>20. ASSUME NEW u \in Unlocks, NEW e \in Authors, NEW d \in Days, UnlockBegin(u, e, d)
       PROVE  EodInv'
  <2> DEFINE j == [New EXCEPT !.at = "write", !.who = e, !.date = d, !.found = (d = day)]
  <2>1. j \in Jobs /\ j.at = "write" /\ j.done = 0
    BY DEF New, Jobs
  <2>2. job' = [job EXCEPT ![u] = j] /\ job[u].at = "new" /\ UNCHANGED <<report, tasks, mixed>>
    BY <1>20 DEF UnlockBegin
  <2> HIDE DEF j
  <2> QED
    BY <1>2, <1>10, <2>1, <2>2
<1>21. ASSUME NEW u \in Unlocks, UnlockWrite(u)
       PROVE  EodInv'
  <2>1. Over(u) \in Jobs /\ Over(u).at = "done" /\ job' = [job EXCEPT ![u] = Over(u)]
        /\ job[u].at = "write" /\ UNCHANGED <<tasks, mixed>>
    BY <1>1, <1>2, <1>21, OverFacts DEF UnlockWrite, Stop
  <2>2. ASSUME NEW e \in Authors, NEW d \in Days
        PROVE  /\ report'[e][d] = None <=> report[e][d] = None
               /\ report[e][d] # None => report'[e][d].form = report[e][d].form
    <3> DEFINE e0 == job[u].who
               d0 == job[u].date
    <3>1. CASE job[u].found /\ Submitted(e0, d0)
      <4>1. report[e0][d0] # None
        BY <3>1 DEF Submitted
      <4>2. report \in [Authors -> [Days -> Rows \cup {None}]] /\ e0 \in Authors /\ d0 \in Days
        BY <1>1, <1>2, <1>5, <2>1 DEF TypeOK, Jobs
      <4>3. report' = [report EXCEPT ![e0][d0].status = "draft", ![e0][d0].sent = FALSE,
                                     ![e0][d0].unlocked = TRUE]
        BY <1>21, <3>1 DEF UnlockWrite
      <4> HIDE DEF e0, d0
      <4>4. report[e0][d0] \in Rows
        BY <4>1, <4>2
      <4>5. [report[e0][d0] EXCEPT !.status = "draft", !.sent = FALSE, !.unlocked = TRUE] \in Rows
            /\ [report[e0][d0] EXCEPT !.status = "draft", !.sent = FALSE, !.unlocked = TRUE].form
                  = report[e0][d0].form
        BY <4>4 DEF Rows
      <4>6. report' = [report EXCEPT ![e0][d0] =
               [report[e0][d0] EXCEPT !.status = "draft", !.sent = FALSE, !.unlocked = TRUE]]
        BY <4>2, <4>3, <4>4 DEF Rows
      <4> QED
        BY <4>1, <4>2, <4>5, <4>6, EodAssumption
    <3>2. CASE ~(job[u].found /\ Submitted(e0, d0))
      BY <1>21, <3>2 DEF UnlockWrite
    <3> QED
      BY <3>1, <3>2
  <2> QED
    BY <1>2, <1>10, <2>1, <2>2
<1>22. ASSUME NEW s \in Requests, Abort(s)
       PROVE  EodInv'
  <2>1. CASE job[s].at \notin {"clear", "insert"}
    BY <1>12, <1>22, <2>1 DEF Abort
  <2>2. CASE job[s].at \in {"clear", "insert"}
    <3>1. s \in Saves
      BY <1>2, <1>4, <2>2 DEF Requests
    <3>2. /\ Over(s) \in Jobs /\ Over(s).at = "done" /\ Over(s).lines = job[s].lines
          /\ job' = [job EXCEPT ![s] = Over(s)] /\ mixed' = mixed \cup {Of(s)}
          /\ UNCHANGED <<report, tasks>>
      BY <1>1, <1>22, <2>2, OverFacts DEF Abort, Stop
    <3>3. /\ \A r \in Requests \ {s} : job'[r] = job[r]
          /\ job'[s].at = "done" /\ job'[s].lines = job[s].lines
          /\ mixed \subseteq mixed' /\ Of(s) \in mixed'
      BY <1>2, <1>5, <3>2
    <3> QED
      BY <1>1, <2>2, <3>1, <3>2, <3>3, WritersMove
  <2> QED
    BY <2>1, <2>2
<1>23. CASE \E t \in Rosters : Reassign(t)
  BY <1>9, <1>23 DEF Reassign
<1>24. ASSUME NEW d \in CloseDays, Reopen(d)
       PROVE  EodInv'
  BY <1>9, <1>24 DEF Reopen
<1>25. CASE \E e \in Authors : ClockIn(e)
  BY <1>9, <1>25 DEF ClockIn
<1>26. CASE \E v \in Watchers, k \in Today(day) : Dismiss(v, k)
  BY <1>9, <1>26 DEF Dismiss
<1>27. CASE UNCHANGED vars
  BY <1>9, <1>27 DEF vars
<1> QED
  BY <1>7, <1>8, <1>11, <1>14, <1>15, <1>16, <1>17, <1>18, <1>19, <1>20, <1>21, <1>22,
     <1>23, <1>24, <1>25, <1>26, <1>27 DEF Next

\* What follows of the pages from the types: the feeds of any viewer lie
\* within what the detail page opens, for every roster the forms can make.
LEMMA PagesFollow == TypeOK => PagesAgree
<1> SUFFICES ASSUME TypeOK, NEW v \in People, team[v].active
             PROVE  /\ FeedRows(v) \subseteq Openable(v) \cap UnlockRows \cap RecentRows(v)
                    /\ RecentRows(v) \subseteq Openable(v)
                    /\ ManagesTeam(team, v) => ExportRows(v) \cap Openable(v) \subseteq RecentRows(v)
                    /\ \A e \in Manageable(team, v) : CanManage(team, v, e)
  BY DEF PagesAgree
<1>1. team \in AllRosters /\ NobodyManagesThemselves(team) /\ Authors \subseteq People
  BY EodAssumption DEF TypeOK
<1>2. day \in Nat /\ Days \subseteq Nat
  BY EodAssumption DEF TypeOK
<1>3. ASSUME NEW e \in Feed(team, v)
      PROVE  CanView(team, v, e)
  <2>1. CASE IsAdmin(team, v)
    BY <2>1 DEF CanView
  <2>2. CASE ManagesTeam(team, v) /\ ~IsAdmin(team, v)
    BY <1>1, <1>3, <2>2 DEF Feed, CanView
  <2>3. CASE ~ManagesTeam(team, v)
    <3>1. e \in People /\ team[e].active /\ team[e].manager = team[v].manager /\ team[v].manager # None
      BY <1>3, <2>3 DEF Feed, ManagesTeam, IsAdmin
    <3>2. team[v].manager # v
      BY <1>1 DEF NobodyManagesThemselves
    <3> QED
      BY <2>3, <3>1, <3>2 DEF CanView
  <2> QED
    BY <2>1, <2>2, <2>3
<1>4. RecentRows(v) \subseteq Openable(v)
  BY <1>3 DEF RecentRows, Openable
<1>5. FeedRows(v) \subseteq UnlockRows \cap RecentRows(v)
  BY <1>2 DEF FeedRows, UnlockRows, RecentRows, RecentSince
<1>6. ASSUME ManagesTeam(team, v), NEW e \in Manageable(team, v)
      PROVE  e \in Feed(team, v) /\ CanManage(team, v, e)
  <2>1. e \in People /\ team[e].active /\ e # v
    BY <1>1, <1>6 DEF Manageable, NobodyManagesThemselves, IsAdmin
  <2>2. v # None
    BY EodAssumption
  <2> QED
    BY <1>6, <2>1, <2>2 DEF Manageable, Feed, CanManage, IsAdmin
<1>7. ASSUME NEW e \in Manageable(team, v)
      PROVE  CanManage(team, v, e)
  BY <1>7 DEF Manageable, CanManage
<1>8. ASSUME ManagesTeam(team, v), NEW r \in ExportRows(v) \cap Openable(v)
      PROVE  r \in RecentRows(v)
  <2>1. r \in Authors \X Days /\ r[1] \in Feed(team, v) /\ Submitted(r[1], r[2])
    BY <1>6, <1>8 DEF ExportRows, Openable
  <2>2. r[2] \in Nat /\ r[2] >= day - 6
    BY <1>2, <1>8, <2>1 DEF ExportRows, WeekSince
  <2>3. r[2] >= day - 7
    BY <1>2, <2>2
  <2> QED
    BY <2>1, <2>3 DEF RecentRows, RecentSince
<1> QED
  BY <1>4, <1>5, <1>7, <1>8

\* Between saves, whatever ran side by side before, a report not marked as
\* mixed has exactly the tasks of the form that wrote its summary.
THEOREM OneFormTheorem == Spec => []OneFormAtRest
<1>1. EodInv => OneFormAtRest
  BY DEF EodInv
<1> QED
  BY InitInv, NextInv, <1>1, PTL DEF Spec

\* Whatever the rosters, the reports and the dates, the pages agree with one
\* another.
THEOREM PagesTheorem == Spec => []PagesAgree
<1>1. EodInv => PagesAgree
  BY PagesFollow DEF EodInv, SavesInOrder
<1> QED
  BY InitInv, NextInv, <1>1, PTL DEF Spec

-----------------------------------------------------------------------------
(* What came after a request had looked for it.                            *)

\* An unlock that found no report of today ends without a write.
Live(s, j) == s \in Unlocks => j.found

\* A request past a look has been told of what came since, and a save about
\* to write a submitted report of the submission: the looks of eod/report.rs.
ToldOf(s, j) ==
    /\ j.at \in {"editable", "look", "write", "clear", "insert"} /\ Live(s, j) /\ j.date # day =>
          "midnight" \in j.since
    /\ j.at \in {"look", "write", "clear", "insert"} /\ Live(s, j) /\ j.date \in closed =>
          "close" \in j.since
    /\ s \in Saves /\ j.at = "write" /\ Submitted(j.who, j.date) => "submit" \in j.since

Told == \A s \in Requests : ToldOf(s, job[s])

\* Telling a request something takes nothing else from it.
LEMMA TellKeeps ==
    ASSUME TypeOK, NEW S, NEW what
    PROVE  \A s \in Requests :
              /\ Tell(S, what)[s].at = job[s].at /\ Tell(S, what)[s].who = job[s].who
              /\ Tell(S, what)[s].date = job[s].date /\ Tell(S, what)[s].found = job[s].found
              /\ job[s].since \subseteq Tell(S, what)[s].since
              /\ s \in S => what \in Tell(S, what)[s].since
<1>1. ASSUME NEW s \in Requests
      PROVE  job[s] \in Jobs
  BY DEF TypeOK
<1> QED
  BY <1>1 DEF Tell, Jobs

\* A request moves on its own, and no report becomes a submitted one.
LEMMA ToldMove ==
    ASSUME TypeOK, Told, UNCHANGED <<day, closed>>, NEW s \in Requests, NEW j, ToldOf(s, j),
           job' = [job EXCEPT ![s] = j],
           \A e \in Authors, d \in Days : Submitted(e, d)' => Submitted(e, d),
           j.at = "write" => j.who \in Authors /\ j.date \in Days
    PROVE  Told'
<1>1. job \in [Requests -> Jobs]
  BY DEF TypeOK
<1>2. ASSUME NEW r \in Requests, job[r].at = "write"
      PROVE  job[r].who \in Authors /\ job[r].date \in Days
  BY <1>1, <1>2 DEF TypeOK, Jobs
<1>3. ASSUME NEW r \in Requests
      PROVE  ToldOf(r, job[r])'
  <2>1. CASE r = s
    <3>1. job'[r] = j
      BY <1>1, <2>1
    <3>2. j.at = "write" /\ Submitted(j.who, j.date)' => Submitted(j.who, j.date)
      OBVIOUS
    <3> QED
      BY <2>1, <3>1, <3>2 DEF ToldOf, Live, Submitted
  <2>2. CASE r # s
    <3>1. job'[r] = job[r] /\ ToldOf(r, job[r])
      BY <1>1, <2>2 DEF Told
    <3>2. job[r].at = "write" /\ Submitted(job[r].who, job[r].date)' => Submitted(job[r].who, job[r].date)
      BY <1>2, <3>1
    <3> QED
      BY <3>1, <3>2 DEF ToldOf, Live, Submitted
  <2> QED
    BY <2>1, <2>2
<1> QED
  BY <1>3 DEF Told, Requests

\* Requests are told at midnight and when a period closes.
LEMMA ToldTell ==
    ASSUME TypeOK, Told, UNCHANGED report,
           \/ job' = Tell(PastToday, "midnight") /\ UNCHANGED closed
           \/ \E d \in CloseDays : /\ closed' = closed \cup {d} /\ UNCHANGED day
                                   /\ job' = Tell({s \in PastEditable : job[s].date = d}, "close")
    PROVE  Told'
<1>1. ASSUME NEW s \in Requests, NEW S, NEW what, job' = Tell(S, what)
      PROVE  /\ job'[s].at = job[s].at /\ job'[s].who = job[s].who /\ job'[s].date = job[s].date
             /\ job'[s].found = job[s].found /\ job[s].since \subseteq job'[s].since
             /\ s \in S => what \in job'[s].since
  BY <1>1, TellKeeps
<1>2. ASSUME NEW s \in Requests
      PROVE  ToldOf(s, job[s])'
  <2>1. ToldOf(s, job[s])
    BY DEF Told
  <2>2. CASE job' = Tell(PastToday, "midnight") /\ UNCHANGED closed
    <3>1. s \in PastToday => "midnight" \in job'[s].since
      BY <1>1, <2>2
    <3> QED
      BY <1>1, <2>1, <2>2, <3>1 DEF ToldOf, Live, Submitted, PastToday
  <2>3. ASSUME NEW d \in CloseDays, closed' = closed \cup {d}, UNCHANGED day,
               job' = Tell({r \in PastEditable : job[r].date = d}, "close")
        PROVE  ToldOf(s, job[s])'
    <3> DEFINE S == {r \in PastEditable : job[r].date = d}
    <3>0. s \in PastEditable /\ job[s].date = d => s \in S
      OBVIOUS
    <3> HIDE DEF S
    <3>a. job' = Tell(S, "close")
      BY <2>3 DEF S
    <3>1. s \in PastEditable /\ job[s].date = d => "close" \in job'[s].since
      BY <1>1, <3>0, <3>a
    <3> QED
      BY <1>1, <2>1, <2>3, <3>1 DEF ToldOf, Live, Submitted, PastToday, PastEditable
  <2> QED
    BY <2>2, <2>3
<1> QED
  BY <1>2 DEF Told, Requests

\* What a save writes: the report of its own day and author, submitted if
\* the form says so.
LEMMA Written ==
    ASSUME TypeOK, TypeOK', NEW s \in Saves, SaveWrite(s),
           job[s].found \/ report[job[s].who][job[s].date] = None
    PROVE  /\ job[s].who \in Authors /\ job[s].date \in Days
           /\ \A e \in Authors, d \in Days : <<e, d>> # Of(s) => report'[e][d] = report[e][d]
           /\ report'[job[s].who][job[s].date].status = "submitted" => job[s].submit
<1> DEFINE e0 == job[s].who
           d0 == job[s].date
           row == [status |-> IF job[s].submit THEN "submitted" ELSE "draft",
                   sent |-> job[s].submit \/ (report[e0][d0] # None /\ report[e0][d0].sent),
                   unlocked |-> report[e0][d0] # None /\ report[e0][d0].unlocked,
                   form |-> s]
<1>1. e0 \in Authors /\ d0 \in Days
  BY DEF TypeOK, Jobs, SaveWrite, Requests
<1>2. report \in [Authors -> [Days -> Rows \cup {None}]]
  BY DEF TypeOK
<1>3. report' = [report EXCEPT ![e0][d0] = row]
  BY DEF SaveWrite
<1>4. row.status = IF job[s].submit THEN "submitted" ELSE "draft"
  OBVIOUS
<1> HIDE DEF row
<1>5. report'[e0][d0] = row
  BY <1>1, <1>2, <1>3
<1>6. ASSUME NEW e \in Authors, NEW d \in Days, <<e, d>> # Of(s)
      PROVE  report'[e][d] = report[e][d]
  BY <1>1, <1>2, <1>3, <1>6 DEF Of
<1>7. report'[e0][d0].status = "submitted" => job[s].submit
  BY <1>4, <1>5
<1> QED
  BY <1>1, <1>6, <1>7

\* What an unlock writes: the report it found of today, a draft again.
LEMMA UnlockDrafts ==
    ASSUME TypeOK, TypeOK', NEW u \in Unlocks, UnlockWrite(u)
    PROVE  /\ \A e \in Authors, d \in Days : report'[e][d] # report[e][d] =>
                 job[u].found /\ <<e, d>> = Of(u)
           /\ \A e \in Authors, d \in Days : Submitted(e, d)' => Submitted(e, d)
<1> DEFINE e0 == job[u].who
           d0 == job[u].date
<1>1. /\ u \in Requests /\ e0 \in Authors /\ d0 \in Days
      /\ report \in [Authors -> [Days -> Rows \cup {None}]]
  BY DEF TypeOK, Jobs, UnlockWrite, Requests
<1>2. CASE job[u].found /\ Submitted(e0, d0)
  <2>1. report' = [report EXCEPT ![e0][d0].status = "draft", ![e0][d0].sent = FALSE,
                                 ![e0][d0].unlocked = TRUE]
    BY <1>2 DEF UnlockWrite
  <2>2. \A e \in Authors, d \in Days : <<e, d>> # <<e0, d0>> => report'[e][d] = report[e][d]
    BY <1>1, <2>1
  <2> QED
    BY <1>1, <1>2, <2>2 DEF Submitted, Of
<1>3. CASE ~(job[u].found /\ Submitted(e0, d0))
  BY <1>3 DEF UnlockWrite, Submitted
<1> QED
  BY <1>2, <1>3

\* A save writes its report: the saves about to write the same one are told
\* if it is submitted.
LEMMA ToldWrite ==
    ASSUME EodInv, TypeOK', Told, NEW s \in Saves, SaveWrite(s),
           job[s].found \/ report[job[s].who][job[s].date] = None
    PROVE  Told'
<1> DEFINE e0 == job[s].who
           d0 == job[s].date
           S == IF job[s].submit THEN PastLook(e0, d0) ELSE {}
           told == Tell(S, "submit")
<1>0. TypeOK
  BY DEF EodInv, SavesInOrder
<1>1. s \in Requests /\ s \notin Unlocks /\ job[s].at = "write"
  BY EodAssumption DEF Requests, SaveWrite
<1>2. job' = [told EXCEPT ![s].at = "clear"] /\ UNCHANGED <<day, closed>>
  BY DEF SaveWrite
<1>3. /\ told \in [Requests -> Jobs]
      /\ \A r \in Requests : /\ told[r].at = job[r].at /\ told[r].who = job[r].who
                             /\ told[r].date = job[r].date /\ told[r].found = job[r].found
                             /\ job[r].since \subseteq told[r].since
                             /\ r \in S => "submit" \in told[r].since
  BY SMTT(30), <1>0, TellFacts, TellKeeps
<1>4. /\ e0 \in Authors /\ d0 \in Days
      /\ \A e \in Authors, d \in Days : <<e, d>> # <<e0, d0>> => report'[e][d] = report[e][d]
      /\ report'[e0][d0].status = "submitted" => job[s].submit
  BY <1>0, Written DEF Of
<1>5. \A r \in Requests : r \in PastLook(e0, d0) <=> job[r].at = "write" /\ Of(r) = <<e0, d0>>
  BY DEF PastLook, PastEditable, PastToday
<1>6. job[s].submit => S = PastLook(e0, d0)
  OBVIOUS
<1> HIDE DEF S, told, e0, d0
<1>7. /\ job'[s].at = "clear" /\ job'[s].date = job[s].date /\ job'[s].found = job[s].found
      /\ job[s].since \subseteq job'[s].since
  BY <1>1, <1>2, <1>3 DEF Jobs
<1>8. \A r \in Requests \ {s} : job'[r] = told[r]
  BY <1>1, <1>2, <1>3
<1>9. ASSUME NEW r \in Requests
      PROVE  ToldOf(r, job[r])'
  <2>0. ToldOf(r, job[r])
    BY DEF Told
  <2>1. CASE r = s
    BY <1>1, <1>2, <1>7, <2>0, <2>1 DEF ToldOf, Live
  <2>2. CASE r # s
    <3>1. /\ job'[r].at = job[r].at /\ job'[r].who = job[r].who
          /\ job'[r].date = job[r].date /\ job'[r].found = job[r].found
          /\ job[r].since \subseteq job'[r].since
          /\ r \in S => "submit" \in job'[r].since
      BY <1>3, <1>8, <2>2
    <3>2. ASSUME r \in Saves, job[r].at = "write", report'[job[r].who][job[r].date] # None,
                 report'[job[r].who][job[r].date].status = "submitted"
          PROVE  "submit" \in job'[r].since
      <4>1. job[r].who \in Authors /\ job[r].date \in Days
        BY <1>0, <3>2 DEF TypeOK, Jobs
      <4>2. CASE Of(r) = <<e0, d0>>
        <5>1. job[s].submit
          BY <1>4, <3>2, <4>2 DEF Of
        <5> QED
          BY <1>5, <1>6, <3>1, <3>2, <4>2, <5>1
      <4>3. CASE Of(r) # <<e0, d0>>
        <5>1. Submitted(job[r].who, job[r].date)
          BY <1>4, <3>2, <4>1, <4>3 DEF Of, Submitted
        <5> QED
          BY <2>0, <3>1, <3>2, <5>1 DEF ToldOf
      <4> QED
        BY <4>2, <4>3
    <3>3. r \in Saves /\ job'[r].at = "write" /\ Submitted(job[r].who, job[r].date)' =>
             "submit" \in job'[r].since
      BY <3>1, <3>2 DEF Submitted
    <3> QED
      BY <1>2, <2>0, <3>1, <3>3 DEF ToldOf, Live
  <2> QED
    BY <2>1, <2>2
<1> QED
  BY <1>9 DEF Told, Requests

\* A request that is over has nothing left to be told.
LEMMA ToldOver ==
    ASSUME TypeOK, NEW s \in Requests
    PROVE  ToldOf(s, Over(s))
  BY OverFacts DEF ToldOf

\* Every step keeps the requests told.
LEMMA ToldStep == EodInv /\ Told /\ [Next]_vars => Told'
<1> SUFFICES ASSUME EodInv, Told, [Next]_vars PROVE Told'
  OBVIOUS
<1>1. TypeOK /\ TypeOK' /\ job \in [Requests -> Jobs]
  BY TypesKept DEF EodInv, SavesInOrder, TypeOK
<1>2. Saves \subseteq Requests /\ Unlocks \subseteq Requests /\ \A s \in Saves : s \notin Unlocks
  BY EodAssumption DEF Requests
<1>3. \A s \in Requests : job[s].at \notin {"new", "done"} =>
         job[s].who \in Authors /\ job[s].date \in Days
  BY <1>1 DEF TypeOK, Jobs
<1>4. \A u \in Unlocks : job[u].at \in {"new", "write", "done"}
  BY DEF EodInv, SavesInOrder
<1>5. ASSUME UNCHANGED <<day, closed, report, job>>
      PROVE  Told'
  <2>1. ASSUME NEW s \in Requests
        PROVE  ToldOf(s, job[s])'
    BY <1>5 DEF Told, ToldOf, Live, Submitted
  <2> QED
    BY <2>1 DEF Told, Requests
<1>6. ASSUME NEW s \in Requests, NEW j, ToldOf(s, j), job' = [job EXCEPT ![s] = j],
             j.at = "write" => j.who \in Authors /\ j.date \in Days,
             UNCHANGED <<day, closed, report>>
      PROVE  Told'
  <2>1. \A e \in Authors, d \in Days : Submitted(e, d)' => Submitted(e, d)
    BY <1>6 DEF Submitted
  <2> QED
    BY <1>1, <1>6, <2>1, ToldMove
<1>7. ASSUME NEW s \in Requests, Stop(s), UNCHANGED <<day, closed, report>>
      PROVE  Told'
  <2>1. ToldOf(s, Over(s)) /\ Over(s).at = "done"
    BY <1>1, ToldOver, OverFacts
  <2> QED
    BY <1>6, <1>7, <2>1 DEF Stop
\* A save goes on, its look having found what it asks for.
<1>8. ASSUME NEW s \in Saves, NEW at, Goto(s, at), UNCHANGED <<day, closed, report>>,
             \/ at = "editable" /\ job[s].date = day
             \/ at = "look" /\ job[s].at = "editable" /\ job[s].date \notin closed
             \/ at = "insert" /\ job[s].at = "clear"
      PROVE  Told'
  <2> DEFINE j == [job[s] EXCEPT !.at = at]
  <2>1. j.at = at /\ j.date = job[s].date /\ j.since = job[s].since
    BY <1>1, <1>2, <1>8 DEF Jobs
  <2>2. job' = [job EXCEPT ![s] = j]
    BY <1>1, <1>2, <1>8 DEF Goto
  <2> HIDE DEF j
  <2>3. ToldOf(s, job[s])
    BY <1>2 DEF Told
  <2>4. ToldOf(s, j)
    BY <1>2, <1>8, <2>1, <2>3 DEF ToldOf, Live
  <2> QED
    BY <1>2, <1>6, <1>8, <2>1, <2>2, <2>4
<1>9. CASE Midnight
  BY <1>1, <1>9, ToldTell DEF Midnight
<1>10. ASSUME NEW d \in CloseDays, Close(d)
       PROVE  Told'
  BY <1>1, <1>10, ToldTell DEF Close
<1>11. ASSUME NEW d \in CloseDays, Reopen(d)
       PROVE  Told'
  <2>1. ASSUME NEW s \in Requests
        PROVE  ToldOf(s, job[s])'
    BY <1>11 DEF Told, ToldOf, Live, Submitted, Reopen
  <2> QED
    BY <2>1 DEF Told, Requests
<1>12. CASE \E t \in Rosters : Reassign(t)
  BY <1>5, <1>12 DEF Reassign
<1>13. CASE \E e \in Authors : ClockIn(e)
  BY <1>5, <1>13 DEF ClockIn
<1>14. ASSUME NEW s \in Saves, NEW e \in Authors, NEW submit \in BOOLEAN, NEW n \in Sizes,
              SaveBegin(s, e, submit, n)
       PROVE  Told'
  <2> DEFINE j == [New EXCEPT !.at = "today", !.who = e, !.date = day, !.submit = submit, !.lines = n]
  <2>1. ToldOf(s, j) /\ j.at = "today"
    BY DEF ToldOf, New
  <2>2. job' = [job EXCEPT ![s] = j] /\ UNCHANGED <<day, closed, report>>
    BY <1>14 DEF SaveBegin
  <2> HIDE DEF j
  <2> QED
    BY <1>2, <1>6, <2>1, <2>2
<1>15. ASSUME NEW s \in Saves, SaveToday(s)
       PROVE  Told'
  BY <1>2, <1>7, <1>8, <1>15 DEF SaveToday
<1>16. ASSUME NEW s \in Saves, SaveEditable(s)
       PROVE  Told'
  BY <1>2, <1>7, <1>8, <1>16 DEF SaveEditable
<1>17. ASSUME NEW s \in Saves, SaveLook(s)
       PROVE  Told'
  <2> DEFINE found == report[job[s].who][job[s].date] # None
             j == [job[s] EXCEPT !.at = "write", !.found = found]
  <2>0. job[s].at = "look" /\ UNCHANGED <<day, closed, report>>
    BY <1>17 DEF SaveLook
  <2>1. CASE Stop(s)
    BY <1>2, <1>7, <2>0, <2>1
  <2>2. CASE /\ ~Submitted(job[s].who, job[s].date)
             /\ job' = [job EXCEPT ![s].at = "write", ![s].found = found]
    <3>1. job' = [job EXCEPT ![s] = j] /\ job[s] \in Jobs
      BY <1>1, <1>2, <2>2 DEF Jobs
    <3> HIDE DEF found
    <3>2. /\ j.at = "write" /\ j.date = job[s].date /\ j.who = job[s].who
          /\ j.since = job[s].since
      BY <3>1 DEF Jobs
    <3> HIDE DEF j
    <3>3. ToldOf(s, job[s]) /\ job[s].who \in Authors /\ job[s].date \in Days
      BY <1>2, <1>3, <2>0 DEF Told
    <3>4. ToldOf(s, j)
      BY <1>2, <2>0, <2>2, <3>2, <3>3 DEF ToldOf, Live
    <3> QED
      BY <1>2, <1>6, <2>0, <3>1, <3>2, <3>3, <3>4
  <2> QED
    BY <1>17, <2>1, <2>2 DEF SaveLook
<1>18. ASSUME NEW s \in Saves, SaveWrite(s)
       PROVE  Told'
  <2>1. CASE job[s].found \/ report[job[s].who][job[s].date] = None
    BY <1>1, <1>18, <2>1, ToldWrite
  <2>2. CASE ~(job[s].found \/ report[job[s].who][job[s].date] = None)
    BY <1>2, <1>7, <1>18, <2>2 DEF SaveWrite
  <2> QED
    BY <2>1, <2>2
<1>19. ASSUME NEW s \in Saves, ClearTasks(s)
       PROVE  Told'
  BY <1>2, <1>7, <1>8, <1>19 DEF ClearTasks
<1>20. ASSUME NEW s \in Saves, InsertTask(s)
       PROVE  Told'
  <2> DEFINE next == job[s].done + 1
             j == [job[s] EXCEPT !.done = next]
  <2>1. /\ job[s].at = "insert" /\ UNCHANGED <<day, closed, report>>
        /\ job' = [job EXCEPT ![s] = IF next = job[s].lines THEN Over(s) ELSE j]
    BY <1>20 DEF InsertTask
  <2>2. CASE next = job[s].lines
    BY <1>2, <1>7, <2>1, <2>2 DEF Stop
  <2>3. CASE next # job[s].lines
    <3>0. job[s] \in Jobs
      BY <1>1, <1>2
    <3> HIDE DEF next
    <3>1. j.at = "insert" /\ j.date = job[s].date /\ j.since = job[s].since
      BY <2>1, <3>0 DEF Jobs
    <3> HIDE DEF j
    <3>2. ToldOf(s, job[s])
      BY <1>2 DEF Told
    <3>3. ToldOf(s, j)
      BY <1>2, <2>1, <3>1, <3>2 DEF ToldOf, Live
    <3> QED
      BY <1>2, <1>6, <2>1, <2>3, <3>1, <3>3
  <2> QED
    BY <2>2, <2>3
<1>21. ASSUME NEW u \in Unlocks, NEW e \in Authors, NEW d \in Days, UnlockBegin(u, e, d)
       PROVE  Told'
  <2> DEFINE found == d = day
             j == [New EXCEPT !.at = "write", !.who = e, !.date = d, !.found = found]
  <2>1. /\ job' = [job EXCEPT ![u] = j] /\ day \notin closed
        /\ UNCHANGED <<day, closed, report>>
    BY <1>21 DEF UnlockBegin
  <2>2. j.at = "write" /\ j.who = e /\ j.date = d /\ j.found = found
    BY DEF New
  <2> HIDE DEF j
  <2>3. ToldOf(u, j)
    BY <1>2, <2>1, <2>2 DEF ToldOf, Live
  <2> QED
    BY <1>2, <1>6, <2>1, <2>2, <2>3
<1>22. ASSUME NEW u \in Unlocks, UnlockWrite(u)
       PROVE  Told'
  <2>1. ToldOf(u, Over(u)) /\ Over(u).at = "done" /\ job' = [job EXCEPT ![u] = Over(u)]
        /\ UNCHANGED <<day, closed>>
    BY <1>1, <1>2, <1>22, ToldOver, OverFacts DEF UnlockWrite, Stop
  <2>2. \A e \in Authors, d \in Days : Submitted(e, d)' => Submitted(e, d)
    BY <1>1, <1>2, <1>22, UnlockDrafts
  <2> QED
    BY <1>1, <1>2, <2>1, <2>2, ToldMove
<1>23. ASSUME NEW s \in Requests, Abort(s)
       PROVE  Told'
  BY <1>7, <1>23 DEF Abort
<1>24. CASE \E v \in Watchers, k \in Today(day) : Dismiss(v, k)
  BY <1>5, <1>24 DEF Dismiss
<1>25. CASE UNCHANGED vars
  BY <1>5, <1>25 DEF vars
<1> QED
  BY <1>9, <1>10, <1>11, <1>12, <1>13, <1>14, <1>15, <1>16, <1>17, <1>18, <1>19, <1>20, <1>21,
     <1>22, <1>23, <1>24, <1>25 DEF Next

\* A report changes under a request that wrote it, and looked before.
LEMMA SettleStep ==
    ASSUME EodInv, Told, [Next]_vars, NEW e \in Authors, NEW d \in Days
    PROVE  /\ report'[e][d] # report[e][d] =>
                 \E s \in Requests :
                     /\ job[s].at = "write" /\ job'[s].at # "write" /\ Of(s) = <<e, d>>
                     /\ Submitted(e, d) => s \in Unlocks \/ (job[s].found /\ "submit" \in job[s].since)
           /\ <<report'[e][d], tasks'[e][d]>> # <<report[e][d], tasks[e][d]>> =>
                 \E s \in Requests :
                     /\ job[s] # job'[s] /\ Of(s) = <<e, d>>
                     /\ d # day => "midnight" \in job[s].since
                     /\ d \in closed => "close" \in job[s].since
<1> DEFINE Settled ==
             /\ report'[e][d] # report[e][d] =>
                   \E s \in Requests :
                       /\ job[s].at = "write" /\ job'[s].at # "write" /\ Of(s) = <<e, d>>
                       /\ Submitted(e, d) => s \in Unlocks \/ (job[s].found /\ "submit" \in job[s].since)
             /\ <<report'[e][d], tasks'[e][d]>> # <<report[e][d], tasks[e][d]>> =>
                   \E s \in Requests :
                       /\ job[s] # job'[s] /\ Of(s) = <<e, d>>
                       /\ d # day => "midnight" \in job[s].since
                       /\ d \in closed => "close" \in job[s].since
<1>1. TypeOK /\ TypeOK' /\ job \in [Requests -> Jobs]
  BY TypesKept DEF EodInv, SavesInOrder, TypeOK
<1>2. Saves \subseteq Requests /\ Unlocks \subseteq Requests /\ \A s \in Saves : s \notin Unlocks
  BY EodAssumption DEF Requests
<1>3. ASSUME NEW s \in Requests, Of(s) = <<e, d>>,
             job[s].at \in {"write", "clear", "insert"}, s \in Unlocks => job[s].found
      PROVE  /\ d # day => "midnight" \in job[s].since
             /\ d \in closed => "close" \in job[s].since
             /\ s \in Saves /\ job[s].at = "write" /\ Submitted(e, d) => "submit" \in job[s].since
  <2>1. ToldOf(s, job[s]) /\ job[s].who = e /\ job[s].date = d
    BY <1>3 DEF Told, Of
  <2> QED
    BY <1>3, <2>1 DEF ToldOf, Live
<1>4. CASE UNCHANGED <<report, tasks>>
  BY <1>4
<1>5. ASSUME NEW s \in Saves, SaveWrite(s)
      PROVE  Settled
  <2>1. CASE ~(job[s].found \/ report[job[s].who][job[s].date] = None)
    BY <1>4, <1>5, <2>1 DEF SaveWrite
  <2>2. CASE job[s].found \/ report[job[s].who][job[s].date] = None
    <3>1. report'[e][d] # report[e][d] => Of(s) = <<e, d>>
      BY <1>1, <1>5, <2>2, Written
    <3>2. job[s].at = "write" /\ job'[s].at = "clear" /\ UNCHANGED tasks
      <4>1. job' = [Tell(IF job[s].submit THEN PastLook(job[s].who, job[s].date) ELSE {}, "submit")
                       EXCEPT ![s].at = "clear"]
        BY <1>5, <2>2 DEF SaveWrite
      <4>2. Tell(IF job[s].submit THEN PastLook(job[s].who, job[s].date) ELSE {}, "submit")
               \in [Requests -> Jobs]
        BY <1>1, TellFacts
      <4>3. job[s].at = "write" /\ UNCHANGED tasks
        BY <1>5 DEF SaveWrite
      <4>4. s \in Requests
        BY <1>5 DEF Requests
      <4> DEFINE told == Tell(IF job[s].submit THEN PastLook(job[s].who, job[s].date) ELSE {},
                              "submit")
      <4>5. job' = [told EXCEPT ![s].at = "clear"] /\ told \in [Requests -> Jobs]
        BY <4>1, <4>2
      <4> HIDE DEF told
      <4> QED
        BY <4>3, <4>4, <4>5 DEF Jobs
    <3>3. Submitted(e, d) /\ Of(s) = <<e, d>> => job[s].found
      BY <2>2 DEF Submitted, Of
    <3> QED
      BY <1>2, <1>3, <3>1, <3>2, <3>3
  <2> QED
    BY <2>1, <2>2
<1>6. ASSUME NEW s \in Saves, ClearTasks(s) \/ InsertTask(s)
      PROVE  Settled
  <2>1. job[s].at \in {"clear", "insert"} /\ UNCHANGED report
    BY <1>6 DEF ClearTasks, InsertTask
  <2>2. job[s].who \in Authors /\ job[s].date \in Days
    <3>1. /\ job[s].who \in Authors \cup {None} /\ job[s].date \in Days \cup {None}
          /\ job[s].at \notin {"new", "done"}
      BY <1>1, <1>2, <2>1 DEF Jobs
    <3>2. job[s].who # None /\ job[s].date # None
      BY <1>1, <1>2, <3>1 DEF TypeOK
    <3> QED
      BY <3>1, <3>2
  <2>3. tasks'[e][d] # tasks[e][d] => Of(s) = <<e, d>>
    <3>1. tasks \in [Authors -> [Days -> SUBSET [form : Saves, line : Nat]]]
      BY <1>1 DEF TypeOK
    <3> QED
      BY <1>6, <2>2, <3>1 DEF ClearTasks, InsertTask, Of
  <2>4. job'[s] # job[s]
    <3>0. job[s] \in Jobs /\ Over(s).at = "done"
      BY <1>1, <1>2, OverFacts
    <3>1. CASE ClearTasks(s)
      BY <1>1, <1>2, <3>0, <3>1 DEF ClearTasks, Stop, Goto, Jobs
    <3>2. CASE InsertTask(s)
      <4>1. job[s].done + 1 # job[s].done /\ job[s].at = "insert"
        BY <3>0, <3>2 DEF Jobs, InsertTask
      <4>2. job'[s] = Over(s) \/ job'[s] = [job[s] EXCEPT !.done = job[s].done + 1]
        BY <1>1, <1>2, <3>2 DEF InsertTask
      <4> QED
        BY <3>0, <4>1, <4>2 DEF Jobs
    <3> QED
      BY <1>6, <3>1, <3>2
  <2> QED
    BY <1>2, <1>3, <2>1, <2>3, <2>4
<1>7. ASSUME NEW u \in Unlocks, UnlockWrite(u)
      PROVE  Settled
  <2>1. report'[e][d] # report[e][d] => job[u].found /\ Of(u) = <<e, d>>
    BY <1>1, <1>7, UnlockDrafts
  <2>2. Over(u).at = "done"
    BY <1>1, <1>2, OverFacts
  <2>3. job[u].at = "write" /\ job'[u].at = "done" /\ UNCHANGED tasks
    BY <1>1, <1>2, <1>7, <2>2 DEF UnlockWrite, Stop
  <2> QED
    BY <1>2, <1>3, <2>1, <2>3
<1> HIDE DEF Settled
<1>8. Settled
  <2>1. CASE UNCHANGED <<report, tasks>>
    BY <1>4, <2>1 DEF Settled
  <2>2. ASSUME NEW s \in Saves, \/ \E a \in Authors, submit \in BOOLEAN, n \in Sizes : SaveBegin(s, a, submit, n)
                                \/ SaveToday(s) \/ SaveEditable(s) \/ SaveLook(s)
        PROVE  UNCHANGED <<report, tasks>>
    BY <2>2 DEF SaveBegin, SaveToday, SaveEditable, SaveLook
  <2>3. ASSUME NEW u \in Unlocks, NEW a \in Authors, NEW c \in Days, UnlockBegin(u, a, c)
        PROVE  UNCHANGED <<report, tasks>>
    BY <2>3 DEF UnlockBegin
  <2>4. ASSUME \/ Midnight
               \/ \E t \in Rosters : Reassign(t)
               \/ \E c \in CloseDays : Close(c) \/ Reopen(c)
               \/ \E a \in Authors : ClockIn(a)
               \/ \E s \in Requests : Abort(s)
               \/ \E v \in Watchers, k \in Today(day) : Dismiss(v, k)
               \/ UNCHANGED vars
        PROVE  UNCHANGED <<report, tasks>>
    BY <2>4 DEF Midnight, Reassign, Close, Reopen, ClockIn, Abort, Dismiss, vars
  <2> QED
    BY <1>5, <1>6, <1>7, <2>1, <2>2, <2>3, <2>4 DEF Next
<1> QED
  BY <1>8 DEF Settled

-----------------------------------------------------------------------------
(* The reminders.                                                          *)

\* A notification is dismissed on the day it is about.
DismissedInDay == \A v \in Watchers : \A was \in dismissed[v] : was.key.date = was.on

LEMMA DismissedStep == EodInv /\ DismissedInDay /\ [Next]_vars => DismissedInDay'
<1> SUFFICES ASSUME EodInv, DismissedInDay, [Next]_vars PROVE DismissedInDay'
  OBVIOUS
<1>1. dismissed \in [Watchers -> SUBSET [key : UNION {Today(d) : d \in Days}, on : Days]]
  BY DEF EodInv, SavesInOrder, TypeOK
<1>2. ASSUME NEW v \in Watchers, NEW k \in Today(day), Dismiss(v, k)
      PROVE  DismissedInDay'
  <2>1. k.date = day
    BY DEF Today
  <2>2. dismissed' = [dismissed EXCEPT ![v] = @ \cup {[key |-> k, on |-> day]}]
    BY <1>2 DEF Dismiss
  <2> QED
    BY <1>1, <2>1, <2>2 DEF DismissedInDay
<1>3. CASE UNCHANGED dismissed
  BY <1>3 DEF DismissedInDay
<1>4. ASSUME NEW s \in Saves,
             \/ \E e \in Authors, submit \in BOOLEAN, n \in Sizes : SaveBegin(s, e, submit, n)
             \/ SaveToday(s) \/ SaveEditable(s) \/ SaveLook(s) \/ SaveWrite(s)
             \/ ClearTasks(s) \/ InsertTask(s)
      PROVE  UNCHANGED dismissed
  BY <1>4 DEF SaveBegin, SaveToday, SaveEditable, SaveLook, SaveWrite, ClearTasks, InsertTask
<1>5. ASSUME NEW u \in Unlocks,
             (\E e \in Authors, d \in Days : UnlockBegin(u, e, d)) \/ UnlockWrite(u)
      PROVE  UNCHANGED dismissed
  BY <1>5 DEF UnlockBegin, UnlockWrite
<1>6. ASSUME \/ Midnight
             \/ \E t \in Rosters : Reassign(t)
             \/ \E c \in CloseDays : Close(c) \/ Reopen(c)
             \/ \E a \in Authors : ClockIn(a)
             \/ \E s \in Requests : Abort(s)
             \/ UNCHANGED vars
      PROVE  UNCHANGED dismissed
  BY <1>6 DEF Midnight, Reassign, Close, Reopen, ClockIn, Abort, vars
<1> QED
  BY <1>2, <1>3, <1>4, <1>5, <1>6 DEF Next

\* What follows for the reminders, whatever the roster.
LEMMA RemindersFollow ==
    ASSUME TypeOK, DismissedInDay
    PROVE  RemindersAgree
<1>1. team \in AllRosters
  BY EodAssumption DEF TypeOK
<1>2. ASSUME NEW e \in People, NeedsReminder(e), team[e].active
      PROVE  /\ team[e].manager # None /\ ~IsAdmin(team, team[e].manager) =>
                   e \in Missing(team[e].manager)
             /\ team[e].role = "employee" =>
                   \A a \in People : IsAdmin(team, a) => e \in Missing(a)
  BY <1>2 DEF NeedsReminder, Missing, Manageable
<1>3. ASSUME NEW e \in People, day \notin Holidays, NEW v \in People, e \in Missing(v)
      PROVE  NeedsReminder(e)
  BY <1>3 DEF NeedsReminder, Missing
<1>4. ASSUME NEW e \in Watchers, NEW k \in Due(e), Hidden(e, k)
      PROVE  \E was \in dismissed[e] : was.key.kind = k.kind /\ was.on = day
  <2>1. k.date = day
    BY <1>4 DEF Due, Today
  <2>2. PICK was \in dismissed[e] : was.key = k
    BY <1>4 DEF Hidden
  <2> QED
    BY <2>1, <2>2 DEF DismissedInDay
<1> QED
  BY <1>2, <1>3, <1>4 DEF RemindersAgree

-----------------------------------------------------------------------------
\* The initial state: no request, no dismissal.
LEMMA ToldInit == Init => Told /\ DismissedInDay
<1> SUFFICES ASSUME Init PROVE Told /\ DismissedInDay
  OBVIOUS
<1>1. \A s \in Requests : job[s].at = "new"
  BY DEF Init, New
<1> QED
  BY <1>1 DEF Init, Told, ToldOf, DismissedInDay

\* Whoever saves, unlocks, closes and reopens, however many and in whatever
\* order: a submitted report changes only by an unlock or a save that looked
\* before, and so do those of a past day and of a closed period
\* (eod/report.rs:44-58, 62-102, 178-202).
THEOREM SettleTheorem == Spec => ReportsSettle
<1>1. Init => EodInv /\ Told
  BY InitInv, ToldInit
<1>2. EodInv /\ Told /\ [Next]_vars => EodInv' /\ Told'
  BY NextInv, ToldStep
<1>3. EodInv /\ Told /\ [Next]_vars =>
         [\A e \in Authors, d \in Days :
            /\ report'[e][d] # report[e][d] =>
                  \E s \in Requests :
                      /\ job[s].at = "write" /\ job'[s].at # "write" /\ Of(s) = <<e, d>>
                      /\ Submitted(e, d) => s \in Unlocks \/ (job[s].found /\ "submit" \in job[s].since)
            /\ <<report'[e][d], tasks'[e][d]>> # <<report[e][d], tasks[e][d]>> =>
                  \E s \in Requests :
                      /\ job[s] # job'[s] /\ Of(s) = <<e, d>>
                      /\ d # day => "midnight" \in job[s].since
                      /\ d \in closed => "close" \in job[s].since]_vars
  BY SettleStep
<1> QED
  BY <1>1, <1>2, <1>3, PTL DEF Spec, ReportsSettle

\* The notifications and the counts of the managers agree on who is missing,
\* and a dismissal hides a reminder for its own day only
\* (eod/reminder.rs:27-47, eod/team.rs:237-249, notifications.rs:29-143).
THEOREM RemindersTheorem == Spec => []RemindersAgree
<1>1. Init => EodInv /\ DismissedInDay
  BY InitInv, ToldInit
<1>2. EodInv /\ DismissedInDay /\ [Next]_vars => EodInv' /\ DismissedInDay'
  BY NextInv, DismissedStep
<1>3. EodInv /\ DismissedInDay => RemindersAgree
  BY RemindersFollow DEF EodInv, SavesInOrder
<1> QED
  BY <1>1, <1>2, <1>3, PTL DEF Spec
=============================================================================
