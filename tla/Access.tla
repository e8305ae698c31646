------------------------------- MODULE Access -------------------------------
(***************************************************************************)
(* Who is let in: employees, their session versions, the cookies of the    *)
(* browsers and the snapshot cache that every process keeps of the         *)
(* employees (auth/session.rs, services/employees.rs, handlers/auth.rs,    *)
(* handlers/admin/employees.rs).                                           *)
(*                                                                         *)
(* A request first finds out who asks (cache, or database and cache), then *)
(* runs as that employee.  A change of an employee is an UPDATE followed   *)
(* by the removal of the snapshot from the cache of the process that made  *)
(* it.  A browser sends one request at a time; requests of two browsers,   *)
(* of one process or of two, interleave between statements.                *)
(*                                                                         *)
(* Codes, names and PINs are left out: a PIN is right or wrong, and of a   *)
(* PIN only the obligation to change it is kept.                           *)
(***************************************************************************)
EXTENDS Team, Integers, FiniteSets

CONSTANTS
    Admin,       \* the employee whose code is ADMIN
    First,       \* the employees there are at first
    Processes,   \* replicas of the server, each with a cache
    Browsers,
    Given,       \* the roles that are given
    Owner,       \* the employee who signs in with a browser
    Route,       \* the processes its requests are sent to
    MaxVersion   \* bound: the session version an employee reaches

Rows == [role : Given, active : BOOLEAN, must : BOOLEAN, version : Nat]

ASSUME AccessAssumption ==
    /\ Admin \in First /\ First \subseteq People
    /\ Owner \in [Browsers -> People] /\ Route \in [Browsers -> SUBSET Processes]
    /\ "admin" \in Given /\ Given \subseteq Roles
    /\ MaxVersion \in [People -> Nat]
    /\ None \notin People \cup Processes \cup Browsers \cup Nat \cup Rows

VARIABLES
    emp,      \* the table of employees
    cache,    \* cache[p][e]: the snapshot process p keeps of e
    cookie,   \* the session version in a browser's session, or None
    job,      \* the request a browser waits for
    excused   \* history: employees whose snapshot in p may be old

vars == <<emp, cache, cookie, job, excused>>

Steps == {"idle", "read", "put", "drop", "again", "readAgain", "putAgain", "run",
          "write", "count", "deactivate", "activate", "clear", "leave", "login"}
Standings == {"good", "distrusted", "bad", "unknown"}

(* A request: where it is, what it read, whom it changes.  Two fields are  *)
(* history: how its session stood when it began, and whether no change of  *)
(* the administrators came since it looked at its target.                  *)
Jobs == [at : Steps, proc : Processes \cup {None}, snap : Rows \cup {None},
         target : People \cup {None}, standing : Standings, alone : BOOLEAN]

Idle == [at |-> "idle", proc |-> None, snap |-> None, target |-> None,
         standing |-> "unknown", alone |-> FALSE]

(* A request that was sent to a process is in one, with what it needs.     *)
JobShape(j) ==
    /\ j.at \notin {"idle", "login"} => j.proc # None
    /\ j.at \in {"put", "putAgain", "login", "run"} => j.snap # None
    /\ j.at \in {"write", "count", "deactivate", "activate", "clear", "leave"} => j.target # None

TypeOK ==
    /\ emp \in [People -> Rows \cup {None}]
    /\ cache \in [Processes -> [People -> Rows \cup {None}]]
    /\ cookie \in [Browsers -> Nat \cup {None}]
    /\ job \in [Browsers -> Jobs]
    /\ \A b \in Browsers : JobShape(job[b])
    /\ excused \in [Processes -> SUBSET People]

NewRow(role) == [role |-> role, active |-> TRUE, must |-> TRUE, version |-> 0]

Init ==
    /\ emp = [e \in People |-> IF e \in First
                 THEN NewRow("admin") ELSE None]
    /\ cache = [p \in Processes |-> [e \in People |-> None]]
    /\ cookie = [b \in Browsers |-> None]
    /\ job = [b \in Browsers |-> Idle]
    /\ excused = [p \in Processes |-> {}]

ActiveAdmins(table) ==
    {e \in People : table[e] # None /\ table[e].active /\ table[e].role = "admin"}

(* A request of process p holds a snapshot of e that it has not stored.    *)
Holders(p, e) ==
    {b \in Browsers : job[b].proc = p /\ Owner[b] = e /\ job[b].at \in {"put", "putAgain"}}

(* A request of process p has changed e and not yet emptied the cache.     *)
Clearing(p, e) ==
    \E b \in Browsers : job[b].proc = p /\ job[b].target = e /\ job[b].at \in {"clear", "leave"}

GoodSession(b) ==
    LET row == emp[Owner[b]] IN row # None /\ row.active /\ row.version = cookie[b]

(* How the session of b stands when a request begins in process p: known   *)
(* for certain, good beside a snapshot that the second look will replace,  *)
(* or left open.                                                           *)
Standing(b, p) ==
    LET e == Owner[b]
        doubtful == e \in excused[p] \/ Clearing(p, e)
        inactive == cache[p][e] # None /\ ~cache[p][e].active
    IN CASE ~doubtful /\ GoodSession(b) -> "good"
         [] ~doubtful /\ ~GoodSession(b) -> "bad"
         [] doubtful /\ GoodSession(b) /\ Holders(p, e) = {} /\ ~inactive -> "distrusted"
         [] OTHER -> "unknown"

(* What a change of e means to another request.                            *)
Noticed(b, e, row) ==
    LET after == [emp EXCEPT ![e] = row] IN
    [job[b] EXCEPT !.standing = IF Owner[b] = e THEN "unknown" ELSE @,
                   !.alone = @ /\ ActiveAdmins(after) = ActiveAdmins(emp)]

(* An UPDATE of the row of e made in process p (None: outside the server)  *)
(* by the request of b (None: by nobody's), which goes on as next.         *)
Change(b, p, e, row, next) ==
    /\ emp' = [emp EXCEPT ![e] = row]
    /\ excused' = [q \in Processes |->
          IF Holders(q, e) # {} \/ (q # p /\ cache[q][e] # None)
          THEN excused[q] \cup {e} ELSE excused[q]]
    /\ job' = [c \in Browsers |-> IF c = b THEN next ELSE Noticed(c, e, row)]
    /\ UNCHANGED <<cache, cookie>>

-----------------------------------------------------------------------------
(* sync_session_with_db.                                                   *)

(* What follows from a snapshot: the session is refused, the snapshot is   *)
(* distrusted once, or the request runs.  Only the first look asks whether *)
(* the employee is active.                                                 *)
VerdictOneLook(b, snap, first) ==
    IF snap.active /\ snap.version = cookie[b] THEN "run" ELSE "refused"

Verdict(b, snap, first) ==
    IF first /\ ~snap.active THEN "refused"
    ELSE IF snap.version = cookie[b] THEN "run"
    ELSE IF first THEN "drop" ELSE "refused"

Settle(b, request, snap, first) ==
    LET verdict == Verdict(b, snap, first) IN
    IF verdict = "refused"
    THEN /\ job' = [job EXCEPT ![b] = Idle]
         /\ cookie' = [cookie EXCEPT ![b] = None]
    ELSE /\ job' = [job EXCEPT ![b] = [request EXCEPT !.at = verdict,
                       !.snap = IF verdict = "run" THEN snap ELSE None]]
         /\ UNCHANGED cookie

Begin(b, p) ==
    /\ job[b].at = "idle" /\ cookie[b] # None
    /\ LET request == [Idle EXCEPT !.at = "read", !.proc = p, !.standing = Standing(b, p)]
       IN IF cache[p][Owner[b]] # None
          THEN Settle(b, request, cache[p][Owner[b]], TRUE)
          ELSE job' = [job EXCEPT ![b] = request] /\ UNCHANGED cookie
    /\ UNCHANGED <<emp, cache, excused>>

Read(b) ==
    /\ job[b].at \in {"read", "readAgain"}
    /\ job' = [job EXCEPT ![b].at = IF job[b].at = "read" THEN "put" ELSE "putAgain",
                          ![b].snap = emp[Owner[b]]]
    /\ UNCHANGED <<emp, cache, cookie, excused>>

Put(b) ==
    /\ job[b].at \in {"put", "putAgain"}
    /\ cache' = [cache EXCEPT ![job[b].proc][Owner[b]] = job[b].snap]
    /\ Settle(b, job[b], job[b].snap, job[b].at = "put")
    /\ UNCHANGED <<emp, excused>>

(* invalidate_auth_snapshot_cache.                                         *)
ForgetNothing(p, e) ==
    /\ UNCHANGED cache
    /\ excused' = [excused EXCEPT ![p] = IF Holders(p, e) = {} THEN @ \ {e} ELSE @]

Forget(p, e) ==
    /\ cache' = [cache EXCEPT ![p][e] = None]
    /\ excused' = [excused EXCEPT ![p] = IF Holders(p, e) = {} THEN @ \ {e} ELSE @]

Drop(b) ==
    /\ job[b].at = "drop"
    /\ Forget(job[b].proc, Owner[b])
    /\ job' = [job EXCEPT ![b].at = "again"]
    /\ UNCHANGED <<emp, cookie>>

Again(b) ==
    /\ job[b].at = "again"
    /\ LET known == cache[job[b].proc][Owner[b]] IN
       IF known # None
       THEN Settle(b, job[b], known, FALSE)
       ELSE job' = [job EXCEPT ![b].at = "readAgain"] /\ UNCHANGED cookie
    /\ UNCHANGED <<emp, cache, excused>>

-----------------------------------------------------------------------------
(* Handlers of a request that was let in.                                  *)

Runs(b) == job[b].at = "run"

(* What the routes of a role reach; a change of PIN that is due leaves only *)
(* the page for it.                                                        *)
EmployeePages(role) == {"profile"} \cup IF role = "admin" THEN {} ELSE {"self service"}
ManagerPages(role) == IF role \in {"manager", "admin"} THEN {"manager"} ELSE {}
AdminPages(role) == IF role = "admin" THEN {"admin"} ELSE {}
Pages(row) ==
    {"pin"} \cup IF row.must THEN {}
                ELSE EmployeePages(row.role) \cup ManagerPages(row.role) \cup AdminPages(row.role)

AsAdmin(b) == Runs(b) /\ "admin" \in Pages(job[b].snap)

Finish(b) == job' = [job EXCEPT ![b] = Idle]
Then(b, at, e) == [Idle EXCEPT !.at = at, !.proc = job[b].proc, !.target = e]

(* A page that changes nothing here, or one the role does not reach.       *)
Serve(b) ==
    /\ Runs(b)
    /\ Finish(b)
    /\ UNCHANGED <<emp, cache, cookie, excused>>

(* login_submit: find_by_code, then the cookie of a new session.           *)
LoginRead(b) ==
    /\ job[b].at = "idle"
    /\ emp[Owner[b]] # None /\ emp[Owner[b]].active
    /\ job' = [job EXCEPT ![b] = [Idle EXCEPT !.at = "login", !.snap = emp[Owner[b]]]]
    /\ UNCHANGED <<emp, cache, cookie, excused>>

LoginDone(b) ==
    /\ job[b].at = "login"
    /\ cookie' = [cookie EXCEPT ![b] = job[b].snap.version]
    /\ Finish(b)
    /\ UNCHANGED <<emp, cache, excused>>

Logout(b) ==
    /\ job[b].at = "idle" /\ cookie[b] # None
    /\ cookie' = [cookie EXCEPT ![b] = None]
    /\ UNCHANGED <<emp, cache, job, excused>>

(* change_pin_submit asks for the current PIN unless a change is due.      *)
ChangePinBegin(b) ==
    /\ Runs(b)
    /\ \/ job[b].snap.must
       \/ emp[Owner[b]].active
    /\ job' = [job EXCEPT ![b] = Then(b, "write", Owner[b])]
    /\ UNCHANGED <<emp, cache, cookie, excused>>

ChangeOwnPinKeepsSnapshot(b) ==
    /\ job[b].at = "write"
    /\ Change(b, job[b].proc, Owner[b], [emp[Owner[b]] EXCEPT !.must = FALSE], Idle)

ChangeOwnPin(b) ==
    /\ job[b].at = "write"
    /\ Change(b, job[b].proc, Owner[b], [emp[Owner[b]] EXCEPT !.must = FALSE], Then(b, "clear", Owner[b]))

(* logout_everywhere.                                                      *)
BumpSessionVersion(b) ==
    /\ Runs(b) /\ "profile" \in Pages(job[b].snap)
    /\ emp[Owner[b]].version < MaxVersion[Owner[b]]
    /\ Change(b, job[b].proc, Owner[b], [emp[Owner[b]] EXCEPT !.version = @ + 1], 
              Then(b, "leave", Owner[b]))

Reset(row) == [row EXCEPT !.must = TRUE, !.version = @ + 1]

(* reset_pin_action; the transaction of approve_request writes the same.   *)
ResetPin(b, e) ==
    /\ AsAdmin(b) /\ emp[e] # None
    /\ emp[e].version < MaxVersion[e]
    /\ Change(b, job[b].proc, e, Reset(emp[e]), Then(b, "clear", e))

MayUpdate(b, e, role) == e # Owner[b] \/ role = "admin"

UpdateEmployee(b, e, role) ==
    /\ AsAdmin(b) /\ emp[e] # None
    /\ MayUpdate(b, e, role)
    /\ Change(b, job[b].proc, e, [emp[e] EXCEPT !.role = role], Then(b, "clear", e))

CreateEmployee(b, e, role) ==
    /\ AsAdmin(b) /\ emp[e] = None
    /\ Change(b, job[b].proc, e, NewRow(role), Idle)

(* toggle_active_action: look, count the admins, write.                    *)
ToggleBegin(b, e) ==
    /\ AsAdmin(b) /\ emp[e] # None /\ e # Owner[b]
    /\ job' = [job EXCEPT
          ![b] = [Then(b, IF ~emp[e].active THEN "activate"
                          ELSE IF emp[e].role = "admin" THEN "count"
                          ELSE "deactivate", e) EXCEPT !.alone = TRUE]]
    /\ UNCHANGED <<emp, cache, cookie, excused>>

OneAdminIsEnough == Cardinality(ActiveAdmins(emp)) >= 1

EnoughAdmins == Cardinality(ActiveAdmins(emp)) > 1

ToggleCount(b) ==
    /\ job[b].at = "count"
    /\ job' = [job EXCEPT ![b] = IF EnoughAdmins THEN [@ EXCEPT !.at = "deactivate"] ELSE Idle]
    /\ UNCHANGED <<emp, cache, cookie, excused>>

ToggleKeepsSnapshot(b) ==
    /\ job[b].at \in {"deactivate", "activate"}
    /\ Change(b, job[b].proc, job[b].target,
              [emp[job[b].target] EXCEPT !.active = (job[b].at = "activate")], Idle)

ToggleWrite(b) ==
    /\ job[b].at \in {"deactivate", "activate"}
    /\ Change(b, job[b].proc, job[b].target,
              [emp[job[b].target] EXCEPT !.active = (job[b].at = "activate")],
              Then(b, "clear", job[b].target))

(* The last statement of every change; logout_everywhere then ends.        *)
Clear(b) ==
    /\ job[b].at \in {"clear", "leave"}
    /\ Forget(job[b].proc, job[b].target)
    /\ cookie' = [cookie EXCEPT ![b] = IF job[b].at = "leave" THEN None ELSE @]
    /\ Finish(b)
    /\ UNCHANGED emp

-----------------------------------------------------------------------------
(* dtr-reset-admin writes to the database while the server runs.           *)
ResetAdmin ==
    /\ emp[Admin].version < MaxVersion[Admin]
    /\ Change(None, None, Admin, [Reset(emp[Admin]) EXCEPT !.active = TRUE, !.role = "admin"], Idle)

(* The browser goes away and the handler is dropped where it stands.       *)
Abort(b) ==
    /\ job[b].at # "idle"
    /\ Finish(b)
    /\ excused' = IF job[b].at \in {"clear", "leave"}
                  THEN [excused EXCEPT ![job[b].proc] = @ \cup {job[b].target}] ELSE excused
    /\ UNCHANGED <<emp, cache, cookie>>

(* A process stops and starts: its cache and its requests are gone, the    *)
(* sessions are in the database.                                           *)
Restart(p) ==
    /\ cache' = [cache EXCEPT ![p] = [e \in People |-> None]]
    /\ job' = [b \in Browsers |-> IF job[b].proc = p THEN Idle ELSE job[b]]
    /\ excused' = [excused EXCEPT ![p] = {}]
    /\ UNCHANGED <<emp, cookie>>

Next ==
    \/ \E b \in Browsers :
          \/ \E p \in Route[b] : Begin(b, p)
          \/ Read(b) \/ Put(b) \/ Drop(b) \/ Again(b) \/ Serve(b)
          \/ LoginRead(b) \/ LoginDone(b) \/ Logout(b)
          \/ ChangePinBegin(b) \/ ChangeOwnPin(b) \/ BumpSessionVersion(b)
          \/ \E e \in People :
                \/ ResetPin(b, e) \/ ToggleBegin(b, e)
                \/ \E role \in Given : UpdateEmployee(b, e, role) \/ CreateEmployee(b, e, role)
          \/ ToggleCount(b) \/ ToggleWrite(b) \/ Clear(b) \/ Abort(b)
    \/ ResetAdmin
    \/ \E p \in Processes : Restart(p)

Spec == Init /\ [][Next]_vars

-----------------------------------------------------------------------------
(* A snapshot that differs from its row was overtaken by a change of       *)
(* another process or of the console, by a change during the fetch, or by  *)
(* a change whose handler was dropped before it emptied the cache; or its  *)
(* removal is under way (employees.rs:32, 221, 240, 261, 277, 295).        *)
StaleExplained ==
    \A p \in Processes, e \in People :
        cache[p][e] \notin {None, emp[e]} => e \in excused[p] \/ Clearing(p, e)

(* A session that ended before its request began (reset PIN, sign-out      *)
(* everywhere, deactivation) is not let in, unless the snapshot of the     *)
(* process has one of these excuses (session.rs:48-92).                    *)
OldSessionsEnd ==
    [][\A b \in Browsers :
          Runs(b)' /\ ~Runs(b) => job'[b].standing # "bad"]_vars

(* No one is signed out by a cache: a session that was good when its       *)
(* request began and whose employee did not change meanwhile is let in,    *)
(* even over an old snapshot, unless that says inactive or an old row is   *)
(* being fetched (session.rs:59-71: distrust it once, then read the row).  *)
ValidSessionsServed ==
    [][\A b \in Browsers : cookie[b] # None /\ cookie'[b] = None =>
          /\ \A p \in Route[b] : Begin(b, p) => Standing(b, p) \notin {"good", "distrusted"}
          /\ job[b].at \in {"put", "again", "putAgain"}
                => job[b].standing \notin {"good", "distrusted"}]_vars

(* A request that runs reaches what its employee may reach now: a change   *)
(* of role or a due change of PIN made before it began counts at once, one *)
(* made since does not (employees.rs:221, session.rs:74-90).               *)
RunsWithPresentRole ==
    \A b \in Browsers :
        Runs(b) /\ job[b].standing = "good" => Pages(job[b].snap) = Pages(emp[Owner[b]])

(* The last active administrator goes only where the code cannot see it: a *)
(* deactivation after whose look another change of the administrators came *)
(* (handlers/admin/employees.rs:512), or a demotion by somebody who is no  *)
(* longer an active administrator himself (:321).                          *)
AdminsRemain ==
    [][ActiveAdmins(emp) # {} /\ ActiveAdmins(emp') = {} =>
          \E b \in Browsers :
             \/ job[b].at = "deactivate" /\ ~job[b].alone
             \/ Runs(b) /\ Owner[b] \notin ActiveAdmins(emp)]_vars
=============================================================================
