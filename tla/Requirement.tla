----------------------------- MODULE Requirement ----------------------------
(***************************************************************************)
(* The checklist of employment documents: types, the row of every employee *)
(* and type, submissions with a file, reviews and expiry                   *)
(* (services/requirements.rs, services/uploads.rs, handlers/requirements). *)
(*                                                                         *)
(* The row is in the database, the file on disk, and a submission changes  *)
(* the two in four steps: it reads the row, removes the old file, stores   *)
(* the new one under a fresh name and updates the row if it still may.     *)
(* Reviews, other tabs, a change of the type and the clock come between.   *)
(* A file is named by the submission that stored it.                       *)
(***************************************************************************)
EXTENDS Team, Integers, FiniteSets

CONSTANTS
    Owners,       \* the people whose requirements are told
    Types,
    Submits,      \* the requests that submit; bounds their number
    Reviews,      \* the requests that review
    LastDay,      \* bounds the clock
    Validity,     \* the numbers of days after which a type may expire
    WarningDays,  \* EXPIRY_WARNING_DAYS
    Rosters

TypeRows == [active : BOOLEAN, upload : BOOLEAN, days : Validity \cup {None}]
Statuses == {"missing", "submitted", "approved", "rejected"}
Files == Submits
Items == Owners \X Types

(* sent, of a row, is history: the submission it holds.                    *)
Rows == [status : Statuses, expires : Nat \cup {None}, file : Files \cup {None},
         sent : Submits \cup {None}]

ASSUME RequirementAssumption ==
    /\ Owners \subseteq People /\ Submits \cap Reviews = {}
    /\ LastDay \in Nat /\ WarningDays \in Nat /\ Validity \subseteq Nat \ {0}
    /\ Rosters \subseteq AllRosters /\ \A t \in Rosters : NobodyManagesThemselves(t)
    /\ None \notin People \cup Types \cup Nat \cup Submits \cup TypeRows \cup Rows \cup Items

VARIABLES
    now,      \* the clock
    team,     \* the roster
    types,    \* requirement_types
    row,      \* row[e][t] of employee_requirements, or None
    disk,     \* the stored files
    req       \* the requests

checklistVars == <<now, team, types, row, disk, req>>

Requests == Submits \cup Reviews

Missing == [status |-> "missing", expires |-> None, file |-> None, sent |-> None]

(* seen and since are history: the submission a reviewer had on his page,  *)
(* and whether the row was submitted or decided since the request saw it.  *)
New == [at |-> "new", of |-> None, by |-> None, form |-> "note", old |-> None,
        days |-> None, seen |-> None, since |-> {}]
Over == [New EXCEPT !.at = "done"]

Jobs == [at : {"new", "exists", "remove", "store", "update", "look", "days", "decide", "done"},
         of : Items \cup {None}, by : People \cup {None},
         form : {"note", "file", "invalid", "approve", "reject"},
         old : Files \cup {None}, days : Validity \cup {None},
         seen : Submits \cup {None}, since : SUBSET {"submitted", "decided"}]

ChecklistTypeOK ==
    /\ now \in 0 .. LastDay /\ team \in Rosters
    /\ types \in [Types -> TypeRows \cup {None}]
    /\ row \in [Owners -> [Types -> Rows \cup {None}]]
    /\ disk \subseteq Files
    /\ req \in [Requests -> Jobs]
    /\ \A s \in Requests : req[s].at \notin {"new", "done"} => req[s].of # None

ChecklistInit ==
    /\ now = 0
    /\ team \in Rosters
    /\ types \in [Types -> {None} \cup [active : {TRUE}, upload : {TRUE}, days : Validity \cup {None}]]
    /\ row = [e \in Owners |-> [t \in Types |->
                 IF types[t] # None /\ team[e].active THEN Missing ELSE None]]
    /\ disk = {}
    /\ req = [s \in Requests |-> New]

(* is_requirement_expired, and the same comparison in the UPDATE.          *)
Expired(r) == r.expires # None /\ r.expires < now

(* can_submit_requirement.                                                 *)
CanSubmit(r) == r.status \in {"missing", "rejected"} \/ (r.status = "approved" /\ Expired(r))

At(i) == row[i[1]][i[2]]
Stop(s) == req' = [req EXCEPT ![s] = Over]
Goto(s, at) == req' = [req EXCEPT ![s].at = at]

(* What a write of the row of i is to the other requests on it.            *)
Tell(s, i, what) ==
    [r \in Requests |-> IF r = s THEN Over
                        ELSE IF req[r].of = i THEN [req[r] EXCEPT !.since = @ \cup {what}]
                        ELSE req[r]]

-----------------------------------------------------------------------------
(* Around the requirements: the clock, the roster, the types.              *)

Tick ==
    /\ now < LastDay
    /\ now' = now + 1
    /\ UNCHANGED <<team, types, row, disk, req>>

Reassign(t) ==
    /\ t # team
    /\ team' = t
    /\ UNCHANGED <<now, types, row, disk, req>>

CreateType(t, new) ==
    /\ types[t] = None /\ new.active
    /\ types' = [types EXCEPT ![t] = new]
    /\ UNCHANGED <<now, team, row, disk, req>>

UpdateType(t, new) ==
    /\ types[t] # None /\ types[t] # new
    /\ types' = [types EXCEPT ![t] = new]
    /\ UNCHANGED <<now, team, row, disk, req>>

(* seed_new_type_for_all_employees, a statement of its own after the type  *)
(* was created; the handler may be dropped in between.                     *)
SeedType(t) ==
    /\ types[t] # None
    /\ \E e \in Owners : team[e].active /\ row[e][t] = None
    /\ row' = [e \in Owners |-> [row[e] EXCEPT ![t] = IF @ = None /\ team[e].active THEN Missing ELSE @]]
    /\ UNCHANGED <<now, team, types, disk, req>>

(* list_for_employee: every page of an employee's requirements seeds them. *)
Page(e) ==
    /\ \E t \in Types : row[e][t] = None /\ types[t] # None /\ types[t].active
    /\ row' = [row EXCEPT ![e] = [t \in Types |->
                  IF @[t] = None /\ types[t] # None /\ types[t].active THEN Missing ELSE @[t]]]
    /\ UNCHANGED <<now, team, types, disk, req>>

-----------------------------------------------------------------------------
(* submit_requirement.                                                     *)

SubmitBeginAnyState(s, i, form) ==
    /\ req[s].at = "new" /\ team[i[1]].active /\ At(i) # None
    /\ types[i[2]].upload /\ form = "note" => At(i).file # None
    /\ req' = [req EXCEPT ![s] = [New EXCEPT
                  !.at = IF form = "note" THEN "update"
                         ELSE IF At(i).file = None THEN "store" ELSE "exists",
                  !.of = i, !.form = form, !.old = At(i).file]]
    /\ UNCHANGED <<now, team, types, row, disk>>

SubmitBegin(s, i, form) ==
    /\ req[s].at = "new" /\ team[i[1]].active /\ At(i) # None
    /\ CanSubmit(At(i))
    /\ types[i[2]].upload /\ form = "note" => At(i).file # None
    /\ req' = [req EXCEPT ![s] = [New EXCEPT
                  !.at = IF form = "note" THEN "update"
                         ELSE IF At(i).file = None THEN "store" ELSE "exists",
                  !.of = i, !.form = form, !.old = At(i).file]]
    /\ UNCHANGED <<now, team, types, row, disk>>

(* delete_stored_file looks before it removes; a file that goes away in    *)
(* between is an error.                                                    *)
SubmitExists(s) ==
    /\ req[s].at = "exists"
    /\ Goto(s, IF req[s].old \in disk THEN "remove" ELSE "store")
    /\ UNCHANGED <<now, team, types, row, disk>>

SubmitRemove(s) ==
    /\ req[s].at = "remove"
    /\ IF req[s].old \in disk THEN Goto(s, "store") ELSE Stop(s)
    /\ disk' = disk \ {req[s].old}
    /\ UNCHANGED <<now, team, types, row>>

(* validate_requirement_upload: size, name, type and content of the file.  *)
Accepted(form) == form = "file"

(* store_requirement_file looks at the content first.                      *)
SubmitStore(s) ==
    /\ req[s].at = "store"
    /\ IF Accepted(req[s].form)
       THEN Goto(s, "update") /\ disk' = disk \cup {s}
       ELSE Stop(s) /\ UNCHANGED disk
    /\ UNCHANGED <<now, team, types, row>>

SubmitUpdateAnyState(s) ==
    LET i == req[s].of IN
    /\ req[s].at = "update"
    /\ row' = [row EXCEPT ![i[1]][i[2]] =
                  [status |-> "submitted", expires |-> None, sent |-> s,
                   file |-> IF req[s].form = "file" THEN s ELSE @.file]]
    /\ req' = Tell(s, i, "submitted")
    /\ UNCHANGED <<now, team, types, disk>>

SubmitUpdate(s) ==
    LET i == req[s].of IN
    /\ req[s].at = "update"
    /\ IF CanSubmit(At(i))
       THEN /\ row' = [row EXCEPT ![i[1]][i[2]] =
                          [status |-> "submitted", expires |-> None, sent |-> s,
                           file |-> IF req[s].form = "file" THEN s ELSE @.file]]
            /\ req' = Tell(s, i, "submitted")
       ELSE Stop(s) /\ UNCHANGED row
    /\ UNCHANGED <<now, team, types, disk>>

-----------------------------------------------------------------------------
(* review_requirement.                                                     *)

(* What the page of a reviewer offers: an administrator has the page of    *)
(* any employee, a manager those of his own.                               *)
Reviewable(v, i) ==
    /\ team[v].active /\ ManagesTeam(team, v) /\ CanManage(team, v, i[1])
    /\ types[i[2]] # None /\ types[i[2]].active
    /\ At(i) # None /\ At(i).status = "submitted"

ReviewLook(s, v, i, form) ==
    /\ req[s].at = "new" /\ Reviewable(v, i)
    /\ req' = [req EXCEPT ![s] = [New EXCEPT !.at = "look", !.of = i, !.by = v, !.form = form,
                                             !.seen = At(i).sent]]
    /\ UNCHANGED <<now, team, types, row, disk>>

(* The request: who may manage the employee is asked again.                *)
ReviewBegin(s) ==
    /\ req[s].at = "look"
    /\ team[req[s].by].active /\ ManagesTeam(team, req[s].by) /\ CanManage(team, req[s].by, req[s].of[1])
    /\ Goto(s, IF req[s].form = "approve" THEN "days" ELSE "decide")
    /\ UNCHANGED <<now, team, types, row, disk>>

ReviewDays(s) ==
    LET i == req[s].of IN
    /\ req[s].at = "days"
    /\ IF At(i).status = "submitted"
       THEN req' = [req EXCEPT ![s].at = "decide", ![s].days = types[i[2]].days]
       ELSE Stop(s)
    /\ UNCHANGED <<now, team, types, row, disk>>

ReviewWrite(s) ==
    LET i == req[s].of IN
    /\ req[s].at = "decide"
    /\ IF At(i).status = "submitted"
       THEN /\ row' = [row EXCEPT
                ![i[1]][i[2]].status = IF req[s].form = "approve" THEN "approved" ELSE "rejected",
                ![i[1]][i[2]].expires = IF req[s].days = None THEN None ELSE now + req[s].days]
            /\ req' = Tell(s, i, "decided")
       ELSE Stop(s) /\ UNCHANGED row
    /\ UNCHANGED <<now, team, types, disk>>

(* The browser goes away and the handler is dropped where it stands; what  *)
(* the file system was asked for may be done all the same.                 *)
Abort(s) ==
    /\ req[s].at \notin {"new", "done"}
    /\ Stop(s)
    /\ \/ UNCHANGED disk
       \/ req[s].at = "remove" /\ disk' = disk \ {req[s].old}
       \/ req[s].at = "store" /\ Accepted(req[s].form) /\ disk' = disk \cup {s}
    /\ UNCHANGED <<now, team, types, row>>

-----------------------------------------------------------------------------
(* The pages.                                                              *)

Pending == {i \in Items : At(i) # None /\ At(i).status = "submitted"}

(* list_pending_for_manager, and the count of the notification.            *)
Queue(v) == {i \in Pending : IsAdmin(team, v) \/ team[i[1]].manager = v}

(* The rows of an employee's own page.                                     *)
Shown(e) == {i \in Items : i[1] = e /\ At(i) # None /\ types[i[2]] # None /\ types[i[2]].active}

(* The progress the list of employees shows: met, of Shown(e).             *)
MetEver(e) == {i \in Shown(e) : At(i).status = "approved"}
Met(e) == {i \in Shown(e) : At(i).status = "approved" /\ (At(i).expires = None \/ At(i).expires > now)}

(* The notifications of the employee.                                      *)
Warned(e) == {i \in Items : i[1] = e /\ At(i) # None /\ At(i).status = "approved"
                               /\ At(i).expires # None /\ At(i).expires < now + WarningDays}

ChecklistNext ==
    \/ Tick
    \/ \E t \in Rosters : Reassign(t)
    \/ \E t \in Types : \/ \E new \in TypeRows : CreateType(t, new) \/ UpdateType(t, new)
                        \/ SeedType(t)
    \/ \E e \in Owners : Page(e)
    \/ \E s \in Submits :
          \/ \E i \in Items, form \in {"note", "file", "invalid"} : SubmitBegin(s, i, form)
          \/ SubmitExists(s) \/ SubmitRemove(s) \/ SubmitStore(s) \/ SubmitUpdate(s)
    \/ \E s \in Reviews :
          \/ \E v \in People, i \in Items, form \in {"approve", "reject"} : ReviewLook(s, v, i, form)
          \/ ReviewBegin(s) \/ ReviewDays(s) \/ ReviewWrite(s)
    \/ \E s \in Requests : Abort(s)

ChecklistSpec == ChecklistInit /\ [][ChecklistNext]_checklistVars

-----------------------------------------------------------------------------
(* A stored file goes away only by a submission that removes the file of   *)
(* its row, and then the row is open for submission, or was submitted      *)
(* after that request had read it; and a row gets a file only together     *)
(* with its submission, when the file is on disk                           *)
(* (requirements.rs:193-219, uploads.rs:269-281).                          *)
FilesKept ==
    [][/\ \A f \in disk \ disk' : \E s \in Submits :
             /\ req[s].at = "remove" /\ req[s].old = f
             /\ CanSubmit(At(req[s].of)) \/ "submitted" \in req[s].since
       /\ \A i \in Items : At(i)' # At(i) /\ At(i)' # Missing /\ At(i)'.file # At(i).file =>
             At(i)'.file \in disk /\ At(i)'.sent = At(i)'.file]_checklistVars

(* An approval stands until it expires, whatever is submitted or reviewed  *)
(* at the same time; and a decision is about the submission the reviewer   *)
(* had on his page, unless another review decided that one in between      *)
(* (requirements.rs:225-262, 291-338).                                     *)
DecisionsStand ==
    [][\A i \in Items : At(i) # None /\ At(i)' # At(i) =>
          /\ At(i).status = "approved" => Expired(At(i))
          /\ At(i)'.status \in {"approved", "rejected"} =>
                \E s \in Reviews : /\ req[s].at = "decide" /\ req[s].of = i
                                   /\ req[s].seen = At(i).sent \/ "decided" \in req[s].since]_checklistVars

(* A reviewer's queue has every row his pages offer, and beyond them only  *)
(* rows of inactive employees and retired types.  A row that is on an      *)
(* employee's page is met, under review or open for submission, except at  *)
(* the very moment of its expiry; and what a notification calls expired    *)
(* is open on that page unless its type is retired                         *)
(* (requirements.rs:363-424, onboarding.rs:129-137,                        *)
(* notifications.rs:178-257).                                              *)
ListsAgree ==
    /\ \A v \in People : team[v].active /\ ManagesTeam(team, v) =>
          /\ {i \in Items : Reviewable(v, i)} \subseteq Queue(v)
          /\ \A i \in Queue(v) : Reviewable(v, i) \/ ~team[i[1]].active \/ ~types[i[2]].active
    /\ \A e \in Owners : \A i \in Shown(e) :
          \/ i \in Met(e) /\ ~CanSubmit(At(i))
          \/ i \notin Met(e) /\ (i \in Pending \/ CanSubmit(At(i)) \/ At(i).expires = now)
    /\ \A e \in Owners : \A i \in Warned(e) :
          Expired(At(i)) => CanSubmit(At(i)) /\ (i \in Shown(e) \/ ~types[i[2]].active)
=============================================================================
