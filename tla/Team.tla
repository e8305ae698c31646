-------------------------------- MODULE Team --------------------------------
(***************************************************************************)
(* Who may act for whom, and who is listed to whom: the scopes that the    *)
(* queries of the manager's and the team's pages write out, each in SQL of *)
(* its own (services/team.rs, services/eod/team.rs).  A roster t gives the *)
(* role, the activity and the manager of everybody.                        *)
(***************************************************************************)
CONSTANTS People, None

Roles == {"employee", "manager", "admin"}
AllRosters == [People -> [role : Roles, active : BOOLEAN, manager : People \cup {None}]]

IsAdmin(t, v) == t[v].role = "admin"
ManagesTeam(t, v) == t[v].role \in {"manager", "admin"}

(* assert_can_manage: asked before a manager acts for an employee.         *)
CanManage(t, m, e) == IsAdmin(t, m) \/ (t[e].active /\ t[e].manager = m)

(* The employees a manager's pages list and count.                         *)
Manageable(t, m) ==
    {e \in People : /\ t[e].active
                    /\ IF IsAdmin(t, m) THEN t[e].role = "employee" ELSE t[e].manager = m}

(* Whose submitted reports the team feed of v shows.                       *)
FeedOfAnyone(t, v) == {e \in People \ {v} : t[e].active}

Feed(t, v) ==
    LET team == IF ManagesTeam(t, v) THEN v ELSE IF t[v].active THEN t[v].manager ELSE None IN
    {e \in People \ {v} :
        /\ t[e].active
        /\ IF IsAdmin(t, v) THEN t[e].role = "employee"
                            ELSE team # None /\ t[e].manager = team}

(* can_view_team_eod_report: whose report v may open.                      *)
CanView(t, v, e) ==
    \/ v = e
    \/ IsAdmin(t, v)
    \/ /\ t[e].active /\ t[v].active
       /\ IF ManagesTeam(t, v) THEN t[e].manager = v
          ELSE t[e].manager # None /\ t[e].manager = t[v].manager /\ t[e].manager # v

(* The form that sets a manager does not offer the employee himself.       *)
NobodyManagesThemselves(t) == \A e \in People : t[e].manager # e
=============================================================================
