------------------------------ MODULE PinReset ------------------------------
(***************************************************************************)
(* Requests for a new PIN and their reviews (services/pin_reset.rs): an    *)
(* employee asks, from the login page or the profile, cancels, and a       *)
(* manager or an administrator approves with a temporary PIN or denies.    *)
(*                                                                         *)
(* A review loads the pending request, checks who manages the employee,    *)
(* hashes the PIN and writes by the request's id without a look at the     *)
(* status again.  What a reset does to sessions is in Access.              *)
(***************************************************************************)
EXTENDS Team, Naturals

CONSTANTS
    Askers,     \* the employees who ask
    Asks,       \* the POSTs of requests; bounds their number
    Reviews,    \* the POSTs of reviews; bounds their number
    Reviewers,
    Rosters     \* the rosters the administrators give the company

ASSUME PinResetAssumption ==
    /\ Askers \cup Reviewers \subseteq People /\ None \notin People \cup Asks
    /\ Rosters \subseteq AllRosters /\ \A t \in Rosters : NobodyManagesThemselves(t)

VARIABLES
    team,     \* the roster
    ask,      \* the POSTs of requests and the rows they insert
    review,   \* the POSTs of reviews
    resets    \* history: the reviews that reset the PIN, of every request

pinVars == <<team, ask, review, resets>>

RequestStates == {"pending", "approved", "denied", "cancelled"}
Verdicts == {"approved", "denied"}

NotAsked == [at |-> "new", who |-> None]

(* since is history: what came after the review had loaded the request.    *)
NoReview == [at |-> "new", of |-> None, by |-> None, admin |-> FALSE,
             verdict |-> "denied", since |-> {}]

PinTypeOK ==
    /\ team \in Rosters
    /\ ask \in [Asks -> [at : {"new", "insert", "refused"} \cup RequestStates, who : Askers \cup {None}]]
    /\ review \in [Reviews -> [at : {"new", "manage", "write", "refused", "written"},
                               of : Asks \cup {None}, by : Reviewers \cup {None},
                               admin : BOOLEAN, verdict : Verdicts,
                               since : SUBSET (Verdicts \cup {"cancelled"})]]
    /\ resets \in [Asks -> SUBSET Reviews]

PinInit ==
    /\ team \in Rosters
    /\ ask = [a \in Asks |-> NotAsked]
    /\ review = [r \in Reviews |-> NoReview]
    /\ resets = [a \in Asks |-> {}]

PendingOf(e) == {a \in Asks : ask[a] = [at |-> "pending", who |-> e]}

Tell(a, what) ==
    [r \in Reviews |-> IF review[r].of = a /\ review[r].at \in {"manage", "write"}
                       THEN [review[r] EXCEPT !.since = @ \cup {what}] ELSE review[r]]

(* update_employee and set_employee_active.                                *)
Reassign(t) ==
    /\ t # team
    /\ team' = t
    /\ UNCHANGED <<ask, review, resets>>

(* request_pin_reset and pin_reset_request_submit, up to the look for a    *)
(* pending request; both serve active employees only.                      *)
AskBegin(a, e) ==
    /\ ask[a].at = "new" /\ team[e].active
    /\ PendingOf(e) = {}
    /\ ask' = [ask EXCEPT ![a] = [at |-> "insert", who |-> e]]
    /\ UNCHANGED <<team, review, resets>>

(* The unique index lets one pending request of an employee in.            *)
AskInsert(a) ==
    /\ ask[a].at = "insert"
    /\ ask' = [ask EXCEPT ![a].at = IF PendingOf(ask[a].who) = {} THEN "pending" ELSE "refused"]
    /\ UNCHANGED <<team, review, resets>>

Cancel(a) ==
    /\ ask[a].at = "pending"
    /\ ask' = [ask EXCEPT ![a].at = "cancelled"]
    /\ review' = Tell(a, "cancelled")
    /\ UNCHANGED <<team, resets>>

ReviewLoadAny(r, a, v, verdict) ==
    /\ review[r].at = "new" /\ ManagesTeam(team, v) /\ team[v].active
    /\ ask[a].at \in RequestStates
    /\ review' = [review EXCEPT ![r] = [NoReview EXCEPT !.at = "manage", !.of = a, !.by = v,
                                     !.admin = IsAdmin(team, v), !.verdict = verdict]]
    /\ UNCHANGED <<team, ask, resets>>

(* The route asks for the role; load_pending_request for the status.       *)
ReviewLoad(r, a, v, verdict) ==
    /\ review[r].at = "new" /\ ManagesTeam(team, v) /\ team[v].active
    /\ ask[a].at = "pending"
    /\ review' = [review EXCEPT ![r] = [NoReview EXCEPT !.at = "manage", !.of = a, !.by = v,
                                     !.admin = IsAdmin(team, v), !.verdict = verdict]]
    /\ UNCHANGED <<team, ask, resets>>

(* is_admin is what the request came in with.                              *)
ReviewManage(r) ==
    /\ review[r].at = "manage"
    /\ LET allowed == review[r].admin \/ CanManage(team, review[r].by, ask[review[r].of].who) IN
       review' = [review EXCEPT ![r].at = IF allowed THEN "write" ELSE "refused"]
    /\ UNCHANGED <<team, ask, resets>>

ApproveWrite(r) ==
    /\ review[r].at = "write" /\ review[r].verdict = "approved"
    /\ ask' = [ask EXCEPT ![review[r].of].at = "approved"]
    /\ resets' = [resets EXCEPT ![review[r].of] = @ \cup {r}]
    /\ review' = [Tell(review[r].of, "approved") EXCEPT ![r] = [review[r] EXCEPT !.at = "written"]]
    /\ UNCHANGED team

DenyWrite(r) ==
    /\ review[r].at = "write" /\ review[r].verdict = "denied"
    /\ ask' = [ask EXCEPT ![review[r].of].at = "denied"]
    /\ review' = [Tell(review[r].of, "denied") EXCEPT ![r] = [review[r] EXCEPT !.at = "written"]]
    /\ UNCHANGED <<team, resets>>

(* A request is dropped with its connection, or the process stops.         *)
PinAbort ==
    \/ \E a \in Asks : /\ ask[a].at = "insert"
                       /\ ask' = [ask EXCEPT ![a] = [NotAsked EXCEPT !.at = "refused"]]
                       /\ UNCHANGED <<team, review, resets>>
    \/ \E r \in Reviews : /\ review[r].at \in {"manage", "write"}
                          /\ review' = [review EXCEPT ![r].at = "refused"]
                          /\ UNCHANGED <<team, ask, resets>>

PinNext ==
    \/ \E t \in Rosters : Reassign(t)
    \/ \E a \in Asks : \/ \E e \in Askers : AskBegin(a, e)
                       \/ AskInsert(a)
                       \/ Cancel(a)
    \/ \E r \in Reviews :
        \/ \E a \in Asks, v \in Reviewers, verdict \in Verdicts : ReviewLoad(r, a, v, verdict)
        \/ ReviewManage(r) \/ ApproveWrite(r) \/ DenyWrite(r)
    \/ PinAbort

PinSpec == PinInit /\ [][PinNext]_pinVars

-----------------------------------------------------------------------------
(* The list and the count of pending requests, pages and badge.            *)
Queue(t, v) ==
    {a \in Asks : ask[a].at = "pending" /\ (IsAdmin(t, v) \/ t[ask[a].who].manager = v)}

OnePending == \A e \in Askers : \A a, b \in PendingOf(e) : a = b

(* A decision landed on the request while this review was between its load *)
(* and its write.                                                          *)
Contested(a) == \E r \in Reviews : /\ review[r].of = a /\ review[r].at = "written"
                                   /\ review[r].since \cap {"approved", "denied", "cancelled"} # {}

(* create_request, approve_request, deny_request, cancel_own_request: an   *)
(* employee has at most one pending request; an approved request has reset *)
(* the PIN, a pending or cancelled one has not; unless another decision    *)
(* came between the load and the write of a review, it was reset once and  *)
(* not for a denied request; and every pending request is in the queue of  *)
(* whoever may decide it.                                                  *)
ResetsAccounted ==
    /\ OnePending
    /\ \A a \in Asks :
        /\ ask[a].at \in {"new", "insert", "refused", "pending"} => resets[a] = {}
        /\ ask[a].at = "cancelled" => resets[a] = {}
        /\ ask[a].at = "approved" => resets[a] # {}
        /\ ~Contested(a) => \A r, q \in resets[a] : r = q
        /\ ~Contested(a) /\ resets[a] # {} => ask[a].at = "approved"
    /\ \A v \in Reviewers : ManagesTeam(team, v) =>
        {a \in Asks : ask[a].at = "pending" /\ CanManage(team, v, ask[a].who)} \subseteq Queue(team, v)
=============================================================================
