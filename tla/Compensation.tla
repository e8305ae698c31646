---------------------------- MODULE Compensation ----------------------------
(***************************************************************************)
(* The compensation of one employee: the current profile and the history   *)
(* of rates in services/compensation.rs, and the query of                  *)
(* services/payroll/runs.rs that tells whether a date has any.             *)
(*                                                                         *)
(* A payroll run of any age asks for the rate in force on its last day, so *)
(* what a change may do to the rates of earlier dates matters. The change  *)
(* reads the profile in one statement and writes it, with the row of the   *)
(* history it closes, in a transaction that begins later.                  *)
(***************************************************************************)
EXTENDS Integers, FiniteSets

CONSTANTS
    Rates,      \* a salary with its overtime rate and allowances
    Days,       \* dates, counted in days
    Sessions,   \* HTTP requests being served at the same time
    MaxRows,    \* no change begins that would add a row beyond this many
    NoProfile        \* no profile

Profile == [rate : Rates, from : Days]
Row == [rate : Rates, from : Days, to : Int]

ASSUME CompensationAssumption ==
    /\ Days \subseteq Int
    /\ MaxRows \in Nat
    /\ NoProfile \notin Profile

VARIABLES
    profile,   \* the compensation_profiles row of the employee
    history,   \* its compensation_history rows, without their ids
    job        \* job[s]: the form of session s and the profile it has read

profileVars == <<profile, history, job>>

Idle == [at |-> "idle"]
Job == {Idle} \cup
    [at : {"write"}, form : Profile, existing : Profile \cup {NoProfile}]

ProfileTypeOK ==
    /\ profile \in Profile \cup {NoProfile}
    /\ history \subseteq Row
    /\ \A h \in history : h.from <= h.to
    /\ job \in [Sessions -> Job]

ProfileInit ==
    /\ profile = NoProfile
    /\ history = {}
    /\ job = [s \in Sessions |-> Idle]

(***************************************************************************)
(* What is in force on a date.                                             *)
(***************************************************************************)
CurrentAt(d) == profile # NoProfile /\ profile.from <= d

RowsAt(d) == {h \in history : h.from <= d /\ d <= h.to}

LatestRows(d) == {h \in RowsAt(d) : \A g \in RowsAt(d) : g.from <= h.from}

\* The rates the lookup may return: of the rows that start last, any one.
get_compensation_as_of(d) ==
    IF CurrentAt(d) THEN {profile.rate} ELSE {h.rate : h \in LatestRows(d)}

\* Not listed by employees_missing_compensation: one NOT EXISTS fails.
HasCompensation(d) == CurrentAt(d) \/ RowsAt(d) # {}

(***************************************************************************)
(* upsert_profile.                                                         *)
(***************************************************************************)
ClosesOn(form) == form.from - 1

\* Mutant: a rate that was in force for one day is not kept.
ArchiveLonger(old, form) ==
    IF old # NoProfile /\ ClosesOn(form) > old.from
    THEN {[rate |-> old.rate, from |-> old.from, to |-> ClosesOn(form)]}
    ELSE {}

\* Mutant: the rate that is closed is the new one.
ArchiveNew(old, form) ==
    IF old # NoProfile /\ ClosesOn(form) >= old.from
    THEN {[rate |-> form.rate, from |-> old.from, to |-> ClosesOn(form)]}
    ELSE {}

\* The row that closes the old rate, unless the new one starts no later.
Archive(old, form) ==
    IF old # NoProfile /\ ClosesOn(form) >= old.from
    THEN {[rate |-> old.rate, from |-> old.from, to |-> ClosesOn(form)]}
    ELSE {}

UpsertBegin(s) ==
    /\ job[s] = Idle
    /\ \E form \in Profile :
       /\ \/ Cardinality(history) < MaxRows
          \/ Archive(profile, form) \subseteq history
       /\ job' = [job EXCEPT ![s] =
                  [at |-> "write", form |-> form, existing |-> profile]]
    /\ UNCHANGED <<profile, history>>

UpsertCommit(s) ==
    /\ job[s].at = "write"
    /\ history' = history \cup Archive(job[s].existing, job[s].form)
    /\ profile' = job[s].form
    /\ job' = [job EXCEPT ![s] = Idle]

ProfileNext == \E s \in Sessions : UpsertBegin(s) \/ UpsertCommit(s)

ProfileSpec == ProfileInit /\ [][ProfileNext]_profileVars

(***************************************************************************)
(* Properties.                                                             *)
(***************************************************************************)
\* The change that commits has read the profile it replaces.
CommitsFresh(s) == UpsertCommit(s) /\ job[s].existing = profile

\* A change never takes a date's compensation away, as long as nobody else
\* changed the profile since it was read (compensation.rs:186-210): a run of
\* any earlier period can still be recalculated.
CoverageKept ==
    [][\A s \in Sessions : CommitsFresh(s) =>
          \A d \in Days : HasCompensation(d) => HasCompensation(d)']_profileVars

\* The history ends before the current rate starts.
InOrder ==
    profile # NoProfile => \A h \in history : h.to < profile.from

\* A raise dated after the current rate, over a history in order, changes no
\* earlier date's rate and leaves the history in order, so that rates entered
\* in order are never lost.
RaisesKeepPast ==
    [][\A s \in Sessions :
          CommitsFresh(s) /\ InOrder /\ profile # NoProfile
              /\ profile.from < job[s].form.from =>
            /\ InOrder'
            /\ \A d \in Days : d < job[s].form.from =>
                  get_compensation_as_of(d)' = get_compensation_as_of(d)]_profileVars
=============================================================================
