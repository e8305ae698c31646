------------------------- MODULE CompensationProofs -------------------------
(***************************************************************************)
(* Proofs about Compensation, for any dates, rates and number of sessions. *)
(* Both action properties speak of a commit whose session read the profile *)
(* it replaces. Such a commit adds the one row the old rate leaves, from   *)
(* the date it started to the day before the new one starts, and that row  *)
(* with the new profile covers what the old profile covered. The dates of  *)
(* the form and of the profile, which the arithmetic needs, come from      *)
(* ProfileTypeOK. Then the default deductions of an employee, which are    *)
(* always those of one save, and the documents of the employees            *)
(* (Requirement): files, decisions, lists.                                 *)
(***************************************************************************)
EXTENDS Compensation, DeductionDefaults, Requirement, WellFoundedInduction, TLAPS

LEMMA TypeInit == ProfileInit => ProfileTypeOK
  BY DEF ProfileInit, ProfileTypeOK, Job

\* The archived row is well formed.
LEMMA ArchiveType ==
    ASSUME NEW old \in Profile \cup {NoProfile}, NEW form \in Profile
    PROVE  /\ Archive(old, form) \subseteq Row
           /\ \A h \in Archive(old, form) : h.from <= h.to
  <1> USE CompensationAssumption
  <1>1. CASE old # NoProfile /\ form.from - 1 >= old.from
    <2>1. old.rate \in Rates /\ old.from \in Days /\ form.from \in Days
      BY <1>1 DEF Profile
    <2>2. form.from \in Int /\ old.from \in Int
      BY <2>1
    <2>3. Archive(old, form) =
            {[rate |-> old.rate, from |-> old.from, to |-> form.from - 1]}
      BY <1>1 DEF Archive, ClosesOn
    <2> QED BY <1>1, <2>1, <2>2, <2>3 DEF Row
  <1>2. CASE ~(old # NoProfile /\ form.from - 1 >= old.from)
    BY <1>2 DEF Archive, ClosesOn
  <1> QED BY <1>1, <1>2

LEMMA TypeStep == ProfileTypeOK /\ [ProfileNext]_profileVars => ProfileTypeOK'
  <1> SUFFICES ASSUME ProfileTypeOK, [ProfileNext]_profileVars PROVE ProfileTypeOK'
    OBVIOUS
  <1> USE DEF ProfileTypeOK
  <1>1. ASSUME NEW s \in Sessions, UpsertBegin(s) PROVE ProfileTypeOK'
    <2>1. PICK form \in Profile :
             job' = [job EXCEPT ![s] =
                       [at |-> "write", form |-> form, existing |-> profile]]
      BY <1>1 DEF UpsertBegin
    <2>2. [at |-> "write", form |-> form, existing |-> profile] \in Job
      BY DEF Job
    <2> QED BY <1>1, <2>1, <2>2 DEF UpsertBegin
  <1>2. ASSUME NEW s \in Sessions, UpsertCommit(s) PROVE ProfileTypeOK'
    <2>1. job[s].form \in Profile /\ job[s].existing \in Profile \cup {NoProfile}
      BY <1>2 DEF UpsertCommit, Job, Idle
    <2>2. Idle \in Job
      BY DEF Job
    <2> QED BY <1>2, <2>1, <2>2, ArchiveType DEF UpsertCommit
  <1>3. CASE UNCHANGED profileVars
    BY <1>3 DEF profileVars
  <1> QED BY <1>1, <1>2, <1>3 DEF ProfileNext

\* Every row of the history is well formed, with a start no later than its end.
THEOREM CompensationTypes == ProfileSpec => []ProfileTypeOK
  BY TypeInit, TypeStep, PTL DEF ProfileSpec

\* What a fresh commit does, in terms of the profile it replaces.
LEMMA FreshCommit ==
    ASSUME ProfileTypeOK, NEW s \in Sessions, CommitsFresh(s)
    PROVE  /\ job[s].form \in Profile
           /\ profile' = job[s].form
           /\ history' = history \cup Archive(profile, job[s].form)
  BY DEF CommitsFresh, UpsertCommit, ProfileTypeOK, Job, Idle

LEMMA CoverageStep ==
    ASSUME ProfileTypeOK, NEW s \in Sessions, CommitsFresh(s),
           NEW d \in Days, HasCompensation(d)
    PROVE  HasCompensation(d)'
  <1> DEFINE form == job[s].form
  <1>1. /\ form \in Profile
        /\ profile' = form
        /\ history' = history \cup Archive(profile, form)
    BY FreshCommit
  <1>2. form.from \in Int /\ form # NoProfile /\ d \in Int
    BY <1>1, CompensationAssumption DEF Profile
  <1>3. CASE RowsAt(d) # {}
    BY <1>1, <1>3 DEF HasCompensation, RowsAt
  <1>4. CASE CurrentAt(d) /\ form.from <= d
    BY <1>1, <1>2, <1>4 DEF HasCompensation, CurrentAt
  <1>5. CASE CurrentAt(d) /\ ~(form.from <= d)
    <2> DEFINE entry == [rate |-> profile.rate, from |-> profile.from,
                       to |-> form.from - 1]
    <2>1. profile \in Profile /\ profile.from \in Int /\ profile.from <= d
      BY <1>5, CompensationAssumption DEF CurrentAt, ProfileTypeOK, Profile
    <2>2. entry \in Archive(profile, form)
      BY <1>2, <1>5, <2>1 DEF Archive, ClosesOn, CurrentAt
    <2>3. entry.from <= d /\ d <= entry.to
      BY <1>2, <1>5, <2>1
    <2> QED BY <1>1, <2>2, <2>3 DEF HasCompensation, RowsAt
  <1> QED BY <1>3, <1>4, <1>5 DEF HasCompensation

\* A change never takes a date's compensation away.
THEOREM NoCoverageLost == ProfileSpec => CoverageKept
  <1>1. ProfileTypeOK /\ [ProfileNext]_profileVars =>
          [\A s \in Sessions : CommitsFresh(s) =>
              \A d \in Days : HasCompensation(d) => HasCompensation(d)']_profileVars
    BY CoverageStep
  <1> QED BY <1>1, CompensationTypes, PTL DEF ProfileSpec, CoverageKept

LEMMA RaiseStep ==
    ASSUME ProfileTypeOK, NEW s \in Sessions, CommitsFresh(s), InOrder,
           profile # NoProfile, profile.from < job[s].form.from
    PROVE  /\ InOrder'
           /\ \A d \in Days : d < job[s].form.from =>
                 get_compensation_as_of(d)' = get_compensation_as_of(d)
  <1> DEFINE form == job[s].form
             entry == [rate |-> profile.rate, from |-> profile.from,
                     to |-> form.from - 1]
  <1>1. /\ form \in Profile
        /\ profile' = form
        /\ history' = history \cup Archive(profile, form)
    BY FreshCommit
  <1>2. /\ profile \in Profile
        /\ form.from \in Int /\ profile.from \in Int /\ form # NoProfile
    BY <1>1, CompensationAssumption DEF ProfileTypeOK, Profile
  <1>3. history' = history \cup {entry}
    BY <1>1, <1>2 DEF Archive, ClosesOn
  <1>4. \A h \in history : /\ h.from \in Int /\ h.to \in Int
                           /\ h.to < profile.from
    BY CompensationAssumption DEF ProfileTypeOK, Row, InOrder
  <1>5. InOrder'
    BY <1>1, <1>2, <1>3, <1>4 DEF InOrder
  <1>6. ASSUME NEW d \in Days, d < form.from
        PROVE  get_compensation_as_of(d)' = get_compensation_as_of(d)
    <2>1. d \in Int
      BY CompensationAssumption
    <2>2. ~CurrentAt(d)'
      BY <1>1, <1>2, <1>6, <2>1 DEF CurrentAt
    <2>3. CASE profile.from <= d
      <3>1. RowsAt(d)' = {entry}
        BY <1>2, <1>3, <1>4, <1>6, <2>1, <2>3 DEF RowsAt
      <3>2. LatestRows(d)' = {entry}
        BY <1>2, <3>1 DEF LatestRows
      <3>3. CurrentAt(d)
        BY <2>3 DEF CurrentAt
      <3> QED BY <2>2, <3>2, <3>3 DEF get_compensation_as_of
    <2>4. CASE ~(profile.from <= d)
      <3>1. RowsAt(d)' = RowsAt(d)
        BY <1>2, <1>3, <2>4 DEF RowsAt
      <3>2. LatestRows(d)' = LatestRows(d)
        BY <3>1 DEF LatestRows
      <3>3. ~CurrentAt(d)
        BY <2>4 DEF CurrentAt
      <3> QED BY <2>2, <3>2, <3>3 DEF get_compensation_as_of
    <2> QED BY <2>3, <2>4
  <1> QED BY <1>5, <1>6

\* Rates entered in order are never lost.
THEOREM NoPastRateLost == ProfileSpec => RaisesKeepPast
  <1>1. ProfileTypeOK /\ [ProfileNext]_profileVars =>
          [\A s \in Sessions :
              CommitsFresh(s) /\ InOrder /\ profile # NoProfile
                  /\ profile.from < job[s].form.from =>
                /\ InOrder'
                /\ \A d \in Days : d < job[s].form.from =>
                      get_compensation_as_of(d)' = get_compensation_as_of(d)]_profileVars
    BY RaiseStep
  <1> QED BY <1>1, CompensationTypes, PTL DEF ProfileSpec, RaisesKeepPast

-----------------------------------------------------------------------------
\* DeductionDefaults. Saves under way together know each other. Each has
\* deleted what it saw, and nobody else has: what it did not see is of saves it
\* was under way with, and where it has inserted a type the committed rows have
\* none that it has not deleted.
DefaultInv ==
    /\ DefaultTypeOK
    /\ \A r \in defaults : save[r.by].at = "done"
    /\ \A q, r \in defaults : q.type = r.type => q = r
    /\ \A s \in latest :
        /\ save[s].at = "done"
        /\ {Amounts(t, s) : t \in save[s].form} \subseteq defaults
        /\ \A r \in defaults : r.by = s \/ <<r.by, s>> \in beside
    /\ \A s \in DefaultSaves : save[s].at \in Open =>
        /\ \A r \in save[s].saw : save[r.by].at = "done"
        /\ \A r \in defaults \ save[s].saw : <<r.by, s>> \in beside
        /\ \A r \in defaults : r.type \in save[s].wrote => r \in save[s].gone
        /\ save[s].gone \subseteq defaults
        /\ save[s].at = "delete" => save[s].gone = {} /\ save[s].wrote = {}
        /\ save[s].at = "insert" => save[s].saw \cap defaults \subseteq save[s].gone
        /\ save[s].wrote \subseteq save[s].form
    /\ \A s, q \in DefaultSaves : s # q /\ save[s].at \in Open /\ save[q].at \in Open =>
        /\ <<s, q>> \in beside
        /\ save[s].gone \cap save[q].gone = {}
        /\ save[s].wrote \cap save[q].wrote = {}

LEMMA LeastOf ==
    ASSUME NEW S \in SUBSET Nat, S # {}
    PROVE  \E t \in S : \A u \in S : t <= u
  <1>1. PICK t \in S : \A u \in S : ~(<<u, t>> \in OpToRel(<, Nat))
    BY NatLessThanWellFounded, WFMin
  <1>2. \A u \in S : ~(u < t)
    BY <1>1 DEF OpToRel
  <1> QED BY <1>2

SaveRows == [type : DeductionTypes, by : DefaultSaves]
SaveJobs == [at : {"new", "done"} \cup Open, form : SUBSET DeductionTypes, saw : SUBSET SaveRows,
             gone : SUBSET SaveRows, wrote : SUBSET DeductionTypes]

\* A save takes its next step, or ends without a trace.
LEMMA SaveMoves ==
    ASSUME DefaultInv, NEW s \in DefaultSaves, NEW entry \in SaveJobs, save' = [save EXCEPT ![s] = entry]
    PROVE  /\ save' \in [DefaultSaves -> SaveJobs]
           /\ save'[s] = entry /\ \A q \in DefaultSaves : q # s => save'[q] = save[q]
  BY DEF DefaultInv, DefaultTypeOK, SaveJobs, SaveRows

LEMMA SaveEnds ==
    ASSUME DefaultInv, NEW s \in DefaultSaves, save[s].at \in Open,
           save' = [save EXCEPT ![s] = [NotSaved EXCEPT !.at = "done"]],
           UNCHANGED <<defaults, latest, beside>>
    PROVE  DefaultInv'
  <1> DEFINE entry == [NotSaved EXCEPT !.at = "done"]
  <1>1. entry \in SaveJobs /\ entry.at = "done"
    BY DEF SaveJobs, NotSaved
  <1> HIDE DEF entry
  <1>2. /\ save' \in [DefaultSaves -> SaveJobs]
        /\ save'[s] = entry /\ \A q \in DefaultSaves : q # s => save'[q] = save[q]
    BY <1>1, SaveMoves DEF entry
  <1>3. DefaultTypeOK'
    BY <1>2 DEF DefaultInv, DefaultTypeOK, SaveJobs, SaveRows
  <1>4. s \notin latest
    BY DEF DefaultInv, Open
  <1>5. defaults \subseteq SaveRows /\ latest \subseteq DefaultSaves
    BY DEF DefaultInv, DefaultTypeOK, SaveRows
  <1>6. \A r \in defaults : save'[r.by].at = "done"
    BY <1>1, <1>2, <1>5 DEF DefaultInv, SaveRows
  <1>7. \A q \in latest :
          /\ save'[q].at = "done"
          /\ {Amounts(t, q) : t \in save'[q].form} \subseteq defaults
          /\ \A r \in defaults : r.by = q \/ <<r.by, q>> \in beside
    BY <1>2, <1>4, <1>5 DEF DefaultInv
  <1>8. "done" \notin Open
    BY DEF Open
  <1>9. \A q \in DefaultSaves : save'[q].at \in Open =>
          /\ q # s /\ save'[q] = save[q]
          /\ \A r \in save'[q].saw : save'[r.by].at = "done"
    BY <1>1, <1>2, <1>8 DEF DefaultInv, DefaultTypeOK
  <1> QED BY <1>3, <1>6, <1>7, <1>9 DEF DefaultInv

LEMMA SaveBegins ==
    ASSUME DefaultInv, NEW s \in DefaultSaves, NEW form \in SUBSET DeductionTypes, SaveBegin(s, form)
    PROVE  DefaultInv'
  <1> DEFINE entry == [NotSaved EXCEPT !.at = "delete", !.form = form, !.saw = defaults]
             met == UNION {{<<s, q>>, <<q, s>>} : q \in {q \in DefaultSaves : save[q].at \in Open}}
  <1>1. /\ save[s].at = "new" /\ save' = [save EXCEPT ![s] = entry]
        /\ beside' = beside \cup met /\ UNCHANGED <<defaults, latest>>
    BY DEF SaveBegin
  <1>2. defaults \subseteq SaveRows /\ latest \subseteq DefaultSaves /\ beside \subseteq DefaultSaves \X DefaultSaves
    BY DEF DefaultInv, DefaultTypeOK, SaveRows
  <1>3. /\ entry \in SaveJobs /\ entry.at = "delete" /\ entry.saw = defaults /\ entry.gone = {} /\ entry.wrote = {}
        /\ entry.form = form
    BY <1>2 DEF SaveJobs, NotSaved, Open
  <1>4. met \subseteq DefaultSaves \X DefaultSaves
        /\ \A q \in DefaultSaves : save[q].at \in Open => <<s, q>> \in met /\ <<q, s>> \in met
    OBVIOUS
  <1> HIDE DEF entry, met
  <1>5. /\ save' \in [DefaultSaves -> SaveJobs]
        /\ save'[s] = entry /\ \A q \in DefaultSaves : q # s => save'[q] = save[q]
    BY <1>1, <1>3, SaveMoves
  <1>6. DefaultTypeOK'
    BY <1>1, <1>2, <1>4, <1>5 DEF DefaultInv, DefaultTypeOK, SaveJobs, SaveRows
  <1>7. \A r \in SaveRows : save[r.by].at = "done" => save'[r.by].at = "done"
    BY <1>1, <1>5 DEF SaveRows
  <1>8. \A q \in latest : q # s
    BY <1>1 DEF DefaultInv
  <1>9. \A r \in defaults : save'[r.by].at = "done"
    BY <1>2, <1>7 DEF DefaultInv
  <1>10. \A q \in latest :
          /\ save'[q].at = "done"
          /\ {Amounts(t, q) : t \in save'[q].form} \subseteq defaults
          /\ \A r \in defaults : r.by = q \/ <<r.by, q>> \in beside'
    BY <1>1, <1>2, <1>5, <1>8 DEF DefaultInv
  <1>11. ASSUME NEW q \in DefaultSaves, save'[q].at \in Open
         PROVE  /\ \A r \in save'[q].saw : save'[r.by].at = "done"
                /\ \A r \in defaults \ save'[q].saw : <<r.by, q>> \in beside'
                /\ \A r \in defaults : r.type \in save'[q].wrote => r \in save'[q].gone
                /\ save'[q].gone \subseteq defaults
                /\ save'[q].at = "delete" => save'[q].gone = {} /\ save'[q].wrote = {}
                /\ save'[q].at = "insert" => save'[q].saw \cap defaults \subseteq save'[q].gone
                /\ save'[q].wrote \subseteq save'[q].form
    <2>1. CASE q = s
      BY <1>3, <1>5, <1>9, <2>1
    <2>2. CASE q # s
      <3>1. save[q].saw \subseteq SaveRows
        BY DEF DefaultInv, DefaultTypeOK, SaveRows
      <3> QED BY <1>1, <1>5, <1>7, <1>11, <2>2, <3>1 DEF DefaultInv
    <2> QED BY <2>1, <2>2
  <1>12. ASSUME NEW q \in DefaultSaves, NEW p \in DefaultSaves, p # q,
                save'[q].at \in Open, save'[p].at \in Open
         PROVE  /\ <<p, q>> \in beside'
                /\ save'[p].gone \cap save'[q].gone = {}
                /\ save'[p].wrote \cap save'[q].wrote = {}
    <2>1. CASE p = s
      BY <1>1, <1>3, <1>4, <1>5, <1>12, <2>1
    <2>2. CASE q = s
      BY <1>1, <1>3, <1>4, <1>5, <1>12, <2>2
    <2>3. CASE p # s /\ q # s
      BY <1>1, <1>5, <1>12, <2>3 DEF DefaultInv
    <2> QED BY <2>1, <2>2, <2>3
  <1> QED BY <1>1, <1>6, <1>9, <1>10, <1>11, <1>12 DEF DefaultInv

LEMMA SaveDeletes ==
    ASSUME DefaultInv, NEW s \in DefaultSaves, SaveDelete(s)
    PROVE  DefaultInv'
  <1> DEFINE entry == [save[s] EXCEPT !.at = "insert", !.gone = save[s].saw \cap defaults]
  <1>1. /\ save[s].at = "delete" /\ save' = [save EXCEPT ![s] = entry]
        /\ \A q \in DefaultSaves \ {s} : save[q].at \in Open => save[q].gone \cap save[s].saw = {}
        /\ UNCHANGED <<defaults, latest, beside>>
    BY DEF SaveDelete, DefaultInv, DefaultTypeOK
  <1>2. save[s] \in SaveJobs
    BY DEF DefaultInv, DefaultTypeOK, SaveJobs, SaveRows
  <1>3. /\ entry \in SaveJobs /\ entry.at = "insert" /\ entry.saw = save[s].saw /\ entry.form = save[s].form
        /\ entry.gone = save[s].saw \cap defaults /\ entry.wrote = save[s].wrote
    BY <1>2 DEF SaveJobs, Open
  <1> HIDE DEF entry
  <1>4. /\ save' \in [DefaultSaves -> SaveJobs]
        /\ save'[s] = entry /\ \A q \in DefaultSaves : q # s => save'[q] = save[q]
    BY <1>1, <1>3, SaveMoves
  <1>5. /\ defaults \subseteq SaveRows /\ latest \subseteq DefaultSaves
        /\ \A q \in DefaultSaves : save[q].saw \subseteq SaveRows
    BY DEF DefaultInv, DefaultTypeOK, SaveRows
  <1>6. DefaultTypeOK'
    BY <1>1, <1>4 DEF DefaultInv, DefaultTypeOK, SaveJobs, SaveRows
  <1>7. \A r \in SaveRows : save[r.by].at = "done" => save'[r.by].at = "done"
    BY <1>1, <1>4 DEF SaveRows
  <1>8. \A r \in defaults : save'[r.by].at = "done"
    BY <1>5, <1>7 DEF DefaultInv
  <1>9. \A q \in latest :
          /\ save'[q].at = "done"
          /\ {Amounts(t, q) : t \in save'[q].form} \subseteq defaults
          /\ \A r \in defaults : r.by = q \/ <<r.by, q>> \in beside
    BY <1>1, <1>4, <1>5 DEF DefaultInv
  <1>10. save[s].at \in Open /\ save[s].gone = {} /\ save[s].wrote = {}
    BY <1>1 DEF DefaultInv, Open
  <1>11. ASSUME NEW q \in DefaultSaves, save'[q].at \in Open
         PROVE  /\ \A r \in save'[q].saw : save'[r.by].at = "done"
                /\ \A r \in defaults \ save'[q].saw : <<r.by, q>> \in beside
                /\ \A r \in defaults : r.type \in save'[q].wrote => r \in save'[q].gone
                /\ save'[q].gone \subseteq defaults
                /\ save'[q].at = "delete" => save'[q].gone = {} /\ save'[q].wrote = {}
                /\ save'[q].at = "insert" => save'[q].saw \cap defaults \subseteq save'[q].gone
                /\ save'[q].wrote \subseteq save'[q].form
    <2>1. CASE q = s
      <3>1. /\ \A r \in save[s].saw : save[r.by].at = "done"
            /\ \A r \in defaults \ save[s].saw : <<r.by, s>> \in beside
        BY <1>10 DEF DefaultInv
      <3> QED BY <1>3, <1>4, <1>5, <1>7, <1>10, <2>1, <3>1
    <2>2. CASE q # s
      BY <1>4, <1>5, <1>7, <1>11, <2>2 DEF DefaultInv
    <2> QED BY <2>1, <2>2
  <1>12. ASSUME NEW q \in DefaultSaves, NEW p \in DefaultSaves, p # q,
                save'[q].at \in Open, save'[p].at \in Open
         PROVE  /\ <<p, q>> \in beside
                /\ save'[p].gone \cap save'[q].gone = {}
                /\ save'[p].wrote \cap save'[q].wrote = {}
    <2>1. save[q].at \in Open /\ save[p].at \in Open
      BY <1>4, <1>10, <1>12
    <2>2. /\ <<p, q>> \in beside /\ save[p].gone \cap save[q].gone = {}
          /\ save[p].wrote \cap save[q].wrote = {}
      BY <1>12, <2>1 DEF DefaultInv
    <2>3. CASE p = s
      BY <1>1, <1>3, <1>4, <1>10, <1>12, <2>1, <2>2, <2>3
    <2>4. CASE q = s
      BY <1>1, <1>3, <1>4, <1>10, <1>12, <2>1, <2>2, <2>4
    <2>5. CASE p # s /\ q # s
      BY <1>4, <2>2, <2>5
    <2> QED BY <2>3, <2>4, <2>5
  <1> QED BY <1>1, <1>6, <1>8, <1>9, <1>11, <1>12 DEF DefaultInv

LEMMA SaveInserts ==
    ASSUME DefaultInv, NEW s \in DefaultSaves, SaveInsert(s)
    PROVE  DefaultInv'
  <1> DEFINE left == save[s].form \ save[s].wrote
             t == CHOOSE t \in left : \A u \in left : t <= u
             entry == [save[s] EXCEPT !.wrote = @ \cup {t}]
  <1>1. /\ save[s].at = "insert" /\ save[s].at \in Open /\ left # {}
        /\ \A q \in DefaultSaves \ {s} : save[q].at \in Open =>
                t \notin save[q].wrote /\ \A r \in save[q].gone : r.type # t
        /\ save' = IF \E r \in defaults \ save[s].gone : r.type = t
                   THEN [save EXCEPT ![s] = [NotSaved EXCEPT !.at = "done"]]
                   ELSE [save EXCEPT ![s].wrote = @ \cup {t}]
        /\ UNCHANGED <<defaults, latest, beside>>
    BY DEF SaveInsert, Open
  <1>2. save \in [DefaultSaves -> SaveJobs]
    BY DEF DefaultInv, DefaultTypeOK, SaveJobs, SaveRows
  <1>3. t \in left
    <2>1. left \in SUBSET Nat
      BY <1>2, DeductionDefaultsAssumption DEF SaveJobs
    <2> HIDE DEF left
    <2> QED BY <1>1, <2>1, LeastOf
  <1> HIDE DEF t
  <1>4. CASE \E r \in defaults \ save[s].gone : r.type = t
    BY <1>1, <1>4, SaveEnds
  <1>5. CASE ~\E r \in defaults \ save[s].gone : r.type = t
    <2>1. save' = [save EXCEPT ![s] = entry]
      BY <1>1, <1>2, <1>5
    <2>2. /\ entry \in SaveJobs /\ entry.at = "insert" /\ entry.saw = save[s].saw /\ entry.form = save[s].form
          /\ entry.gone = save[s].gone /\ entry.wrote = save[s].wrote \cup {t}
      BY <1>1, <1>2, <1>3 DEF SaveJobs
    <2> HIDE DEF entry
    <2>3. /\ save' \in [DefaultSaves -> SaveJobs]
          /\ save'[s] = entry /\ \A q \in DefaultSaves : q # s => save'[q] = save[q]
      BY <2>1, <2>2, SaveMoves
    <2>4. /\ defaults \subseteq SaveRows /\ latest \subseteq DefaultSaves
          /\ \A q \in DefaultSaves : save[q].saw \subseteq SaveRows
      BY DEF DefaultInv, DefaultTypeOK, SaveRows
    <2>5. DefaultTypeOK'
      BY <1>1, <2>3 DEF DefaultInv, DefaultTypeOK, SaveJobs, SaveRows
    <2>6. \A r \in SaveRows : save[r.by].at = "done" => save'[r.by].at = "done"
      BY <1>1, <2>3 DEF SaveRows
    <2>7. \A r \in defaults : save'[r.by].at = "done"
      BY <2>4, <2>6 DEF DefaultInv
    <2>8. \A q \in latest :
            /\ save'[q].at = "done"
            /\ {Amounts(u, q) : u \in save'[q].form} \subseteq defaults
            /\ \A r \in defaults : r.by = q \/ <<r.by, q>> \in beside
      BY <1>1, <2>3, <2>4 DEF DefaultInv
    <2>9. ASSUME NEW q \in DefaultSaves, save'[q].at \in Open
          PROVE  /\ \A r \in save'[q].saw : save'[r.by].at = "done"
                 /\ \A r \in defaults \ save'[q].saw : <<r.by, q>> \in beside
                 /\ \A r \in defaults : r.type \in save'[q].wrote => r \in save'[q].gone
                 /\ save'[q].gone \subseteq defaults
                 /\ save'[q].at = "delete" => save'[q].gone = {} /\ save'[q].wrote = {}
                 /\ save'[q].at = "insert" => save'[q].saw \cap defaults \subseteq save'[q].gone
                 /\ save'[q].wrote \subseteq save'[q].form
      <3>1. CASE q = s
        <4>1. /\ \A r \in save[s].saw : save[r.by].at = "done"
              /\ \A r \in defaults \ save[s].saw : <<r.by, s>> \in beside
              /\ \A r \in defaults : r.type \in save[s].wrote => r \in save[s].gone
              /\ save[s].gone \subseteq defaults
              /\ save[s].saw \cap defaults \subseteq save[s].gone
              /\ save[s].wrote \subseteq save[s].form
          BY <1>1 DEF DefaultInv
        <4>2. \A r \in defaults : r.type \in entry.wrote => r \in entry.gone
          BY <1>5, <2>2, <4>1
        <4> QED BY <1>3, <2>2, <2>3, <2>4, <2>6, <3>1, <4>1, <4>2
      <3>2. CASE q # s
        BY <2>3, <2>4, <2>6, <2>9, <3>2 DEF DefaultInv
      <3> QED BY <3>1, <3>2
    <2>10. ASSUME NEW q \in DefaultSaves, NEW p \in DefaultSaves, p # q,
                  save'[q].at \in Open, save'[p].at \in Open
           PROVE  /\ <<p, q>> \in beside
                  /\ save'[p].gone \cap save'[q].gone = {}
                  /\ save'[p].wrote \cap save'[q].wrote = {}
      <3>1. save[q].at \in Open /\ save[p].at \in Open
        BY <1>1, <2>3, <2>10
      <3>2. /\ <<p, q>> \in beside /\ save[p].gone \cap save[q].gone = {}
            /\ save[p].wrote \cap save[q].wrote = {}
        BY <2>10, <3>1 DEF DefaultInv
      <3>3. CASE p = s
        BY ZenonT(60), <1>1, <2>2, <2>3, <2>10, <3>1, <3>2, <3>3
      <3>4. CASE q = s
        BY ZenonT(60), <1>1, <2>2, <2>3, <2>10, <3>1, <3>2, <3>4
      <3>5. CASE p # s /\ q # s
        BY <2>3, <3>2, <3>5
      <3> QED BY <3>3, <3>4, <3>5
    <2> QED BY <1>1, <2>5, <2>7, <2>8, <2>9, <2>10 DEF DefaultInv
  <1> QED BY <1>4, <1>5

\* What a save leaves behind: its own rows and those of saves that overlapped
\* it, no two of a type.
LEMMA SaveCommits ==
    ASSUME DefaultInv, NEW s \in DefaultSaves, SaveCommit(s)
    PROVE  DefaultInv'
  <1> DEFINE own == {Amounts(t, s) : t \in save[s].form}
             entry == [NotSaved EXCEPT !.at = "done", !.form = save[s].form]
  <1>1. /\ save[s].at = "insert" /\ save[s].at \in Open /\ save[s].wrote = save[s].form
        /\ defaults' = (defaults \ save[s].gone) \cup own /\ save' = [save EXCEPT ![s] = entry]
        /\ latest' = {s} /\ beside' = beside
    BY DEF SaveCommit, Open
  <1>2. save \in [DefaultSaves -> SaveJobs]
    BY DEF DefaultInv, DefaultTypeOK, SaveJobs, SaveRows
  <1>3. entry \in SaveJobs /\ entry.at = "done" /\ entry.form = save[s].form
    BY <1>2 DEF SaveJobs, NotSaved
  <1>4. /\ \A r \in own : r \in SaveRows /\ r.by = s /\ r.type \in save[s].wrote
        /\ \A q, r \in own : q.type = r.type => q = r
    BY <1>1, <1>2 DEF Amounts, SaveRows, SaveJobs
  <1> HIDE DEF entry
  <1>5. /\ save' \in [DefaultSaves -> SaveJobs]
        /\ save'[s] = entry /\ \A q \in DefaultSaves : q # s => save'[q] = save[q]
    BY <1>1, <1>3, SaveMoves
  <1>6. own = {Amounts(t, s) : t \in save'[s].form}
    BY <1>3, <1>5
  <1> HIDE DEF own
  <1>7. /\ defaults \subseteq SaveRows
        /\ \A q \in DefaultSaves : save[q].saw \subseteq SaveRows
    BY DEF DefaultInv, DefaultTypeOK, SaveRows
  <1>8. DefaultTypeOK'
    BY <1>1, <1>4, <1>5, <1>7 DEF DefaultInv, DefaultTypeOK, SaveJobs, SaveRows
  <1>9. \A r \in SaveRows : save[r.by].at = "done" => save'[r.by].at = "done"
    BY <1>3, <1>5 DEF SaveRows
  <1>10. \A r \in defaults' : save'[r.by].at = "done"
    BY <1>1, <1>3, <1>4, <1>5, <1>7, <1>9 DEF DefaultInv
  <1>11. \A r \in defaults \ save[s].gone : r.type \notin save[s].wrote
    BY <1>1 DEF DefaultInv
  <1>12. ASSUME NEW q \in defaults', NEW r \in defaults', q.type = r.type
         PROVE  q = r
    BY <1>1, <1>4, <1>11, <1>12 DEF DefaultInv
  <1>13. ASSUME NEW r \in defaults'
         PROVE  r.by = s \/ <<r.by, s>> \in beside
    <2>1. CASE r \in own
      BY <1>4, <2>1
    <2>2. CASE r \in defaults \ save[s].gone
      <3>1. r \notin save[s].saw
        BY <1>1, <2>2 DEF DefaultInv
      <3> QED BY <1>1, <2>2, <3>1 DEF DefaultInv
    <2> QED BY <1>1, <2>1, <2>2
  <1>14. save[s].at # "done"
    BY <1>1
  <1>15. ASSUME NEW q \in DefaultSaves, save'[q].at \in Open
         PROVE  /\ q # s /\ save'[q] = save[q] /\ save[q].at \in Open
                /\ \A r \in save'[q].saw : save'[r.by].at = "done"
                /\ \A r \in defaults' \ save'[q].saw : <<r.by, q>> \in beside
                /\ \A r \in defaults' : r.type \in save'[q].wrote => r \in save'[q].gone
                /\ save'[q].gone \subseteq defaults'
                /\ save'[q].at = "delete" => save'[q].gone = {} /\ save'[q].wrote = {}
                /\ save'[q].at = "insert" => save'[q].saw \cap defaults' \subseteq save'[q].gone
                /\ save'[q].wrote \subseteq save'[q].form
    <2>1. q # s /\ save'[q] = save[q] /\ save[q].at \in Open
      BY <1>3, <1>5, <1>15 DEF Open
    <2>2. /\ \A r \in save[q].saw : save[r.by].at = "done"
          /\ \A r \in defaults \ save[q].saw : <<r.by, q>> \in beside
          /\ \A r \in defaults : r.type \in save[q].wrote => r \in save[q].gone
          /\ save[q].gone \subseteq defaults
          /\ save[q].at = "delete" => save[q].gone = {} /\ save[q].wrote = {}
          /\ save[q].at = "insert" => save[q].saw \cap defaults \subseteq save[q].gone
          /\ save[q].wrote \subseteq save[q].form
      BY <2>1 DEF DefaultInv
    <2>3. /\ <<s, q>> \in beside /\ save[s].gone \cap save[q].gone = {}
          /\ save[s].wrote \cap save[q].wrote = {}
      BY <1>1, <2>1 DEF DefaultInv
    <2>4. own \cap save[q].saw = {}
      BY <1>4, <1>14, <2>2
    <2>5. \A r \in save[q].saw : save'[r.by].at = "done"
      BY <1>7, <1>9, <2>2
    <2>6. \A r \in defaults' \ save[q].saw : <<r.by, q>> \in beside
      BY <1>1, <1>4, <2>2, <2>3
    <2>7. \A r \in defaults' : r.type \in save[q].wrote => r \in save[q].gone
      BY <1>1, <1>4, <2>2, <2>3
    <2>8. save[q].gone \subseteq defaults'
      BY <1>1, <2>2, <2>3
    <2>9. save[q].at = "insert" => save[q].saw \cap defaults' \subseteq save[q].gone
      BY <1>1, <2>2, <2>4
    <2> QED BY <2>1, <2>2, <2>5, <2>6, <2>7, <2>8, <2>9
  <1>16. ASSUME NEW q \in DefaultSaves, NEW p \in DefaultSaves, p # q,
                save'[q].at \in Open, save'[p].at \in Open
         PROVE  /\ <<p, q>> \in beside
                /\ save'[p].gone \cap save'[q].gone = {}
                /\ save'[p].wrote \cap save'[q].wrote = {}
    BY <1>15, <1>16 DEF DefaultInv
  <1>17. \A q \in latest' :
           /\ save'[q].at = "done"
           /\ {Amounts(t, q) : t \in save'[q].form} \subseteq defaults'
           /\ \A r \in defaults' : r.by = q \/ <<r.by, q>> \in beside
    BY <1>1, <1>3, <1>5, <1>6, <1>13
  <1> QED BY <1>1, <1>8, <1>10, <1>12, <1>15, <1>16, <1>17 DEF DefaultInv

LEMMA DefaultStep ==
    ASSUME DefaultInv, [DefaultNext]_defaultVars
    PROVE  DefaultInv'
  <1>1. CASE UNCHANGED defaultVars
    BY <1>1 DEF defaultVars, DefaultInv, DefaultTypeOK
  <1>2. ASSUME NEW s \in DefaultSaves, SaveAbort(s) PROVE DefaultInv'
    BY <1>2, SaveEnds DEF SaveAbort
  <1> QED BY <1>1, <1>2, SaveBegins, SaveDeletes, SaveInserts, SaveCommits DEF DefaultNext

\* Whatever saves overlap, the defaults are those of the last commit and of
\* saves under way together with it, one amount a type (compensation.rs:268-307).
THEOREM DefaultsTheorem == DefaultSpec => []DefaultsOfOneSave
  <1>1. DefaultInit => DefaultInv
    BY DEF DefaultInit, DefaultInv, DefaultTypeOK, NotSaved, Open
  <1>2. DefaultInv => DefaultsOfOneSave
    BY DEF DefaultInv, DefaultsOfOneSave
  <1> QED BY <1>1, <1>2, DefaultStep, PTL DEF DefaultSpec

-----------------------------------------------------------------------------
(* Requirement.  What is known of the row a request has read: a submission *)
(* has an open row unless another came first, a review has the submission  *)
(* it saw unless it was decided, and the file of a submission under way is *)
(* its own.                                                                *)
TypesKnown == \A i \in Items : At(i) # None => types[i[2]] # None

Sending == {"exists", "remove", "store", "update"}
Deciding == {"look", "days", "decide"}

StepsApart ==
    /\ \A s \in Submits : req[s].at \in {"new", "done"} \cup Sending
    /\ \A s \in Reviews : req[s].at \in {"new", "done"} \cup Deciding

OpenOrTold ==
    \A s \in Submits : req[s].at \in Sending =>
        /\ At(req[s].of) # None
        /\ CanSubmit(At(req[s].of)) \/ "submitted" \in req[s].since

OwnFile ==
    \A s \in Submits :
        /\ req[s].at # "done" => /\ \A i \in Items : At(i) # None => At(i).file # s
                                 /\ \A q \in Requests : req[q].old # s
        /\ req[s].at = "update" /\ req[s].form = "file" => s \in disk

SeenOrTold ==
    \A s \in Reviews : req[s].at \in Deciding =>
        /\ At(req[s].of) # None
        /\ \/ "decided" \in req[s].since
           \/ At(req[s].of).status = "submitted" /\ At(req[s].of).sent = req[s].seen

ChecklistInv ==
    /\ ChecklistTypeOK
    /\ TypesKnown
    /\ StepsApart
    /\ OpenOrTold
    /\ OwnFile
    /\ SeenOrTold

LEMMA ChecklistInitially == ChecklistInit => ChecklistInv
<1> SUFFICES ASSUME ChecklistInit PROVE ChecklistInv
  OBVIOUS
<1>1. New \in Jobs /\ New.at = "new" /\ New.old = None
  BY DEF New, Jobs
<1>2. Missing \in Rows /\ Missing.file = None
  BY DEF Missing, Rows, Statuses
<1>3. \A s \in Requests : req[s] = New
  BY DEF ChecklistInit
<1>4. \A e \in Owners, t \in Types :
         row[e][t] = IF types[t] # None /\ team[e].active THEN Missing ELSE None
  BY DEF ChecklistInit
<1>5. \A i \in Items : /\ i[1] \in Owners /\ i[2] \in Types
                       /\ At(i) # None => At(i) = Missing /\ types[i[2]] # None
  BY <1>4 DEF At, Items
<1>6. ChecklistTypeOK
  <2>1. types \in [Types -> TypeRows \cup {None}]
    BY DEF ChecklistInit, TypeRows
  <2>2. row \in [Owners -> [Types -> Rows \cup {None}]]
    BY <1>2 DEF ChecklistInit
  <2>3. req \in [Requests -> Jobs]
    BY <1>1 DEF ChecklistInit
  <2> QED
    BY <1>1, <1>3, <2>1, <2>2, <2>3, RequirementAssumption DEF ChecklistInit, ChecklistTypeOK
<1>7. \A s \in Submits : s # None
  BY RequirementAssumption
<1> QED
  BY <1>1, <1>2, <1>3, <1>5, <1>6, <1>7
     DEF ChecklistInv, TypesKnown, StepsApart, OpenOrTold, OwnFile, SeenOrTold, Sending,
         Deciding, Requests

(* The clock, the roster, the types and the pages leave every row that is  *)
(* there as it was, or older.                                              *)
LEMMA AroundKeeps ==
    ASSUME ChecklistInv, UNCHANGED <<disk, req>>, ChecklistTypeOK',
           \A i \in Items : At(i)' = At(i) \/ (At(i) = None /\ At(i)' = Missing),
           \A i \in Items : At(i)' # None => types'[i[2]] # None,
           now' >= now
    PROVE  ChecklistInv'
<1>1. \A i \in Items : At(i) # None => At(i)' = At(i)
  OBVIOUS
<1>2. \A i \in Items : At(i) # None /\ CanSubmit(At(i)) => CanSubmit(At(i))'
  <2> SUFFICES ASSUME NEW i \in Items, At(i) # None, CanSubmit(At(i))
               PROVE  CanSubmit(At(i))'
    OBVIOUS
  <2>1. At(i)' = At(i) /\ At(i) \in Rows
    BY <1>1 DEF At, Items, ChecklistInv, ChecklistTypeOK
  <2>2. At(i).expires \in Nat \cup {None} /\ now \in Nat /\ now' \in Nat
    BY <2>1, RequirementAssumption DEF Rows, ChecklistInv, ChecklistTypeOK
  <2> QED
    BY <2>1, <2>2 DEF CanSubmit, Expired
<1>3. TypesKnown'
  BY DEF TypesKnown
<1>4. StepsApart'
  BY DEF ChecklistInv, StepsApart
<1>5. \A s \in Requests : /\ req[s].of \in Items \cup {None}
                          /\ req[s].at \notin {"new", "done"} => req[s].of \in Items
  BY DEF ChecklistInv, ChecklistTypeOK, Jobs
<1>6. OpenOrTold'
  <2> SUFFICES ASSUME NEW s \in Submits, req[s].at \in Sending
               PROVE  /\ At(req[s].of)' # None
                      /\ CanSubmit(At(req[s].of))' \/ "submitted" \in req[s].since
    BY DEF OpenOrTold
  <2>1. req[s].of \in Items
    BY <1>5 DEF Requests, Sending
  <2>2. /\ At(req[s].of) # None
        /\ CanSubmit(At(req[s].of)) \/ "submitted" \in req[s].since
    BY DEF ChecklistInv, OpenOrTold
  <2> DEFINE i == req[s].of
  <2>3. i' = i /\ At(i)' = At(i)
    BY <1>1, <2>1, <2>2
  <2> QED
    BY <1>2, <2>1, <2>2, <2>3
<1>7. OwnFile'
  BY RequirementAssumption DEF ChecklistInv, OwnFile, Missing
<1>8. SeenOrTold'
  <2> SUFFICES ASSUME NEW s \in Reviews, req[s].at \in Deciding
               PROVE  /\ At(req[s].of)' # None
                      /\ \/ "decided" \in req[s].since
                         \/ At(req[s].of)'.status = "submitted" /\ At(req[s].of)'.sent = req[s].seen
    BY DEF SeenOrTold
  <2>1. req[s].of \in Items
    BY <1>5 DEF Requests, Deciding
  <2> QED
    BY <1>1, <2>1 DEF ChecklistInv, SeenOrTold
<1> QED
  BY <1>3, <1>4, <1>6, <1>7, <1>8 DEF ChecklistInv

(* A step of one request that leaves the rows alone.                       *)
LEMMA RequestKeeps ==
    ASSUME ChecklistInv, UNCHANGED <<now, team, types, row>>, NEW s \in Requests,
           NEW n \in Jobs, req' = [req EXCEPT ![s] = n],
           n.at # "new", n.at # "done" => req[s].at # "done" /\ n.of # None,
           s \in Submits =>
              /\ n.at \in {"done"} \cup Sending
              /\ n.at \in Sending => /\ At(n.of) # None
                                     /\ CanSubmit(At(n.of)) \/ "submitted" \in n.since
              /\ n.at = "update" /\ n.form = "file" => s \in disk',
           s \in Reviews =>
              /\ n.at \in {"done"} \cup Deciding
              /\ n.at \in Deciding =>
                    /\ At(n.of) # None
                    /\ \/ "decided" \in n.since
                       \/ At(n.of).status = "submitted" /\ At(n.of).sent = n.seen,
           n.old = None \/ n.old = req[s].old
              \/ \E i \in Items : At(i) # None /\ n.old = At(i).file,
           disk' \subseteq Files, \A f \in disk \ disk' : f = req[s].old
    PROVE  ChecklistInv'
<1>1. /\ req \in [Requests -> Jobs] /\ req' \in [Requests -> Jobs]
      /\ req'[s] = n /\ \A q \in Requests \ {s} : req'[q] = req[q]
  BY DEF ChecklistInv, ChecklistTypeOK
<1>2. \A i : At(i)' = At(i) /\ (CanSubmit(At(i))' <=> CanSubmit(At(i)))
  BY DEF At, CanSubmit, Expired
<1>3. ChecklistTypeOK'
  BY <1>1 DEF ChecklistInv, ChecklistTypeOK
<1>4. TypesKnown'
  BY <1>2 DEF ChecklistInv, TypesKnown
<1>5. Submits \cap Reviews = {} /\ Submits \subseteq Requests /\ Reviews \subseteq Requests
  BY RequirementAssumption DEF Requests
<1>6. StepsApart'
  BY <1>1, <1>5 DEF ChecklistInv, StepsApart
<1>7. OpenOrTold'
  <2> SUFFICES ASSUME NEW q \in Submits, req'[q].at \in Sending
               PROVE  /\ At(req'[q].of) # None
                      /\ CanSubmit(At(req'[q].of)) \/ "submitted" \in req'[q].since
    BY <1>2 DEF OpenOrTold, CanSubmit, Expired, At
  <2> QED
    BY <1>1, <1>5 DEF ChecklistInv, OpenOrTold
<1>8. SeenOrTold'
  <2> SUFFICES ASSUME NEW q \in Reviews, req'[q].at \in Deciding
               PROVE  /\ At(req'[q].of) # None
                      /\ \/ "decided" \in req'[q].since
                         \/ /\ At(req'[q].of).status = "submitted"
                            /\ At(req'[q].of).sent = req'[q].seen
    BY <1>2 DEF SeenOrTold, At
  <2> QED
    BY <1>1, <1>5 DEF ChecklistInv, SeenOrTold
<1>9. OwnFile'
  <2> SUFFICES ASSUME NEW q \in Submits
               PROVE  /\ req'[q].at # "done" =>
                            /\ \A i \in Items : At(i) # None => At(i).file # q
                            /\ \A p \in Requests : req'[p].old # q
                      /\ req'[q].at = "update" /\ req'[q].form = "file" => q \in disk'
    BY <1>2 DEF OwnFile
  <2>1. /\ req[q].at # "done" => /\ \A i \in Items : At(i) # None => At(i).file # q
                                 /\ \A p \in Requests : req[p].old # q
        /\ req[q].at = "update" /\ req[q].form = "file" => q \in disk
    BY DEF ChecklistInv, OwnFile
  <2>2. q # None
    BY RequirementAssumption
  <2>3. req'[q].at # "done" => req[q].at # "done"
    BY <1>1, <1>5
  <2>4. req'[q].at # "done" => \A p \in Requests : req'[p].old # q
    BY <1>1, <2>1, <2>2, <2>3
  <2>5. req'[q].at = "update" /\ req'[q].form = "file" => q \in disk'
    BY <1>1, <1>5, <2>1
  <2> QED
    BY <2>1, <2>3, <2>4, <2>5
<1> QED
  BY <1>3, <1>4, <1>6, <1>7, <1>8, <1>9 DEF ChecklistInv

(* A submission or a decision writes the row of i and tells the others.    *)
LEMMA RowKeeps ==
    ASSUME ChecklistInv, UNCHANGED <<now, team, types, disk>>, NEW s \in Requests,
           NEW i \in Items, NEW w \in Rows, NEW what \in {"submitted", "decided"},
           req[s].of = i, req[s].at # "done", At(i) # None,
           row' \in [Owners -> [Types -> Rows \cup {None}]], At(i)' = w,
           \A j \in Items : j # i => At(j)' = At(j),
           req' = Tell(s, i, what),
           w.file = At(i).file \/ w.file = s,
           \/ what = "submitted" /\ CanSubmit(At(i))
           \/ what = "decided" /\ At(i).status = "submitted"
    PROVE  ChecklistInv'
<1>1. /\ req \in [Requests -> Jobs] /\ Over \in Jobs /\ Over.at = "done" /\ Over.old = None
      /\ w # None
  BY RequirementAssumption DEF ChecklistInv, ChecklistTypeOK, Over, New, Jobs
<1>2. /\ req'[s] = Over
      /\ \A q \in Requests \ {s} :
            req'[q] = IF req[q].of = i THEN [req[q] EXCEPT !.since = @ \cup {what}] ELSE req[q]
  BY <1>1 DEF Tell
<1>3. \A q \in Requests \ {s} :
         /\ req'[q] \in Jobs
         /\ req'[q].at = req[q].at /\ req'[q].of = req[q].of /\ req'[q].old = req[q].old
         /\ req'[q].form = req[q].form /\ req'[q].seen = req[q].seen
         /\ req[q].since \subseteq req'[q].since
         /\ req[q].of = i => what \in req'[q].since
  <2> SUFFICES ASSUME NEW q \in Requests \ {s}
               PROVE  /\ req'[q] \in Jobs
                      /\ req'[q].at = req[q].at /\ req'[q].of = req[q].of
                      /\ req'[q].old = req[q].old /\ req'[q].form = req[q].form
                      /\ req'[q].seen = req[q].seen /\ req[q].since \subseteq req'[q].since
                      /\ req[q].of = i => what \in req'[q].since
    OBVIOUS
  <2>1. CASE req[q].of # i
    BY <1>1, <1>2, <2>1
  <2>2. CASE req[q].of = i
    <3> DEFINE n == [req[q] EXCEPT !.since = @ \cup {what}]
    <3>1. req[q] \in Jobs
      BY <1>1
    <3>2. n \in Jobs
      BY <3>1 DEF Jobs
    <3>3. /\ n.at = req[q].at /\ n.of = req[q].of /\ n.old = req[q].old
          /\ n.form = req[q].form /\ n.seen = req[q].seen
          /\ n.since = req[q].since \cup {what}
      BY <3>1 DEF Jobs
    <3>4. req'[q] = n
      BY <1>2, <2>2
    <3> HIDE DEF n
    <3> QED
      BY <3>2, <3>3, <3>4
  <2> QED
    BY <2>1, <2>2
<1>4. req' \in [Requests -> Jobs]
  BY <1>1, <1>2, <1>3 DEF Tell
<1>5. ChecklistTypeOK'
  <2>1. \A q \in Requests : req'[q].at \notin {"new", "done"} => req'[q].of # None
    BY <1>1, <1>2, <1>3 DEF ChecklistInv, ChecklistTypeOK
  <2> QED
    BY <1>4, <2>1 DEF ChecklistInv, ChecklistTypeOK
<1>6. TypesKnown'
  BY DEF ChecklistInv, TypesKnown
<1>7. Submits \cap Reviews = {} /\ Submits \subseteq Requests /\ Reviews \subseteq Requests
  BY RequirementAssumption DEF Requests
<1>8. StepsApart'
  BY <1>1, <1>2, <1>3, <1>7 DEF ChecklistInv, StepsApart
<1>9. \A q \in Requests : req[q].of \in Items \cup {None}
                          /\ (req[q].at \notin {"new", "done"} => req[q].of \in Items)
  BY DEF ChecklistInv, ChecklistTypeOK, Jobs
<1>10. \A j \in Items : j # i => (CanSubmit(At(j))' <=> CanSubmit(At(j)))
  BY DEF CanSubmit, Expired
<1>11. OpenOrTold'
  <2> SUFFICES ASSUME NEW q \in Submits, req'[q].at \in Sending
               PROVE  /\ At(req[q].of)' # None
                      /\ CanSubmit(At(req[q].of))' \/ "submitted" \in req'[q].since
    BY DEF OpenOrTold
  <2>1. q \in Requests \ {s}
    BY <1>1, <1>2, <1>7 DEF Sending
  <2>2. PICK j \in Items : j = req[q].of
    BY <1>3, <1>9, <2>1 DEF Sending
  <2>3. At(j) # None /\ (CanSubmit(At(j)) \/ "submitted" \in req[q].since)
    BY <1>3, <2>1, <2>2 DEF ChecklistInv, OpenOrTold
  <2>4. req'[q].of = j
    BY <1>3, <2>1, <2>2
  <2>5. At(j)' # None /\ (CanSubmit(At(j))' \/ "submitted" \in req'[q].since)
    <3>1. CASE j # i
      BY <1>3, <1>10, <2>1, <2>3, <3>1
    <3>2. CASE j = i /\ what = "submitted"
      BY ZenonT(60), <1>1, <1>3, <2>1, <2>2, <3>2
    <3>3. CASE j = i /\ what = "decided"
      BY <1>1, <1>3, <2>1, <2>2, <2>3, <3>3 DEF CanSubmit
    <3> QED
      BY <3>1, <3>2, <3>3
  <2> QED
    BY <2>4, <2>5 DEF At, CanSubmit, Expired
<1>12. SeenOrTold'
  <2> SUFFICES ASSUME NEW q \in Reviews, req'[q].at \in Deciding
               PROVE  /\ At(req[q].of)' # None
                      /\ \/ "decided" \in req'[q].since
                         \/ /\ At(req[q].of)'.status = "submitted"
                            /\ At(req[q].of)'.sent = req'[q].seen
    BY DEF SeenOrTold
  <2>1. q \in Requests \ {s}
    BY <1>1, <1>2, <1>7 DEF Deciding
  <2>2. PICK j \in Items : j = req[q].of
    BY <1>3, <1>9, <2>1 DEF Deciding
  <2>3. /\ At(j) # None
        /\ \/ "decided" \in req[q].since
           \/ At(j).status = "submitted" /\ At(j).sent = req[q].seen
    BY <1>3, <2>1, <2>2 DEF ChecklistInv, SeenOrTold
  <2>4. req'[q].of = j /\ req'[q].seen = req[q].seen
    BY <1>3, <2>1, <2>2
  <2>5. /\ At(j)' # None
        /\ \/ "decided" \in req'[q].since
           \/ At(j)'.status = "submitted" /\ At(j)'.sent = req[q].seen
    <3>1. CASE j # i
      BY <1>3, <2>1, <2>3, <3>1
    <3>2. CASE j = i /\ what = "decided"
      BY ZenonT(60), <1>1, <1>3, <2>1, <2>2, <3>2
    <3>3. CASE j = i /\ what = "submitted"
      BY <1>1, <1>3, <2>1, <2>2, <2>3, <3>3 DEF CanSubmit
    <3> QED
      BY <3>1, <3>2, <3>3
  <2> QED
    BY <2>4, <2>5 DEF At
<1>13. OwnFile'
  <2> SUFFICES ASSUME NEW q \in Submits
               PROVE  /\ req'[q].at # "done" =>
                            /\ \A j \in Items : At(j)' # None => At(j)'.file # q
                            /\ \A p \in Requests : req'[p].old # q
                      /\ req'[q].at = "update" /\ req'[q].form = "file" => q \in disk
    BY DEF OwnFile
  <2>1. /\ req[q].at # "done" => /\ \A j \in Items : At(j) # None => At(j).file # q
                                 /\ \A p \in Requests : req[p].old # q
        /\ req[q].at = "update" /\ req[q].form = "file" => q \in disk
    BY DEF ChecklistInv, OwnFile
  <2>2. q # None
    BY RequirementAssumption
  <2>3. CASE q = s
    BY <1>1, <1>2, <2>3
  <2>4. CASE q # s
    <3>1. \A p \in Requests : req'[p].old = req[p].old \/ req'[p].old = None
      BY <1>1, <1>2, <1>3
    <3>2. \A j \in Items : At(j)' # None => At(j)' = At(j) \/ (j = i /\ At(j)' = w)
      OBVIOUS
    <3> QED
      BY <1>3, <1>7, <2>1, <2>2, <2>4, <3>1, <3>2
  <2> QED
    BY <2>3, <2>4
<1> QED
  BY <1>5, <1>6, <1>8, <1>11, <1>12, <1>13 DEF ChecklistInv

(* A row that is there is of a type that is there, and of the right shape. *)
LEMMA RowShape ==
    ASSUME ChecklistTypeOK, NEW i \in Items
    PROVE  /\ i[1] \in Owners /\ i[2] \in Types
           /\ At(i) \in Rows \cup {None}
           /\ types[i[2]] \in TypeRows \cup {None}
  BY DEF Items, At, ChecklistTypeOK

LEMMA AroundStep ==
    ASSUME ChecklistInv,
           \/ Tick
           \/ \E t \in Rosters : Reassign(t)
           \/ \E t \in Types : \/ \E new \in TypeRows : CreateType(t, new) \/ UpdateType(t, new)
                               \/ SeedType(t)
           \/ \E e \in Owners : Page(e)
    PROVE  /\ ChecklistInv' /\ UNCHANGED <<disk, req>>
           /\ \A i \in Items : At(i)' = At(i) \/ (At(i) = None /\ At(i)' = Missing)
<1>1. ChecklistTypeOK /\ TypesKnown /\ UNCHANGED <<disk, req>>
  BY DEF ChecklistInv, Tick, Reassign, CreateType, UpdateType, SeedType, Page
<1>2. Missing \in Rows
  BY DEF Missing, Rows, Statuses
<1>3. \A i \in Items : /\ i[1] \in Owners /\ i[2] \in Types /\ At(i) = row[i[1]][i[2]]
                       /\ At(i)' = row'[i[1]][i[2]]
  BY <1>1, RowShape DEF At
<1>4. \A i \in Items : At(i) # None => types[i[2]] # None
  BY <1>1 DEF TypesKnown
<1>5. CASE UNCHANGED <<types, row>>
  <2>1. now' \in 0 .. LastDay /\ now' >= now /\ team' \in Rosters
    BY <1>1, <1>5, RequirementAssumption
       DEF Tick, Reassign, ChecklistTypeOK, CreateType, UpdateType, SeedType, Page
  <2>2. ChecklistTypeOK'
    BY <1>1, <1>5, <2>1 DEF ChecklistTypeOK
  <2>3. \A i \in Items : At(i)' = At(i)
    BY <1>3, <1>5
  <2> QED
    BY <1>1, <1>4, <1>5, <2>1, <2>2, <2>3, AroundKeeps
<1>6. ASSUME NEW t \in Types, NEW new \in TypeRows, types' = [types EXCEPT ![t] = new],
             UNCHANGED <<now, team, row>>
      PROVE  /\ ChecklistInv'
             /\ \A i \in Items : At(i)' = At(i) \/ (At(i) = None /\ At(i)' = Missing)
  <2>1. types' \in [Types -> TypeRows \cup {None}] /\ new # None
    BY <1>1, <1>6, RequirementAssumption DEF ChecklistTypeOK
  <2>2. ChecklistTypeOK'
    BY <1>1, <1>6, <2>1 DEF ChecklistTypeOK
  <2>3. \A i \in Items : At(i)' = At(i)
    BY <1>3, <1>6
  <2>4. \A i \in Items : At(i)' # None => types'[i[2]] # None
    BY <1>1, <1>3, <1>4, <1>6, <2>1, <2>3 DEF ChecklistTypeOK
  <2>5. now' >= now
    BY <1>1, <1>6, RequirementAssumption DEF ChecklistTypeOK
  <2> QED
    BY <1>1, <2>2, <2>3, <2>4, <2>5, AroundKeeps
<1>7. ASSUME UNCHANGED <<now, team, types>>, row' \in [Owners -> [Types -> Rows \cup {None}]],
             \A e \in Owners, t \in Types :
                row'[e][t] = row[e][t]
                \/ (row[e][t] = None /\ row'[e][t] = Missing /\ types[t] # None)
      PROVE  /\ ChecklistInv'
             /\ \A i \in Items : At(i)' = At(i) \/ (At(i) = None /\ At(i)' = Missing)
  <2>1. ChecklistTypeOK'
    BY <1>1, <1>7 DEF ChecklistTypeOK
  <2>2. \A i \in Items : \/ At(i)' = At(i)
                         \/ At(i) = None /\ At(i)' = Missing /\ types[i[2]] # None
    BY <1>3, <1>7
  <2>3. \A i \in Items : At(i)' # None => types'[i[2]] # None
    BY <1>4, <1>7, <2>2
  <2>4. now' >= now
    BY <1>1, <1>7, RequirementAssumption DEF ChecklistTypeOK
  <2> QED
    BY <1>1, <2>1, <2>2, <2>3, <2>4, AroundKeeps
<1>8. ASSUME NEW t \in Types, SeedType(t)
      PROVE  /\ UNCHANGED <<now, team, types>> /\ row' \in [Owners -> [Types -> Rows \cup {None}]]
             /\ \A e \in Owners, u \in Types :
                   row'[e][u] = row[e][u]
                   \/ (row[e][u] = None /\ row'[e][u] = Missing /\ types[u] # None)
  BY <1>1, <1>2, <1>8 DEF SeedType, ChecklistTypeOK
<1>9. ASSUME NEW e \in Owners, Page(e)
      PROVE  /\ UNCHANGED <<now, team, types>> /\ row' \in [Owners -> [Types -> Rows \cup {None}]]
             /\ \A d \in Owners, u \in Types :
                   row'[d][u] = row[d][u]
                   \/ (row[d][u] = None /\ row'[d][u] = Missing /\ types[u] # None)
  <2> DEFINE rows == [t \in Types |->
                  IF row[e][t] = None /\ types[t] # None /\ types[t].active THEN Missing
                  ELSE row[e][t]]
  <2>1. rows \in [Types -> Rows \cup {None}]
    BY <1>1, <1>2 DEF ChecklistTypeOK
  <2>2. row' = [row EXCEPT ![e] = rows] /\ UNCHANGED <<now, team, types>>
    BY <1>9 DEF Page
  <2>3. \A u \in Types : rows[u] = row[e][u]
                         \/ (row[e][u] = None /\ rows[u] = Missing /\ types[u] # None)
    OBVIOUS
  <2> HIDE DEF rows
  <2> QED
    BY <1>1, <2>1, <2>2, <2>3 DEF ChecklistTypeOK
<1>10. CASE Tick \/ \E t \in Rosters : Reassign(t)
  BY <1>1, <1>5, <1>10 DEF Tick, Reassign
<1>11. CASE \E t \in Types, new \in TypeRows : CreateType(t, new) \/ UpdateType(t, new)
  BY <1>1, <1>6, <1>11 DEF CreateType, UpdateType
<1>12. CASE \E t \in Types : SeedType(t)
  BY <1>1, <1>7, <1>8, <1>12
<1>13. CASE \E e \in Owners : Page(e)
  BY <1>1, <1>7, <1>9, <1>13
<1> QED
  BY <1>10, <1>11, <1>12, <1>13

(* The steps of a submission.                                              *)
LEMMA OverOK ==
    ASSUME ChecklistInv, UNCHANGED <<now, team, types, row>>, NEW s \in Requests,
           req' = [req EXCEPT ![s] = Over],
           disk' \subseteq Files, \A f \in disk \ disk' : f = req[s].old
    PROVE  ChecklistInv'
<1>1. Over \in Jobs /\ Over.at = "done" /\ Over.old = None
  BY DEF Over, New, Jobs
<1> QED
  BY <1>1, RequestKeeps DEF Sending, Deciding

(* A submission goes on to its next statement.                             *)
LEMMA GoesOn ==
    ASSUME ChecklistInv, UNCHANGED <<now, team, types, row>>, NEW s \in Submits,
           req[s].at \in Sending, NEW at \in Sending,
           req' = [req EXCEPT ![s].at = at],
           at = "update" /\ req[s].form = "file" => s \in disk',
           disk' \subseteq Files, \A f \in disk \ disk' : f = req[s].old
    PROVE  ChecklistInv'
<1> DEFINE n == [req[s] EXCEPT !.at = at]
<1>1. req[s] \in Jobs /\ s \in Requests
  BY DEF ChecklistInv, ChecklistTypeOK, Requests
<1>2. /\ n \in Jobs
      /\ n.at = at /\ n.of = req[s].of /\ n.old = req[s].old /\ n.form = req[s].form
      /\ n.since = req[s].since
  BY <1>1 DEF Jobs, Sending
<1>3. req' = [req EXCEPT ![s] = n]
  BY <1>1 DEF ChecklistInv, ChecklistTypeOK
<1>4. /\ n.of # None /\ At(n.of) # None
      /\ CanSubmit(At(n.of)) \/ "submitted" \in n.since
  BY <1>1, <1>2 DEF ChecklistInv, ChecklistTypeOK, OpenOrTold, Sending
<1>5. n.at \notin {"new", "done"} /\ req[s].at # "done" /\ s \notin Reviews
  BY <1>2, RequirementAssumption DEF Sending
<1> HIDE DEF n
<1> QED
  BY <1>1, <1>2, <1>3, <1>4, <1>5, RequestKeeps

LEMMA SubmitSteps ==
    ASSUME ChecklistInv, NEW s \in Submits,
           \/ \E i \in Items, form \in {"note", "file", "invalid"} : SubmitBegin(s, i, form)
           \/ SubmitExists(s) \/ SubmitRemove(s) \/ SubmitStore(s)
    PROVE  ChecklistInv'
<1>1. /\ s \in Requests /\ disk \subseteq Files /\ s \in Files /\ s \notin Reviews
      /\ req \in [Requests -> Jobs]
  BY RequirementAssumption DEF Requests, ChecklistInv, ChecklistTypeOK, Files
<1>2. ASSUME NEW i \in Items, NEW form \in {"note", "file", "invalid"}, SubmitBegin(s, i, form)
      PROVE  ChecklistInv'
  <2> DEFINE at == IF form = "note" THEN "update"
                   ELSE IF At(i).file = None THEN "store" ELSE "exists"
             n == [New EXCEPT !.at = at, !.of = i, !.form = form, !.old = At(i).file]
  <2>1. /\ At(i) \in Rows /\ At(i) # None /\ CanSubmit(At(i)) /\ req[s].at = "new"
        /\ req' = [req EXCEPT ![s] = n] /\ UNCHANGED <<now, team, types, row, disk>>
    BY <1>2, RowShape DEF SubmitBegin, ChecklistInv
  <2>2. at \in {"update", "store", "exists"} /\ (at = "update" => form = "note")
    OBVIOUS
  <2> HIDE DEF at
  <2>3. /\ n \in Jobs
        /\ n.at = at /\ n.of = i /\ n.form = form /\ n.old = At(i).file
    BY <2>1, <2>2 DEF New, Jobs, Rows
  <2>4. i # None
    BY RequirementAssumption
  <2> HIDE DEF n
  <2>5. n.at \notin {"new", "done"} /\ n.at \in Sending /\ n.of # None
    BY <2>2, <2>3, <2>4 DEF Sending
  <2>6. n.at = "update" => n.form # "file"
    BY <2>2, <2>3
  <2> QED
    BY <1>1, <2>1, <2>3, <2>5, <2>6, RequestKeeps
<1>3. CASE SubmitExists(s)
  <2>1. PICK at \in {"remove", "store"} : req' = [req EXCEPT ![s].at = at]
    BY <1>3 DEF SubmitExists, Goto
  <2> QED
    BY <1>1, <1>3, <2>1, GoesOn DEF SubmitExists, Sending
<1>4. CASE SubmitRemove(s)
  <2>1. /\ UNCHANGED <<now, team, types, row>> /\ disk' = disk \ {req[s].old}
        /\ req[s].at \in Sending
    BY <1>4 DEF SubmitRemove, Sending
  <2>2. CASE req[s].old \in disk
    BY <1>1, <1>4, <2>1, <2>2, GoesOn DEF SubmitRemove, Goto, Sending
  <2>3. CASE req[s].old \notin disk
    BY <1>1, <1>4, <2>1, <2>3, OverOK DEF SubmitRemove, Stop
  <2> QED
    BY <2>2, <2>3
<1>5. CASE SubmitStore(s)
  <2>1. UNCHANGED <<now, team, types, row>> /\ req[s].at \in Sending
    BY <1>5 DEF SubmitStore, Sending
  <2>2. CASE Accepted(req[s].form)
    BY <1>1, <1>5, <2>1, <2>2, GoesOn DEF SubmitStore, Goto, Sending
  <2>3. CASE ~Accepted(req[s].form)
    BY <1>1, <1>5, <2>1, <2>3, OverOK DEF SubmitStore, Stop
  <2> QED
    BY <2>2, <2>3
<1> QED
  BY <1>2, <1>3, <1>4, <1>5

(* What the UPDATE of a submission does to the row of its item.            *)
Submitted(s, i) ==
    /\ CanSubmit(At(i)) /\ req' = Tell(s, i, "submitted")
    /\ row' \in [Owners -> [Types -> Rows \cup {None}]]
    /\ At(i)' \in Rows /\ At(i)'.status = "submitted" /\ At(i)'.sent = s
    /\ At(i)'.file = IF req[s].form = "file" THEN s ELSE At(i).file
    /\ \A j \in Items : j # i => At(j)' = At(j)

LEMMA SubmitWrites ==
    ASSUME ChecklistInv, NEW s \in Submits, SubmitUpdate(s)
    PROVE  /\ req[s].at = "update" /\ UNCHANGED <<now, team, types, disk>>
           /\ \E i \in Items :
                 /\ req[s].of = i /\ At(i) # None
                 /\ Submitted(s, i) \/ (UNCHANGED row /\ req' = [req EXCEPT ![s] = Over])
<1>1. req[s].at = "update" /\ UNCHANGED <<now, team, types, disk>>
  BY DEF SubmitUpdate
<1>2. PICK i \in Items : req[s].of = i /\ At(i) # None
  BY <1>1 DEF ChecklistInv, ChecklistTypeOK, Requests, Jobs, OpenOrTold, Sending
<1>3. CASE ~CanSubmit(At(i))
  BY <1>1, <1>2, <1>3 DEF SubmitUpdate, Stop
<1>4. CASE CanSubmit(At(i))
  <2> DEFINE w == [status |-> "submitted", expires |-> None, sent |-> s,
                   file |-> IF req[s].form = "file" THEN s ELSE At(i).file]
  <2>1. At(i) \in Rows /\ i[1] \in Owners /\ i[2] \in Types
    BY <1>2, RowShape DEF ChecklistInv
  <2>2. w \in Rows
    BY <2>1 DEF Rows, Files, Statuses
  <2>3. row' = [row EXCEPT ![i[1]][i[2]] = w] /\ req' = Tell(s, i, "submitted")
    BY <1>2, <1>4, <2>1 DEF SubmitUpdate, At, ChecklistInv, ChecklistTypeOK
  <2>4. /\ w.status = "submitted" /\ w.sent = s
        /\ w.file = IF req[s].form = "file" THEN s ELSE At(i).file
    OBVIOUS
  <2> HIDE DEF w
  <2>5. row' \in [Owners -> [Types -> Rows \cup {None}]] /\ row'[i[1]][i[2]] = w
    BY <2>1, <2>2, <2>3 DEF ChecklistInv, ChecklistTypeOK
  <2>6. \A j \in Items : j # i => row'[j[1]][j[2]] = row[j[1]][j[2]]
    <3> SUFFICES ASSUME NEW j \in Items, j # i PROVE row'[j[1]][j[2]] = row[j[1]][j[2]]
      OBVIOUS
    <3>1. j[1] \in Owners /\ j[2] \in Types /\ (j[1] # i[1] \/ j[2] # i[2])
      BY <1>2 DEF Items
    <3> QED
      BY <2>1, <2>3, <3>1 DEF ChecklistInv, ChecklistTypeOK
  <2>7. At(i)' = w /\ \A j \in Items : j # i => At(j)' = At(j)
    BY <2>5, <2>6 DEF At
  <2>8. Submitted(s, i)
    BY <1>4, <2>2, <2>3, <2>4, <2>5, <2>7 DEF Submitted
  <2> QED
    BY <1>1, <1>2, <2>8
<1> QED
  BY <1>3, <1>4

(* What the UPDATE of a review does to the row of its item.                *)
Decided(s, i) ==
    /\ At(i).status = "submitted" /\ req' = Tell(s, i, "decided")
    /\ row' \in [Owners -> [Types -> Rows \cup {None}]]
    /\ At(i)' \in Rows /\ At(i)'.file = At(i).file
    /\ \A j \in Items : j # i => At(j)' = At(j)

LEMMA ReviewWrites ==
    ASSUME ChecklistInv, NEW s \in Reviews, ReviewWrite(s)
    PROVE  /\ req[s].at = "decide" /\ UNCHANGED <<now, team, types, disk>>
           /\ \E i \in Items :
                 /\ req[s].of = i /\ At(i) # None
                 /\ Decided(s, i) \/ (UNCHANGED row /\ req' = [req EXCEPT ![s] = Over])
<1>1. req[s].at = "decide" /\ UNCHANGED <<now, team, types, disk>>
  BY DEF ReviewWrite
<1>2. PICK i \in Items : req[s].of = i /\ At(i) # None
  BY <1>1 DEF ChecklistInv, ChecklistTypeOK, Requests, Jobs, SeenOrTold, Deciding
<1>3. CASE At(i).status # "submitted"
  BY <1>1, <1>2, <1>3 DEF ReviewWrite, Stop
<1>4. CASE At(i).status = "submitted"
  <2> DEFINE status == IF req[s].form = "approve" THEN "approved" ELSE "rejected"
             expires == IF req[s].days = None THEN None ELSE now + req[s].days
             w == [At(i) EXCEPT !.status = status, !.expires = expires]
  <2>1. At(i) \in Rows /\ i[1] \in Owners /\ i[2] \in Types /\ At(i) = row[i[1]][i[2]]
    BY <1>2, RowShape DEF ChecklistInv, At
  <2>2. status \in Statuses
    BY DEF Statuses
  <2>3. expires \in Nat \cup {None}
    <3>1. req[s].days \in Validity \cup {None} /\ now \in Nat
      BY RequirementAssumption DEF ChecklistInv, ChecklistTypeOK, Requests, Jobs
    <3>2. req[s].days # None => req[s].days \in Nat
      BY <3>1, RequirementAssumption
    <3>3. req[s].days # None => now + req[s].days \in Nat
      BY <3>1, <3>2
    <3> QED
      BY <3>3
  <2>4. /\ row' = [row EXCEPT ![i[1]][i[2]].status = status, ![i[1]][i[2]].expires = expires]
        /\ req' = Tell(s, i, "decided")
    BY <1>2, <1>4 DEF ReviewWrite
  <2> HIDE DEF status, expires
  <2>5. w \in Rows /\ w.file = At(i).file
    BY <2>1, <2>2, <2>3 DEF Rows
  <2>6. row' = [row EXCEPT ![i[1]][i[2]] = w]
    BY <2>1, <2>4 DEF ChecklistInv, ChecklistTypeOK
  <2> HIDE DEF w
  <2>7. row' \in [Owners -> [Types -> Rows \cup {None}]] /\ row'[i[1]][i[2]] = w
    BY <2>1, <2>5, <2>6 DEF ChecklistInv, ChecklistTypeOK
  <2>8. \A j \in Items : j # i => row'[j[1]][j[2]] = row[j[1]][j[2]]
    <3> SUFFICES ASSUME NEW j \in Items, j # i PROVE row'[j[1]][j[2]] = row[j[1]][j[2]]
      OBVIOUS
    <3>1. j[1] \in Owners /\ j[2] \in Types /\ (j[1] # i[1] \/ j[2] # i[2])
      BY <1>2 DEF Items
    <3> QED
      BY <2>1, <2>6, <3>1 DEF ChecklistInv, ChecklistTypeOK
  <2>9. At(i)' = w /\ \A j \in Items : j # i => At(j)' = At(j)
    BY <2>7, <2>8 DEF At
  <2>10. Decided(s, i)
    BY <1>4, <2>4, <2>5, <2>7, <2>9 DEF Decided
  <2> QED
    BY <1>1, <1>2, <2>10
<1> QED
  BY <1>3, <1>4

LEMMA ReviewSteps ==
    ASSUME ChecklistInv, NEW s \in Reviews,
           \/ \E v \in People, i \in Items, form \in {"approve", "reject"} :
                 ReviewLook(s, v, i, form)
           \/ ReviewBegin(s) \/ ReviewDays(s)
    PROVE  ChecklistInv'
<1>1. /\ s \in Requests /\ s \notin Submits /\ req \in [Requests -> Jobs]
      /\ disk \subseteq Files
  BY RequirementAssumption DEF Requests, ChecklistInv, ChecklistTypeOK
<1>2. ASSUME NEW v \in People, NEW i \in Items, NEW form \in {"approve", "reject"},
             ReviewLook(s, v, i, form)
      PROVE  ChecklistInv'
  <2> DEFINE n == [New EXCEPT !.at = "look", !.of = i, !.by = v, !.form = form,
                              !.seen = At(i).sent]
  <2>1. /\ At(i) \in Rows /\ At(i) # None /\ At(i).status = "submitted" /\ req[s].at = "new"
        /\ req' = [req EXCEPT ![s] = n] /\ UNCHANGED <<now, team, types, row, disk>>
    BY <1>2, RowShape DEF ReviewLook, Reviewable, ChecklistInv
  <2>2. /\ n \in Jobs
        /\ n.at = "look" /\ n.of = i /\ n.old = None /\ n.seen = At(i).sent
    BY <2>1 DEF New, Jobs, Rows
  <2>3. i # None
    BY RequirementAssumption
  <2> HIDE DEF n
  <2> QED
    BY <1>1, <2>1, <2>2, <2>3, RequestKeeps DEF Deciding
<1>3. ASSUME req[s].at \in Deciding, UNCHANGED <<now, team, types, row, disk>>,
             NEW at \in Deciding, NEW days \in Validity \cup {None},
             req' = [req EXCEPT ![s].at = at, ![s].days = days]
      PROVE  ChecklistInv'
  <2> DEFINE n == [req[s] EXCEPT !.at = at, !.days = days]
  <2>1. req[s] \in Jobs
    BY <1>1
  <2>2. /\ n \in Jobs
        /\ n.at = at /\ n.of = req[s].of /\ n.old = req[s].old /\ n.seen = req[s].seen
        /\ n.since = req[s].since
    <3>1. at \in {"look", "days", "decide"} /\ days \in Validity \cup {None}
      BY <1>3 DEF Deciding
    <3> QED
      BY <2>1, <3>1 DEF Jobs
  <2>3. req' = [req EXCEPT ![s] = n]
    BY <1>1, <1>3
  <2>4. /\ n.of # None /\ At(n.of) # None
        /\ \/ "decided" \in n.since
           \/ At(n.of).status = "submitted" /\ At(n.of).sent = n.seen
    BY <1>1, <1>3, <2>2 DEF ChecklistInv, ChecklistTypeOK, SeenOrTold, Deciding
  <2>5. n.at \notin {"new", "done"} /\ req[s].at # "done"
    BY <1>3, <2>2 DEF Deciding
  <2> HIDE DEF n
  <2> QED
    BY <1>1, <1>3, <2>2, <2>3, <2>4, <2>5, RequestKeeps
<1>4. CASE ReviewBegin(s)
  <2>1. req[s] \in Jobs
    BY <1>1
  <2>2. req[s].days \in Validity \cup {None}
    BY <2>1 DEF Jobs
  <2>3. PICK at \in Deciding : req' = [req EXCEPT ![s].at = at]
    BY <1>4 DEF ReviewBegin, Goto, Deciding
  <2>4. req' = [req EXCEPT ![s].at = at, ![s].days = req[s].days]
    BY <1>1, <2>1, <2>3 DEF Jobs
  <2> QED
    BY <1>3, <1>4, <2>2, <2>3, <2>4 DEF ReviewBegin, Deciding
<1>5. CASE ReviewDays(s)
  <2>1. UNCHANGED <<now, team, types, row, disk>> /\ req[s].at = "days"
    BY <1>5 DEF ReviewDays
  <2>2. PICK i \in Items : req[s].of = i
    BY <1>1, <2>1 DEF ChecklistInv, ChecklistTypeOK, Jobs
  <2>3. CASE At(i).status = "submitted"
    <3>1. req' = [req EXCEPT ![s].at = "decide", ![s].days = types[i[2]].days]
      BY <1>5, <2>2, <2>3 DEF ReviewDays
    <3>2. At(i) # None
      BY <1>1, <2>1, <2>2 DEF ChecklistInv, SeenOrTold, Deciding
    <3>3. types[i[2]] \in TypeRows
      BY <3>2, RowShape DEF ChecklistInv, TypesKnown
    <3>4. types[i[2]].days \in Validity \cup {None}
      BY <3>3 DEF TypeRows
    <3> QED
      BY <1>3, <2>1, <3>1, <3>4 DEF Deciding
  <2>4. CASE At(i).status # "submitted"
    BY <1>1, <1>5, <2>1, <2>2, <2>4, OverOK DEF ReviewDays, Stop
  <2> QED
    BY <2>3, <2>4
<1> QED
  BY <1>2, <1>4, <1>5

(* A dropped handler.                                                      *)
LEMMA AbortStep ==
    ASSUME ChecklistInv, NEW s \in Requests, Abort(s)
    PROVE  ChecklistInv'
<1>1. /\ UNCHANGED <<now, team, types, row>> /\ req' = [req EXCEPT ![s] = Over]
      /\ disk \subseteq Files
      /\ \/ UNCHANGED disk
         \/ disk' = disk \ {req[s].old}
         \/ req[s].at = "store" /\ disk' = disk \cup {s}
  BY DEF Abort, Stop, ChecklistInv, ChecklistTypeOK
<1>2. req[s].at = "store" => s \in Files
  BY DEF ChecklistInv, StepsApart, Requests, Deciding, Files
<1> QED
  BY <1>1, <1>2, OverOK

LEMMA ChecklistStep ==
    ASSUME ChecklistInv, [ChecklistNext]_checklistVars
    PROVE  ChecklistInv'
<1>1. CASE \/ Tick
           \/ \E t \in Rosters : Reassign(t)
           \/ \E t \in Types : \/ \E new \in TypeRows : CreateType(t, new) \/ UpdateType(t, new)
                               \/ SeedType(t)
           \/ \E e \in Owners : Page(e)
  BY <1>1, AroundStep
<1>2. ASSUME NEW s \in Submits, SubmitUpdate(s) PROVE ChecklistInv'
  <2>1. s \in Requests /\ req[s].at = "update" /\ UNCHANGED <<now, team, types, disk>>
        /\ disk \subseteq Files
    BY <1>2, SubmitWrites DEF Requests, ChecklistInv, ChecklistTypeOK
  <2>2. PICK i \in Items :
           /\ req[s].of = i /\ At(i) # None
           /\ Submitted(s, i) \/ (UNCHANGED row /\ req' = [req EXCEPT ![s] = Over])
    BY <1>2, SubmitWrites
  <2>3. CASE Submitted(s, i)
    <3>1. PICK w \in Rows : w = At(i)'
      BY <2>3 DEF Submitted
    <3>2. w.file = At(i).file \/ w.file = s
      BY <2>3, <3>1 DEF Submitted
    <3> QED
      BY <2>1, <2>2, <2>3, <3>1, <3>2, RowKeeps DEF Submitted
  <2>4. CASE UNCHANGED row /\ req' = [req EXCEPT ![s] = Over]
    BY <2>1, <2>4, OverOK
  <2> QED
    BY <2>2, <2>3, <2>4
<1>3. ASSUME NEW s \in Reviews, ReviewWrite(s) PROVE ChecklistInv'
  <2>1. s \in Requests /\ req[s].at = "decide" /\ UNCHANGED <<now, team, types, disk>>
        /\ disk \subseteq Files
    BY <1>3, ReviewWrites DEF Requests, ChecklistInv, ChecklistTypeOK
  <2>2. PICK i \in Items :
           /\ req[s].of = i /\ At(i) # None
           /\ Decided(s, i) \/ (UNCHANGED row /\ req' = [req EXCEPT ![s] = Over])
    BY <1>3, ReviewWrites
  <2>3. CASE Decided(s, i)
    <3>1. PICK w \in Rows : w = At(i)'
      BY <2>3 DEF Decided
    <3>2. w.file = At(i).file
      BY <2>3, <3>1 DEF Decided
    <3> QED
      BY <2>1, <2>2, <2>3, <3>1, <3>2, RowKeeps DEF Decided
  <2>4. CASE UNCHANGED row /\ req' = [req EXCEPT ![s] = Over]
    BY <2>1, <2>4, OverOK
  <2> QED
    BY <2>2, <2>3, <2>4
<1>4. CASE UNCHANGED checklistVars
  <2>1. ChecklistTypeOK' /\ now \in Nat
    BY <1>4, RequirementAssumption DEF checklistVars, ChecklistInv, ChecklistTypeOK
  <2>2. \A i \in Items : At(i)' = At(i)
    BY <1>4 DEF checklistVars, At
  <2>3. \A i \in Items : At(i) # None => types[i[2]] # None
    BY DEF ChecklistInv, TypesKnown
  <2>4. UNCHANGED <<now, types, disk, req>> /\ now' >= now
    BY <1>4, <2>1 DEF checklistVars
  <2> QED
    BY <2>1, <2>2, <2>3, <2>4, AroundKeeps
<1> QED
  BY <1>1, <1>2, <1>3, <1>4, SubmitSteps, ReviewSteps, AbortStep DEF ChecklistNext

LEMMA ChecklistInvHolds == ChecklistSpec => []ChecklistInv
BY ChecklistInitially, ChecklistStep, PTL DEF ChecklistSpec

(* The queue, the page, the progress and the notifications agree at every  *)
(* moment, for any roster, types and requests                              *)
(* (requirements.rs:363-424, onboarding.rs:112-156).                       *)
THEOREM ListsTheorem == ChecklistSpec => []ListsAgree
<1>1. ASSUME ChecklistInv PROVE ListsAgree
  <2>1. \A i \in Items : /\ At(i) \in Rows \cup {None}
                         /\ At(i) # None => types[i[2]] \in TypeRows /\ types[i[2]] # None
    BY <1>1, RowShape DEF ChecklistInv, TypesKnown
  <2>2. now \in Nat
    BY <1>1, RequirementAssumption DEF ChecklistInv, ChecklistTypeOK
  <2>3. \A v \in People : team[v].active /\ ManagesTeam(team, v) =>
          /\ {i \in Items : Reviewable(v, i)} \subseteq Queue(v)
          /\ \A i \in Queue(v) : Reviewable(v, i) \/ ~team[i[1]].active \/ ~types[i[2]].active
    BY <2>1, Zenon DEF Queue, Pending, Reviewable, CanManage
  <2>4. ASSUME NEW e \in Owners, NEW i \in Shown(e)
        PROVE  \/ i \in Met(e) /\ ~CanSubmit(At(i))
               \/ i \notin Met(e) /\ (i \in Pending \/ CanSubmit(At(i)) \/ At(i).expires = now)
    <3>1. i \in Items /\ At(i) \in Rows /\ At(i) # None
      BY <2>1, <2>4 DEF Shown
    <3>2. At(i).status \in Statuses /\ At(i).expires \in Nat \cup {None}
      BY <3>1 DEF Rows
    <3>3. None \notin Nat
      BY RequirementAssumption
    <3> QED
      BY <2>2, <2>4, <3>1, <3>2, <3>3 DEF Met, Pending, CanSubmit, Expired, Statuses
  <2>5. ASSUME NEW e \in Owners, NEW i \in Warned(e), Expired(At(i))
        PROVE  CanSubmit(At(i)) /\ (i \in Shown(e) \/ ~types[i[2]].active)
    BY <2>1, <2>5 DEF Warned, CanSubmit, Shown
  <2> QED
    BY <2>3, <2>4, <2>5 DEF ListsAgree
<1> QED
  BY <1>1, ChecklistInvHolds, PTL

(* How a step that is none of a submission or review leaves the rows.      *)
LEMMA RowsMove ==
    ASSUME ChecklistInv, [ChecklistNext]_checklistVars
    PROVE  \/ \A i \in Items : At(i)' = At(i) \/ (At(i) = None /\ At(i)' = Missing)
           \/ \E s \in Submits, i \in Items :
                 /\ req[s].at = "update" /\ req[s].of = i /\ At(i) # None /\ Submitted(s, i)
           \/ \E s \in Reviews, i \in Items :
                 /\ req[s].at = "decide" /\ req[s].of = i /\ At(i) # None /\ Decided(s, i)
<1>1. ASSUME UNCHANGED row PROVE \A i \in Items : At(i)' = At(i)
  BY <1>1 DEF At
<1>2. ASSUME NEW s \in Submits, SubmitUpdate(s)
      PROVE  \/ UNCHANGED row
             \/ \E i \in Items :
                   /\ req[s].at = "update" /\ req[s].of = i /\ At(i) # None /\ Submitted(s, i)
  BY <1>2, SubmitWrites
<1>3. ASSUME NEW s \in Reviews, ReviewWrite(s)
      PROVE  \/ UNCHANGED row
             \/ \E i \in Items :
                   /\ req[s].at = "decide" /\ req[s].of = i /\ At(i) # None /\ Decided(s, i)
  BY <1>3, ReviewWrites
<1>4. ASSUME NEW s \in Submits,
             \/ \E i \in Items, form \in {"note", "file", "invalid"} : SubmitBegin(s, i, form)
             \/ SubmitExists(s) \/ SubmitRemove(s) \/ SubmitStore(s)
      PROVE  UNCHANGED row
  BY <1>4 DEF SubmitBegin, SubmitExists, SubmitRemove, SubmitStore
<1>5. ASSUME NEW s \in Reviews,
             \/ \E v \in People, i \in Items, form \in {"approve", "reject"} :
                   ReviewLook(s, v, i, form)
             \/ ReviewBegin(s) \/ ReviewDays(s)
      PROVE  UNCHANGED row
  BY <1>5 DEF ReviewLook, ReviewBegin, ReviewDays
<1>6. ASSUME NEW s \in Requests, Abort(s) PROVE UNCHANGED row
  BY <1>6 DEF Abort
<1>7. CASE \/ Tick
           \/ \E t \in Rosters : Reassign(t)
           \/ \E t \in Types : \/ \E new \in TypeRows : CreateType(t, new) \/ UpdateType(t, new)
                               \/ SeedType(t)
           \/ \E e \in Owners : Page(e)
  BY <1>7, AroundStep
<1>8. CASE \/ \E s \in Submits :
                 \/ \E i \in Items, form \in {"note", "file", "invalid"} : SubmitBegin(s, i, form)
                 \/ SubmitExists(s) \/ SubmitRemove(s) \/ SubmitStore(s) \/ SubmitUpdate(s)
  BY <1>1, <1>2, <1>4, <1>8
<1>9. CASE \E s \in Reviews :
              \/ \E v \in People, i \in Items, form \in {"approve", "reject"} :
                    ReviewLook(s, v, i, form)
              \/ ReviewBegin(s) \/ ReviewDays(s) \/ ReviewWrite(s)
  BY <1>1, <1>3, <1>5, <1>9
<1>10. CASE UNCHANGED checklistVars
  BY <1>1, <1>10 DEF checklistVars
<1> QED
  BY <1>1, <1>6, <1>7, <1>8, <1>9, <1>10 DEF ChecklistNext

(* The row written is that of the item of the request.                     *)
LEMMA DecisionsStep ==
    ASSUME ChecklistInv, [ChecklistNext]_checklistVars, NEW i \in Items,
           At(i) # None, At(i)' # At(i)
    PROVE  /\ At(i).status = "approved" => Expired(At(i))
           /\ At(i)'.status \in {"approved", "rejected"} =>
                 \E s \in Reviews : /\ req[s].at = "decide" /\ req[s].of = i
                                    /\ req[s].seen = At(i).sent \/ "decided" \in req[s].since
<1>1. CASE \E s \in Submits, j \in Items :
              req[s].at = "update" /\ req[s].of = j /\ At(j) # None /\ Submitted(s, j)
  <2>1. PICK s \in Submits, j \in Items : Submitted(s, j)
    BY <1>1
  <2>2. j = i
    BY <2>1 DEF Submitted
  <2> QED
    BY <2>1, <2>2 DEF Submitted, CanSubmit
<1>2. CASE \E s \in Reviews, j \in Items :
              req[s].at = "decide" /\ req[s].of = j /\ At(j) # None /\ Decided(s, j)
  <2>1. PICK s \in Reviews, j \in Items : req[s].at = "decide" /\ req[s].of = j /\ Decided(s, j)
    BY <1>2
  <2>2. j = i
    BY <2>1 DEF Decided
  <2>3. \/ "decided" \in req[s].since
        \/ At(i).sent = req[s].seen
    BY <2>1, <2>2 DEF ChecklistInv, SeenOrTold, Deciding
  <2> QED
    BY <2>1, <2>2, <2>3 DEF Decided
<1> QED
  BY <1>1, <1>2, RowsMove

(* An approval stands until it expires, and a decision is about what its   *)
(* reviewer saw unless another review overlapped, whoever submits and      *)
(* reviews (requirements.rs:225-262, 291-338).                             *)
THEOREM DecisionsTheorem == ChecklistSpec => DecisionsStand
<1>1. ASSUME ChecklistInv, [ChecklistNext]_checklistVars
      PROVE  [\A i \in Items : At(i) # None /\ At(i)' # At(i) =>
          /\ At(i).status = "approved" => Expired(At(i))
          /\ At(i)'.status \in {"approved", "rejected"} =>
                \E s \in Reviews : /\ req[s].at = "decide" /\ req[s].of = i
                                   /\ req[s].seen = At(i).sent \/ "decided" \in req[s].since]_checklistVars
  BY <1>1, DecisionsStep
<1> QED
  BY <1>1, ChecklistInvHolds, PTL DEF ChecklistSpec, DecisionsStand

LEMMA FilesStep ==
    ASSUME ChecklistInv, [ChecklistNext]_checklistVars
    PROVE  /\ \A f \in disk \ disk' : \E s \in Submits :
                 /\ req[s].at = "remove" /\ req[s].old = f
                 /\ CanSubmit(At(req[s].of)) \/ "submitted" \in req[s].since
           /\ \A i \in Items : At(i)' # At(i) /\ At(i)' # Missing /\ At(i)'.file # At(i).file =>
                 At(i)'.file \in disk /\ At(i)'.sent = At(i)'.file
<1>1. ASSUME NEW s \in Requests, req[s].at = "remove", disk' = disk \ {req[s].old},
             NEW f \in disk \ disk'
      PROVE  \E q \in Submits :
                 /\ req[q].at = "remove" /\ req[q].old = f
                 /\ CanSubmit(At(req[q].of)) \/ "submitted" \in req[q].since
  <2>1. s \in Submits
    BY <1>1 DEF ChecklistInv, StepsApart, Requests, Deciding
  <2>2. CanSubmit(At(req[s].of)) \/ "submitted" \in req[s].since
    BY <1>1, <2>1 DEF ChecklistInv, OpenOrTold, Sending
  <2>3. req[s].old = f
    BY <1>1
  <2> QED
    BY <1>1, <2>1, <2>2, <2>3
<1>2. \/ disk \subseteq disk'
      \/ \E s \in Requests : req[s].at = "remove" /\ disk' = disk \ {req[s].old}
  BY DEF ChecklistNext, checklistVars, Tick, Reassign, CreateType, UpdateType, SeedType, Page,
         SubmitBegin, SubmitExists, SubmitRemove, SubmitStore, SubmitUpdate, ReviewLook,
         ReviewBegin, ReviewDays, ReviewWrite, Abort, Requests
<1>3. ASSUME NEW i \in Items, At(i)' # At(i), At(i)' # Missing, At(i)'.file # At(i).file
      PROVE  At(i)'.file \in disk /\ At(i)'.sent = At(i)'.file
  <2>1. CASE \E s \in Submits, j \in Items :
                req[s].at = "update" /\ req[s].of = j /\ At(j) # None /\ Submitted(s, j)
    <3>1. PICK s \in Submits, j \in Items : req[s].at = "update" /\ Submitted(s, j)
      BY <2>1
    <3>2. j = i
      BY <1>3, <3>1 DEF Submitted
    <3>3. At(i)'.file = s /\ At(i)'.sent = s /\ req[s].form = "file"
      BY <1>3, <3>1, <3>2 DEF Submitted
    <3> QED
      BY <3>1, <3>3 DEF ChecklistInv, OwnFile
  <2>2. CASE \E s \in Reviews, j \in Items :
                req[s].at = "decide" /\ req[s].of = j /\ At(j) # None /\ Decided(s, j)
    BY <1>3, <2>2 DEF Decided
  <2> QED
    BY <1>3, <2>1, <2>2, RowsMove
<1> QED
  BY <1>1, <1>2, <1>3

(* A stored file goes away only by a submission of an open row, or of one  *)
(* that another submission overtook, and a row names the file its          *)
(* submission stored (requirements.rs:193-219, uploads.rs:269-281).        *)
THEOREM FilesTheorem == ChecklistSpec => FilesKept
<1>1. ASSUME ChecklistInv, [ChecklistNext]_checklistVars
      PROVE  [/\ \A f \in disk \ disk' : \E s \in Submits :
                    /\ req[s].at = "remove" /\ req[s].old = f
                    /\ CanSubmit(At(req[s].of)) \/ "submitted" \in req[s].since
              /\ \A i \in Items : At(i)' # At(i) /\ At(i)' # Missing /\ At(i)'.file # At(i).file =>
                    At(i)'.file \in disk /\ At(i)'.sent = At(i)'.file]_checklistVars
  BY <1>1, FilesStep
<1> QED
  BY <1>1, ChecklistInvHolds, PTL DEF ChecklistSpec, FilesKept
=============================================================================
