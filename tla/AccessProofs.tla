---------------------------- MODULE AccessProofs ----------------------------
(***************************************************************************)
(* Proofs about the ways in: sessions and snapshots (Access), requests for *)
(* a PIN (PinReset) and the limits on attempts (RateLimit).                *)
(***************************************************************************)
EXTENDS Access, PinReset, RateLimit, FiniteSetTheorems, TLAPS

-----------------------------------------------------------------------------
(* Access.  What is known of a row when something stands for it: a session,*)
(* a snapshot or a request; rows are never removed.                        *)
Known ==
    /\ \A b \in Browsers : cookie[b] # None \/ job[b].at # "idle" => emp[Owner[b]] # None
    /\ \A b \in Browsers : job[b].target # None => emp[job[b].target] # None
    /\ \A p \in Processes, e \in People : cache[p][e] # None => emp[e] # None
    /\ emp[Admin] # None

(* A fetched row is the present one, or the process is excused for it.     *)
FetchExplained ==
    \A b \in Browsers : job[b].at \in {"put", "putAgain"} =>
        job[b].snap = emp[Owner[b]] \/ Owner[b] \in excused[job[b].proc]

(* While a request is known to be good or bad, nothing puts the snapshots  *)
(* of its process in doubt.                                                *)
Undoubted(b) ==
    job[b].standing \in {"good", "bad"} =>
        Owner[b] \notin excused[job[b].proc] /\ ~Clearing(job[b].proc, Owner[b])

Looking == {"read", "put", "drop", "again", "readAgain", "putAgain"}

GoodGoesIn(b) ==
    job[b].standing = "good" =>
        /\ GoodSession(b)
        /\ job[b].at \in {"read", "put", "run"}
        /\ job[b].at \in {"put", "run"} => job[b].snap = emp[Owner[b]]

BadStaysOut(b) ==
    job[b].standing = "bad" =>
        /\ ~GoodSession(b)
        /\ job[b].at \in Looking
        /\ job[b].at \in {"put", "putAgain"} => job[b].snap = emp[Owner[b]]
        /\ job[b].at \in {"drop", "again", "readAgain", "putAgain"} => emp[Owner[b]].active

(* Every fetch that began since a good session was distrusted is of the    *)
(* present row, so the second look finds that one or nothing.              *)
DistrustedGoesIn(b) ==
    job[b].standing = "distrusted" =>
        /\ GoodSession(b) /\ job[b].at \in Looking \cup {"run"}
        /\ \A c \in Holders(job[b].proc, Owner[b]) : job[c].snap = emp[Owner[b]]
        /\ job[b].at \in {"put", "putAgain"} => job[b].snap = emp[Owner[b]]
        /\ job[b].at = "again" => cache[job[b].proc][Owner[b]] \in {None, emp[Owner[b]]}

(* A request that is to deactivate the last administrator saw another one. *)
OtherAdmin(b) ==
    job[b].at = "deactivate" /\ job[b].alone =>
        job[b].target \notin ActiveAdmins(emp) \/ \E a \in ActiveAdmins(emp) : a # job[b].target

RequestOK(b) ==
    Undoubted(b) /\ GoodGoesIn(b) /\ BadStaysOut(b) /\ DistrustedGoesIn(b) /\ OtherAdmin(b)

AccessInv ==
    /\ TypeOK /\ Known /\ StaleExplained /\ FetchExplained
    /\ \A b \in Browsers : RequestOK(b)

-----------------------------------------------------------------------------
(* The requests: their types, and what the helpers make of them.           *)

ChangeSteps == {"write", "count", "deactivate", "activate", "clear", "leave"}

LEMMA IdleFacts ==
    /\ Idle \in Jobs /\ JobShape(Idle)
    /\ Idle.at = "idle" /\ Idle.proc = None /\ Idle.target = None
    /\ Idle.standing = "unknown" /\ ~Idle.alone
BY DEF Idle, Jobs, Steps, Standings, JobShape

LEMMA ThenFacts ==
    ASSUME NEW b \in Browsers, job[b].proc \in Processes, NEW e \in People, NEW at \in ChangeSteps
    PROVE  LET j == Then(b, at, e) IN
           /\ j \in Jobs /\ JobShape(j)
           /\ j.at = at /\ j.proc = job[b].proc /\ j.target = e
           /\ j.standing = "unknown" /\ ~j.alone
<1>1. job[b].proc # None /\ e # None
  BY AccessAssumption
<1>2. at \in Steps
  BY DEF ChangeSteps, Steps
<1>3. /\ Then(b, at, e) \in Jobs
      /\ Then(b, at, e).at = at /\ Then(b, at, e).proc = job[b].proc
      /\ Then(b, at, e).target = e
      /\ Then(b, at, e).standing = Idle.standing /\ Then(b, at, e).alone = Idle.alone
  BY <1>2, IdleFacts DEF Then, Jobs
<1> QED
  BY <1>1, <1>3, IdleFacts DEF ChangeSteps, JobShape

LEMMA NoticedFacts ==
    ASSUME TypeOK, NEW c \in Browsers, NEW e, NEW row
    PROVE  LET j == Noticed(c, e, row) IN
           /\ j \in Jobs /\ JobShape(j)
           /\ j.at = job[c].at /\ j.proc = job[c].proc /\ j.snap = job[c].snap
           /\ j.target = job[c].target
           /\ j.standing = IF Owner[c] = e THEN "unknown" ELSE job[c].standing
           /\ j.alone => job[c].alone /\ ActiveAdmins([emp EXCEPT ![e] = row]) = ActiveAdmins(emp)
<1>1. job[c] \in Jobs /\ JobShape(job[c])
  BY DEF TypeOK
<1> DEFINE same == ActiveAdmins([emp EXCEPT ![e] = row]) = ActiveAdmins(emp)
           standing == IF Owner[c] = e THEN "unknown" ELSE job[c].standing
           alone == job[c].alone /\ same
           j == [job[c] EXCEPT !.standing = standing, !.alone = alone]
<1>2. same \in BOOLEAN
  OBVIOUS
<1>3. Noticed(c, e, row) = j
  BY DEF Noticed
<1>4. alone \in BOOLEAN /\ (alone => job[c].alone /\ same)
  BY <1>1, <1>2 DEF Jobs
<1>5. standing \in Standings
  BY <1>1 DEF Standings, Jobs
<1>6. standing = IF Owner[c] = e THEN "unknown" ELSE job[c].standing
  OBVIOUS
<1> HIDE DEF standing, alone
<1>7. /\ j \in Jobs
      /\ j.at = job[c].at /\ j.proc = job[c].proc /\ j.snap = job[c].snap
      /\ j.target = job[c].target /\ j.standing = standing /\ j.alone = alone
  BY <1>1, <1>4, <1>5 DEF Jobs
<1> HIDE DEF j
<1>8. JobShape(j)
  BY <1>1, <1>7 DEF JobShape
<1> QED
  BY <1>3, <1>4, <1>6, <1>7, <1>8

LEMMA NoNone == None \notin Rows /\ None \notin Processes /\ None \notin People /\ None \notin Browsers
                /\ None \notin Nat
BY AccessAssumption

\* What follows from a snapshot, by what it says.
LEMMA SettleCases ==
    ASSUME NEW b \in Browsers, NEW request, NEW snap, NEW first \in BOOLEAN,
           Settle(b, request, snap, first)
    PROVE  \/ /\ job' = [job EXCEPT ![b] = Idle] /\ cookie' = [cookie EXCEPT ![b] = None]
              /\ first => ~snap.active
              /\ ~first => snap.version # cookie[b]
           \/ /\ job' = [job EXCEPT ![b] = [request EXCEPT !.at = "run", !.snap = snap]]
              /\ cookie' = cookie
              /\ snap.version = cookie[b] /\ (first => snap.active)
           \/ /\ job' = [job EXCEPT ![b] = [request EXCEPT !.at = "drop", !.snap = None]]
              /\ cookie' = cookie
              /\ first /\ snap.active /\ snap.version # cookie[b]
<1>1. CASE first /\ ~snap.active
  BY <1>1 DEF Settle, Verdict
<1>2. CASE ~(first /\ ~snap.active) /\ snap.version = cookie[b]
  BY <1>2 DEF Settle, Verdict
<1>3. CASE ~(first /\ ~snap.active) /\ snap.version # cookie[b]
  BY <1>3 DEF Settle, Verdict
<1> QED
  BY <1>1, <1>2, <1>3

(* A change writes a row, keeps every other one, and leaves the requests   *)
(* where they are.                                                         *)
LEMMA ChangeTypes ==
    ASSUME TypeOK, NEW b \in Browsers \cup {None}, NEW p, NEW e \in People, NEW row \in Rows,
           NEW next \in Jobs, JobShape(next), Change(b, p, e, row, next)
    PROVE  TypeOK'
<1>1. emp' \in [People -> Rows \cup {None}]
  BY DEF TypeOK, Change
<1>2. excused' \in [Processes -> SUBSET People]
  BY DEF TypeOK, Change
<1>3. /\ job' \in [Browsers -> Jobs]
      /\ \A c \in Browsers : JobShape(job'[c])
  BY NoticedFacts DEF Change
<1> QED
  BY <1>1, <1>2, <1>3 DEF TypeOK, Change, JobShape

-----------------------------------------------------------------------------
(* Types.                                                                  *)

LEMMA RowFacts ==
    /\ \A role \in Given : NewRow(role) \in Rows
    /\ \A row \in Rows : /\ row # None
                         /\ Reset(row) \in Rows
                         /\ [row EXCEPT !.must = FALSE] \in Rows
                         /\ [row EXCEPT !.version = @ + 1] \in Rows
                         /\ [Reset(row) EXCEPT !.active = TRUE, !.role = "admin"] \in Rows
                         /\ \A active \in BOOLEAN : [row EXCEPT !.active = active] \in Rows
                         /\ \A role \in Given : [row EXCEPT !.role = role] \in Rows
<1>1. "admin" \in Given
  BY AccessAssumption
<1>2. ASSUME NEW row \in Rows
      PROVE  Reset(row) \in Rows
  <2>1. row.version + 1 \in Nat
    BY DEF Rows
  <2> DEFINE version == row.version + 1
  <2>2. Reset(row) = [row EXCEPT !.must = TRUE, !.version = version]
    BY DEF Reset
  <2> HIDE DEF version
  <2> QED
    BY <2>1, <2>2 DEF Rows, version
<1>3. ASSUME NEW row \in Rows
      PROVE  [Reset(row) EXCEPT !.active = TRUE, !.role = "admin"] \in Rows
  <2>1. Reset(row) \in Rows
    BY <1>2
  <2> QED
    BY <1>1, <2>1 DEF Rows
<1>4. ASSUME NEW row \in Rows
      PROVE  [row EXCEPT !.version = @ + 1] \in Rows
  BY DEF Rows
<1>5. \A role \in Given : NewRow(role) \in Rows
  BY DEF NewRow, Rows
<1>6. ASSUME NEW row \in Rows
      PROVE  /\ row # None
             /\ [row EXCEPT !.must = FALSE] \in Rows
             /\ \A active \in BOOLEAN : [row EXCEPT !.active = active] \in Rows
             /\ \A role \in Given : [row EXCEPT !.role = role] \in Rows
  <2>1. row # None
    BY NoNone
  <2> QED
    BY <2>1 DEF Rows
<1> QED
  BY <1>2, <1>3, <1>4, <1>5, <1>6

\* What a step of one browser's request needs to keep the types.
LEMMA JobTypes ==
    ASSUME TypeOK, NEW b \in Browsers, NEW next \in Jobs, JobShape(next),
           job' = [job EXCEPT ![b] = next]
    PROVE  job' \in [Browsers -> Jobs] /\ \A c \in Browsers : JobShape(job'[c])
BY DEF TypeOK, JobShape

LEMMA SettleTypes ==
    ASSUME TypeOK, NEW b \in Browsers, NEW request \in Jobs, request.proc # None,
           NEW snap \in Rows, NEW first \in BOOLEAN, Settle(b, request, snap, first)
    PROVE  /\ job' \in [Browsers -> Jobs] /\ \A c \in Browsers : JobShape(job'[c])
           /\ cookie' \in [Browsers -> Nat \cup {None}]
<1>1. [request EXCEPT !.at = "run", !.snap = snap] \in Jobs
      /\ JobShape([request EXCEPT !.at = "run", !.snap = snap])
  BY NoNone DEF Jobs, Steps, JobShape
<1>2. [request EXCEPT !.at = "drop", !.snap = None] \in Jobs
      /\ JobShape([request EXCEPT !.at = "drop", !.snap = None])
  BY NoNone DEF Jobs, Steps, JobShape
<1>3. cookie' \in [Browsers -> Nat \cup {None}]
  <2>1. cookie' = cookie \/ cookie' = [cookie EXCEPT ![b] = None]
    BY SettleCases
  <2> QED
    BY <2>1 DEF TypeOK
<1> DEFINE verdict == Verdict(b, snap, first)
<1>4. CASE verdict = "refused"
  <2>1. job' = [job EXCEPT ![b] = Idle]
    BY <1>4 DEF Settle
  <2> QED
    BY <1>3, <2>1, JobTypes, IdleFacts
<1>5. CASE verdict = "run"
  <2> DEFINE next == [request EXCEPT !.at = "run", !.snap = snap]
  <2>1. next \in Jobs /\ JobShape(next) /\ job' = [job EXCEPT ![b] = next]
    BY <1>1, <1>5 DEF Settle
  <2> HIDE DEF next
  <2> QED
    BY <1>3, <2>1, JobTypes
<1>6. CASE verdict = "drop"
  <2> DEFINE next == [request EXCEPT !.at = "drop", !.snap = None]
  <2>1. next \in Jobs /\ JobShape(next) /\ job' = [job EXCEPT ![b] = next]
    BY <1>2, <1>6 DEF Settle
  <2> HIDE DEF next
  <2> QED
    BY <1>3, <2>1, JobTypes
<1>7. verdict \in {"refused", "run", "drop"}
  BY DEF Verdict
<1> QED
  BY <1>4, <1>5, <1>6, <1>7

(* The request of b took a step and no row changed.                        *)
LEMMA OneRequestStep ==
    ASSUME AccessInv, TypeOK', NEW b \in Browsers, NEW next, UNCHANGED emp,
           job' = [job EXCEPT ![b] = next],
           \A c \in Browsers \ {b} : cookie'[c] = cookie[c],
           next.at \notin {"clear", "leave"},
           next.at \in {"put", "putAgain"} => next.snap = emp[Owner[b]],
           next.target # None => emp[next.target] # None,
           next.at # "idle" \/ cookie'[b] # None => emp[Owner[b]] # None,
           \A p \in Processes, e \in People :
              \/ cache'[p][e] \in {None, cache[p][e]}
              \/ /\ job[b].at \in {"put", "putAgain"} /\ p = job[b].proc /\ e = Owner[b]
                 /\ cache'[p][e] = job[b].snap,
           \A p \in Processes, e \in People : e \in excused'[p] =>
              \/ e \in excused[p]
              \/ p = job[b].proc /\ e = job[b].target /\ job[b].at \in {"clear", "leave"},
           \A p \in Processes, e \in People : e \in excused[p] =>
              e \in excused'[p] \/ (cache'[p][e] = None /\ Holders(p, e) = {}),
           job[b].at \in {"clear", "leave"} =>
              \/ cache'[job[b].proc][job[b].target] = None
              \/ job[b].target \in excused'[job[b].proc],
           RequestOK(b)'
    PROVE  AccessInv'
<1>t. /\ job \in [Browsers -> Jobs] /\ job' \in [Browsers -> Jobs]
      /\ \A c \in Browsers : Owner[c] \in People /\ JobShape(job[c]) /\ JobShape(job'[c])
  BY AccessAssumption DEF AccessInv, TypeOK, JobShape
<1>j. /\ job'[b] = next
      /\ \A c \in Browsers \ {b} : job'[c] = job[c]
  BY <1>t
<1>1. Known'
  <2>1. \A c \in Browsers : cookie'[c] # None \/ job'[c].at # "idle" => emp[Owner[c]] # None
    BY <1>j DEF AccessInv, Known
  <2>2. \A c \in Browsers : job'[c].target # None => emp[job'[c].target] # None
    BY <1>j DEF AccessInv, Known
  <2>3. \A p \in Processes, e \in People : cache'[p][e] # None => emp[e] # None
    BY DEF AccessInv, Known
  <2>4. emp'[Admin] # None
    BY DEF AccessInv, Known
  <2> QED
    BY <2>1, <2>2, <2>3, <2>4 DEF Known
<1>2. \A p \in Processes, e \in People : Clearing(p, e)' =>  Clearing(p, e)
  BY <1>j DEF Clearing
<1>3. \A p \in Processes, e \in People : Clearing(p, e) =>
         \/ Clearing(p, e)'
         \/ p = job[b].proc /\ e = job[b].target /\ job[b].at \in {"clear", "leave"}
  BY <1>j DEF Clearing
<1>4. StaleExplained'
  <2> SUFFICES ASSUME NEW p \in Processes, NEW e \in People, cache'[p][e] \notin {None, emp[e]}
               PROVE  e \in excused'[p] \/ Clearing(p, e)'
    BY DEF StaleExplained
  <2>1. CASE cache'[p][e] = cache[p][e]
    <3>1. e \in excused[p] \/ Clearing(p, e)
      BY <2>1 DEF AccessInv, StaleExplained
    <3> QED
      BY <3>1, <1>3
  <2>2. CASE /\ job[b].at \in {"put", "putAgain"} /\ p = job[b].proc /\ e = Owner[b]
             /\ cache'[p][e] = job[b].snap
    <3>1. e \in excused[p]
      BY <2>2 DEF AccessInv, FetchExplained
    <3> QED
      BY <3>1
  <2> QED
    BY <2>1, <2>2
<1>5. FetchExplained'
  <2> SUFFICES ASSUME NEW c \in Browsers, job'[c].at \in {"put", "putAgain"}, job'[c].snap # emp[Owner[c]]
               PROVE  Owner[c] \in excused'[job'[c].proc]
    BY DEF FetchExplained
  <2>1. c # b /\ job'[c] = job[c]
    BY <1>j
  <2>2. Owner[c] \in excused[job[c].proc] /\ job[c].proc \in Processes
    BY <2>1, <1>t DEF AccessInv, FetchExplained, JobShape, Jobs
  <2>3. c \in Holders(job[c].proc, Owner[c])
    BY <2>1 DEF Holders
  <2> QED
    BY <2>1, <2>2, <2>3, <1>t
<1>6. ASSUME NEW c \in Browsers \ {b}
      PROVE  RequestOK(c)'
  <2> DEFINE p == job[c].proc
             e == Owner[c]
  <2>0. job'[c] = job[c] /\ cookie'[c] = cookie[c] /\ RequestOK(c)
    BY <1>6, <1>j DEF AccessInv
  <2>1. GoodSession(c)' = GoodSession(c)
    BY <2>0 DEF GoodSession
  <2>3. Undoubted(c)'
    <3> SUFFICES ASSUME job[c].standing \in {"good", "bad"}
                 PROVE  e \notin excused'[p] /\ ~Clearing(p, e)'
      BY <2>0 DEF Undoubted
    <3>1. e \notin excused[p] /\ ~Clearing(p, e) /\ p \in Processes /\ e \in People
      BY <2>0, <1>t DEF RequestOK, Undoubted, GoodGoesIn, BadStaysOut, Looking, JobShape, Jobs
    <3>2. ~(p = job[b].proc /\ e = job[b].target /\ job[b].at \in {"clear", "leave"})
      BY <3>1 DEF Clearing
    <3> QED
      BY <3>1, <3>2, <1>2
  <2>4. DistrustedGoesIn(c)'
    <3> SUFFICES ASSUME job[c].standing = "distrusted"
                 PROVE  /\ GoodSession(c) /\ job[c].at \in Looking \cup {"run"}
                        /\ \A d \in Holders(p, e)' : job'[d].snap = emp[e]
                        /\ job[c].at \in {"put", "putAgain"} => job[c].snap = emp[e]
                        /\ job[c].at = "again" => cache'[p][e] \in {None, emp[e]}
      BY <2>0, <2>1 DEF DistrustedGoesIn, Looking
    <3>1. /\ GoodSession(c) /\ job[c].at \in Looking \cup {"run"}
          /\ \A d \in Holders(p, e) : job[d].snap = emp[e]
          /\ job[c].at \in {"put", "putAgain"} => job[c].snap = emp[e]
          /\ job[c].at = "again" => cache[p][e] \in {None, emp[e]}
      BY <2>0 DEF RequestOK, DistrustedGoesIn, Looking
    <3>2. \A d \in Holders(p, e)' : job'[d].snap = emp[e]
      BY <3>1, <1>j DEF Holders
    <3>3. ASSUME job[c].at = "again"
          PROVE  cache'[p][e] \in {None, emp[e]}
      <4>1. p \in Processes /\ e \in People
        BY <3>3, <1>t DEF JobShape, Jobs
      <4>2. CASE cache'[p][e] \in {None, cache[p][e]}
        BY <3>1, <3>3, <4>2
      <4>3. CASE /\ job[b].at \in {"put", "putAgain"} /\ p = job[b].proc /\ e = Owner[b]
                 /\ cache'[p][e] = job[b].snap
        <5>1. b \in Holders(p, e)
          BY <4>3 DEF Holders
        <5> QED
          BY <3>1, <4>3, <5>1
      <4> QED
        BY <4>1, <4>2, <4>3
    <3> QED
      BY <3>1, <3>2, <3>3
  <2>5. GoodGoesIn(c)' /\ BadStaysOut(c)'
    BY <2>0, <2>1 DEF RequestOK, GoodGoesIn, BadStaysOut, Looking
  <2>6. ActiveAdmins(emp)' = ActiveAdmins(emp)
    BY DEF ActiveAdmins
  <2>7. OtherAdmin(c)'
    BY <2>0, <2>6 DEF RequestOK, OtherAdmin
  <2> QED
    BY <2>3, <2>4, <2>5, <2>7 DEF RequestOK
<1> QED
  BY <1>1, <1>4, <1>5, <1>6 DEF AccessInv

\* A request of which nothing is known, with nobody to deactivate.
LEMMA PlainRequest ==
    ASSUME NEW b \in Browsers, job[b].standing = "unknown",
           job[b].at # "deactivate" \/ ~job[b].alone
    PROVE  RequestOK(b)
BY DEF RequestOK, Undoubted, GoodGoesIn, BadStaysOut, Looking, DistrustedGoesIn, OtherAdmin

(* The row of e changed.                                                   *)
LEMMA ChangeStep ==
    ASSUME AccessInv, NEW b \in Browsers \cup {None}, NEW p \in Processes \cup {None},
           NEW e \in People, NEW row \in Rows, NEW next \in Jobs, JobShape(next),
           Change(b, p, e, row, next),
           b \in Browsers => job[b].at \in {"run", "write", "deactivate", "activate"},
           \/ emp[e] = None \/ p = None
           \/ b \in Browsers /\ next.proc = p /\ next.target = e /\ next.at \in {"clear", "leave"},
           next.standing = "unknown" /\ ~next.alone,
           next.at \in {"idle", "clear", "leave"}, next.target \in {None, e}
    PROVE  AccessInv'
<1>t. TypeOK'
  BY ChangeTypes DEF AccessInv
<1>0. /\ emp \in [People -> Rows \cup {None}] /\ job \in [Browsers -> Jobs]
      /\ \A c \in Browsers : JobShape(job[c])
      /\ \A c \in Browsers : Owner[c] \in People
      /\ row # None /\ e # None
  BY AccessAssumption, NoNone DEF AccessInv, TypeOK
<1>1. /\ emp' = [emp EXCEPT ![e] = row] /\ cache' = cache /\ cookie' = cookie
      /\ b \in Browsers => job'[b] = next
      /\ \A c \in Browsers \ {b} : job'[c] = Noticed(c, e, row)
  BY DEF Change
<1>2. \A c \in Browsers \ {b} :
         /\ job'[c].at = job[c].at /\ job'[c].proc = job[c].proc /\ job'[c].snap = job[c].snap
         /\ job'[c].target = job[c].target
         /\ job'[c].standing = IF Owner[c] = e THEN "unknown" ELSE job[c].standing
         /\ job'[c].alone => job[c].alone /\ ActiveAdmins(emp') = ActiveAdmins(emp)
  <2>1. ASSUME NEW c \in Browsers \ {b}
        PROVE  LET j == Noticed(c, e, row) IN
               /\ j.at = job[c].at /\ j.proc = job[c].proc /\ j.snap = job[c].snap
               /\ j.target = job[c].target
               /\ j.standing = IF Owner[c] = e THEN "unknown" ELSE job[c].standing
               /\ j.alone => job[c].alone /\ ActiveAdmins([emp EXCEPT ![e] = row]) = ActiveAdmins(emp)
    <3>1. TypeOK /\ c \in Browsers
      BY DEF AccessInv
    <3> QED
      BY <3>1, NoticedFacts
  <2> QED
    BY ZenonT(60), <1>1, <2>1
<1>3. /\ \A x \in People : emp'[x] = IF x = e THEN row ELSE emp[x]
      /\ \A x \in People : emp[x] # None => emp'[x] # None
      /\ emp'[e] # None
  BY <1>0, <1>1
<1>4. \A q \in Processes :
         excused'[q] = IF Holders(q, e) # {} \/ (q # p /\ cache[q][e] # None)
                       THEN excused[q] \cup {e} ELSE excused[q]
  BY DEF Change
<1>5. Known'
  <2>1. \A c \in Browsers : cookie'[c] # None \/ job'[c].at # "idle" => emp'[Owner[c]] # None
    <3>1. ASSUME NEW c \in Browsers, cookie'[c] # None \/ job'[c].at # "idle"
          PROVE  emp'[Owner[c]] # None
      <4>1. CASE c = b
        BY <1>0, <1>3, <4>1 DEF AccessInv, Known
      <4>2. CASE c # b
        BY <1>0, <1>1, <1>2, <1>3, <3>1, <4>2 DEF AccessInv, Known
      <4> QED
        BY <4>1, <4>2
    <3> QED
      BY <3>1
  <2>2. \A c \in Browsers : job'[c].target # None => emp'[job'[c].target] # None
    <3>1. ASSUME NEW c \in Browsers, job'[c].target # None
          PROVE  emp'[job'[c].target] # None
      <4>1. CASE c = b
        BY <1>1, <1>3, <3>1, <4>1
      <4>2. CASE c # b
        <5>1. job[c].target \in People /\ job'[c].target = job[c].target
          BY <1>0, <1>2, <3>1, <4>2 DEF Jobs
        <5> QED
          BY <1>3, <3>1, <5>1 DEF AccessInv, Known
      <4> QED
        BY <4>1, <4>2
    <3> QED
      BY <3>1
  <2>3. \A q \in Processes, x \in People : cache'[q][x] # None => emp'[x] # None
    BY <1>1, <1>3 DEF AccessInv, Known
  <2>4. emp'[Admin] # None
    BY <1>3, AccessAssumption DEF AccessInv, Known
  <2> QED
    BY <2>1, <2>2, <2>3, <2>4 DEF Known
<1>6. \A q \in Processes, x \in People : Clearing(q, x) => Clearing(q, x)'
  BY <1>2 DEF Clearing
<1>7. \A q \in Processes, x \in People : x # e /\ Clearing(q, x)' => Clearing(q, x)
  <2> SUFFICES ASSUME NEW q \in Processes, NEW x \in People, x # e, NEW c \in Browsers,
                      job'[c].proc = q, job'[c].target = x, job'[c].at \in {"clear", "leave"}
               PROVE  Clearing(q, x)
    BY DEF Clearing
  <2>1. c # b
    BY <1>1, NoNone
  <2> QED
    BY <1>2, <2>1 DEF Clearing
<1>8. StaleExplained'
  <2> SUFFICES ASSUME NEW q \in Processes, NEW x \in People, cache'[q][x] \notin {None, emp'[x]}
               PROVE  x \in excused'[q] \/ Clearing(q, x)'
    BY DEF StaleExplained
  <2>1. CASE x # e
    <3>1. x \in excused[q] \/ Clearing(q, x)
      BY <1>1, <1>3, <2>1 DEF AccessInv, StaleExplained
    <3> QED
      BY <3>1, <1>4, <1>6
  <2>2. CASE x = e /\ q # p
    BY <1>1, <1>4, <2>2
  <2>3. CASE x = e /\ q = p
    <3>1. emp[e] # None /\ p # None
      BY <1>1, <2>3, NoNone DEF AccessInv, Known
    <3>2. b \in Browsers /\ job'[b].proc = p /\ job'[b].target = e /\ job'[b].at \in {"clear", "leave"}
      BY <1>1, <3>1
    <3> QED
      BY <2>3, <3>2 DEF Clearing
  <2> QED
    BY <2>1, <2>2, <2>3
<1>9. FetchExplained'
  <2> SUFFICES ASSUME NEW c \in Browsers, job'[c].at \in {"put", "putAgain"}, job'[c].snap # emp'[Owner[c]]
               PROVE  Owner[c] \in excused'[job'[c].proc]
    BY DEF FetchExplained
  <2>1. c # b
    BY <1>1
  <2>2. job[c].at \in {"put", "putAgain"} /\ job'[c].proc = job[c].proc /\ job'[c].snap = job[c].snap
    BY <1>2, <2>1
  <2>3. job[c].proc \in Processes
    BY <1>0, <2>2 DEF Jobs, JobShape
  <2>4. CASE Owner[c] = e
    BY <1>4, <2>2, <2>3, <2>4 DEF Holders
  <2>5. CASE Owner[c] # e
    <3>1. Owner[c] \in excused[job[c].proc]
      BY <1>0, <1>3, <2>2, <2>5 DEF AccessInv, FetchExplained
    <3> QED
      BY <1>4, <2>2, <2>3, <3>1
  <2> QED
    BY <2>4, <2>5
<1>10. ASSUME NEW c \in Browsers
       PROVE  RequestOK(c)'
  <2>1. CASE c = b
    <3>1. job'[c] = next /\ next.at # "deactivate"
      BY <1>1, <2>1
    <3> QED
      BY <3>1 DEF RequestOK, Undoubted, GoodGoesIn, BadStaysOut, Looking, DistrustedGoesIn, OtherAdmin
  <2>2. CASE c # b
    <3> DEFINE q == job[c].proc
               x == Owner[c]
    <3>0. RequestOK(c) /\ x \in People /\ job[c] \in Jobs
      BY <1>0 DEF AccessInv
    <3>1. OtherAdmin(c)'
      BY <1>2, <2>2, <3>0 DEF RequestOK, OtherAdmin
    <3>2. CASE x = e
      BY <1>2, <2>2, <3>1, <3>2 DEF RequestOK, Undoubted, GoodGoesIn, BadStaysOut, Looking, DistrustedGoesIn
    <3>3. CASE x # e
      <4>1. emp'[x] = emp[x] /\ job'[c].standing = job[c].standing /\ GoodSession(c)' = GoodSession(c)
        BY <1>1, <1>2, <1>3, <2>2, <3>0, <3>3 DEF GoodSession
      <4>2. Undoubted(c)'
        <5> SUFFICES ASSUME job[c].standing \in {"good", "bad"}, NEW r \in Processes, r = job[c].proc
                     PROVE  x \notin excused'[r] /\ ~Clearing(r, x)'
          <6>1. job[c].standing \in {"good", "bad"} => job[c].proc \in Processes
            BY <1>0, <3>0 DEF RequestOK, GoodGoesIn, BadStaysOut, Looking, JobShape, Jobs
          <6> QED
            BY <1>2, <2>2, <4>1, <6>1 DEF Undoubted, Clearing
        <5>1. x \notin excused[r] /\ ~Clearing(r, x)
          BY <3>0 DEF RequestOK, Undoubted
        <5> QED
          BY <1>4, <1>7, <3>0, <3>3, <5>1
      <4>3. GoodGoesIn(c)' /\ BadStaysOut(c)'
        BY <1>2, <2>2, <3>0, <4>1 DEF RequestOK, GoodGoesIn, BadStaysOut, Looking
      <4>4. \A d \in Holders(q, x)' : d \in Holders(q, x) /\ job'[d].snap = job[d].snap
        BY <1>1, <1>2, <2>2 DEF Holders
      <4>5. DistrustedGoesIn(c)'
        BY <1>1, <1>2, <2>2, <3>0, <4>1, <4>4 DEF RequestOK, DistrustedGoesIn, Looking
      <4> QED
        BY <3>1, <4>2, <4>3, <4>5 DEF RequestOK
    <3> QED
      BY <3>2, <3>3
  <2> QED
    BY <2>1, <2>2
<1> QED
  BY <1>t, <1>5, <1>8, <1>9, <1>10 DEF AccessInv

-----------------------------------------------------------------------------
(* The steps of one request.                                               *)

LEMMA RequestFacts ==
    ASSUME AccessInv, NEW b \in Browsers
    PROVE  /\ job \in [Browsers -> Jobs] /\ job[b] \in Jobs /\ JobShape(job[b]) /\ Owner[b] \in People
           /\ emp \in [People -> Rows \cup {None}]
           /\ cache \in [Processes -> [People -> Rows \cup {None}]]
           /\ cookie \in [Browsers -> Nat \cup {None}]
           /\ excused \in [Processes -> SUBSET People]
           /\ RequestOK(b)
           /\ cookie[b] # None \/ job[b].at # "idle" => emp[Owner[b]] \in Rows
           /\ job[b].target # None => emp[job[b].target] \in Rows /\ job[b].target \in People
           /\ job[b].at \notin {"idle", "login"} => job[b].proc \in Processes
           /\ job[b].at \in {"put", "putAgain", "run", "login"} => job[b].snap \in Rows
<1>1. TypeOK /\ Known
  BY DEF AccessInv
<1>2. Owner[b] \in People
  BY AccessAssumption
<1> QED
  BY <1>1, <1>2 DEF AccessInv, TypeOK, Known, Jobs, JobShape

\* The request goes on to a step of which nothing is told.
LEMMA PlainStep ==
    ASSUME AccessInv, NEW b \in Browsers, NEW next \in Jobs, JobShape(next),
           UNCHANGED <<emp, cache, excused>>, job' = [job EXCEPT ![b] = next],
           cookie' \in [Browsers -> Nat \cup {None}],
           \A c \in Browsers \ {b} : cookie'[c] = cookie[c],
           cookie'[b] # None => emp[Owner[b]] # None,
           next.standing = "unknown",
           next.at \notin {"put", "putAgain", "clear", "leave"},
           next.at # "idle" => emp[Owner[b]] # None,
           next.target # None => emp[next.target] # None,
           next.at = "deactivate" /\ next.alone =>
              next.target \notin ActiveAdmins(emp) \/ \E a \in ActiveAdmins(emp) : a # next.target,
           job[b].at \notin {"clear", "leave"}
    PROVE  AccessInv'
<1>1. job \in [Browsers -> Jobs]
  BY RequestFacts
<1>2. TypeOK'
  BY JobTypes DEF AccessInv, TypeOK
<1>3. job'[b] = next /\ ActiveAdmins(emp)' = ActiveAdmins(emp)
  BY <1>1 DEF ActiveAdmins
<1>4. RequestOK(b)'
  BY <1>3 DEF RequestOK, Undoubted, GoodGoesIn, BadStaysOut, Looking, DistrustedGoesIn, OtherAdmin
<1> QED
  BY <1>2, <1>4, OneRequestStep

\* The request ends, or is let in or sent on by what a snapshot says.
LEMMA SettleStep ==
    ASSUME AccessInv, NEW b \in Browsers, NEW request \in Jobs, request.proc \in Processes,
           request.target # None => emp[request.target] # None,
           NEW snap \in Rows, NEW first \in BOOLEAN, Settle(b, request, snap, first),
           UNCHANGED <<emp, excused>>, cache' \in [Processes -> [People -> Rows \cup {None}]],
           \A p \in Processes, e \in People :
              \/ cache'[p][e] = cache[p][e]
              \/ /\ job[b].at \in {"put", "putAgain"} /\ p = job[b].proc /\ e = Owner[b]
                 /\ cache'[p][e] = job[b].snap,
           job[b].at \notin {"clear", "leave"}, emp[Owner[b]] # None,
           request.standing \in {"good", "bad"} =>
              /\ Owner[b] \notin excused[request.proc] /\ ~Clearing(request.proc, Owner[b])
              /\ snap = emp[Owner[b]],
           request.standing \in {"good", "distrusted"} => GoodSession(b),
           request.standing = "bad" => ~GoodSession(b) /\ (~first => snap.active),
           request.standing = "distrusted" =>
              \A c \in Holders(request.proc, Owner[b]) : c = b \/ job[c].snap = emp[Owner[b]]
    PROVE  AccessInv'
<1> DEFINE verdict == Verdict(b, snap, first)
           next == IF verdict = "refused" THEN Idle
                   ELSE [request EXCEPT !.at = verdict, !.snap = IF verdict = "run" THEN snap ELSE None]
<1>t. /\ job \in [Browsers -> Jobs] /\ cookie \in [Browsers -> Nat \cup {None}]
      /\ request.proc # None
  BY RequestFacts, NoNone
<1>0. verdict \in {"refused", "run", "drop"}
  BY DEF Verdict
<1>1. /\ job' = [job EXCEPT ![b] = next]
      /\ cookie' = IF verdict = "refused" THEN [cookie EXCEPT ![b] = None] ELSE cookie
  BY DEF Settle
<1>2. TypeOK'
  <2>1. /\ job' \in [Browsers -> Jobs] /\ \A c \in Browsers : JobShape(job'[c])
        /\ cookie' \in [Browsers -> Nat \cup {None}]
    BY <1>t, SettleTypes DEF AccessInv
  <2> QED
    BY <2>1 DEF AccessInv, TypeOK, JobShape
<1>3. /\ next.at \in {"idle", "run", "drop"} /\ next.target \in {None, request.target}
      /\ verdict = "refused" => next.standing = "unknown"
      /\ verdict # "refused" => /\ next.at = verdict /\ next.standing = request.standing
                                /\ next.proc = request.proc
      /\ verdict = "run" => next.snap = snap
  BY <1>0, IdleFacts DEF Jobs
<1>j. job'[b] = next /\ \A c \in Browsers \ {b} : job'[c] = job[c]
  BY <1>t, <1>1
<1> HIDE DEF next
<1>4. RequestOK(b)'
  <2>1. CASE verdict = "refused"
    BY <1>3, <1>j, <2>1 DEF RequestOK, Undoubted, GoodGoesIn, BadStaysOut, Looking, DistrustedGoesIn, OtherAdmin
  <2>2. CASE verdict # "refused"
    <3>0. /\ job'[b].standing = request.standing /\ job'[b].proc = request.proc
          /\ GoodSession(b)' = GoodSession(b)
      BY <1>1, <1>3, <1>j, <2>2 DEF GoodSession
    <3>1. \A p \in Processes : Clearing(p, Owner[b])' => Clearing(p, Owner[b])
      BY <1>3, <1>j DEF Clearing
    <3>2. Undoubted(b)'
      <4> SUFFICES ASSUME request.standing \in {"good", "bad"}, NEW r \in Processes, r = request.proc
                   PROVE  Owner[b] \notin excused'[r] /\ ~Clearing(r, Owner[b])'
        BY <3>0 DEF Undoubted, Clearing
      <4> QED
        BY <3>1
    <3>3. GoodGoesIn(b)'
      <4> SUFFICES ASSUME request.standing = "good"
                   PROVE  verdict = "run"
        BY <1>0, <1>3, <1>j, <2>2, <3>0 DEF GoodGoesIn
      <4> QED
        BY <2>2 DEF GoodSession, Verdict
    <3>4. BadStaysOut(b)'
      <4> SUFFICES ASSUME request.standing = "bad"
                   PROVE  verdict = "drop" /\ emp[Owner[b]].active
        BY <1>0, <1>3, <1>j, <2>2, <3>0 DEF BadStaysOut, Looking
      <4> QED
        BY <2>2 DEF GoodSession, Verdict
    <3>5. DistrustedGoesIn(b)'
      <4> SUFFICES ASSUME request.standing = "distrusted", NEW c \in Browsers,
                          job'[c].proc = request.proc, Owner[c] = Owner[b], job'[c].at \in {"put", "putAgain"}
                   PROVE  job'[c].snap = emp[Owner[b]]
        BY <1>0, <1>3, <1>j, <2>2, <3>0 DEF DistrustedGoesIn, Looking, Holders
      <4>1. c # b /\ job'[c] = job[c]
        BY <1>3, <1>j
      <4>2. c \in Holders(request.proc, Owner[b])
        BY <4>1 DEF Holders
      <4> QED
        BY <4>1, <4>2
    <3>6. OtherAdmin(b)'
      BY <1>3, <1>j DEF OtherAdmin
    <3> QED
      BY <3>2, <3>3, <3>4, <3>5, <3>6 DEF RequestOK
  <2> QED
    BY <2>1, <2>2
<1>5. \A c \in Browsers \ {b} : cookie'[c] = cookie[c]
  BY <1>t, <1>1
<1> QED
  BY <1>1, <1>2, <1>3, <1>4, <1>5, OneRequestStep

\* How a session stands when its request begins, read off its definition.
LEMMA StandingFacts ==
    ASSUME NEW b \in Browsers, NEW p \in Processes
    PROVE  LET e == Owner[b] IN
           /\ Standing(b, p) \in Standings
           /\ Standing(b, p) \in {"good", "bad"} => e \notin excused[p] /\ ~Clearing(p, e)
           /\ Standing(b, p) \in {"good", "distrusted"} => GoodSession(b)
           /\ Standing(b, p) = "bad" => ~GoodSession(b)
           /\ Standing(b, p) = "distrusted" =>
                 Holders(p, e) = {} /\ ~(cache[p][e] # None /\ ~cache[p][e].active)
BY DEF Standing, Standings

LEMMA BeginStep ==
    ASSUME AccessInv, NEW b \in Browsers, NEW p \in Route[b], Begin(b, p)
    PROVE  AccessInv'
<1> DEFINE e == Owner[b]
           request == [Idle EXCEPT !.at = "read", !.proc = p, !.standing = Standing(b, p)]
<1>0. p \in Processes /\ p # None
  BY AccessAssumption, NoNone
<1>1. /\ request \in Jobs /\ JobShape(request)
      /\ request.at = "read" /\ request.proc = p /\ request.target = None /\ ~request.alone
      /\ request.standing = Standing(b, p)
  BY <1>0, IdleFacts, StandingFacts DEF Jobs, Steps, JobShape
<1>2. /\ job[b].at = "idle" /\ cookie[b] # None
      /\ UNCHANGED <<emp, cache, excused>>
      /\ IF cache[p][e] # None THEN Settle(b, request, cache[p][e], TRUE)
                               ELSE job' = [job EXCEPT ![b] = request] /\ UNCHANGED cookie
  BY DEF Begin
<1> HIDE DEF request
<1>3. CASE cache[p][e] # None
  <2>1. cache[p][e] \in Rows /\ emp[e] # None
    BY <1>0, <1>2, <1>3, RequestFacts, NoNone
  <2>2. Standing(b, p) \in {"good", "bad"} => cache[p][e] = emp[e]
    BY <1>0, <1>3, StandingFacts, RequestFacts DEF AccessInv, StaleExplained
  <2>3. cache' \in [Processes -> [People -> Rows \cup {None}]]
    BY <1>2, RequestFacts
  <2>4. Settle(b, request, cache[p][e], TRUE)
    BY <1>2, <1>3
  <2>5. Standing(b, p) = "distrusted" => Holders(p, e) = {}
    BY <1>0, StandingFacts
  <2> QED
    BY <1>0, <1>1, <1>2, <2>1, <2>2, <2>3, <2>4, <2>5, StandingFacts, SettleStep
<1>4. CASE cache[p][e] = None
  <2>1. job \in [Browsers -> Jobs] /\ emp[e] # None
    BY <1>2, RequestFacts, NoNone
  <2>2. job' = [job EXCEPT ![b] = request] /\ cookie' = cookie
    BY <1>2, <1>4
  <2>3. TypeOK'
    BY <1>1, <1>2, <2>2, JobTypes DEF AccessInv, TypeOK
  <2>4. job'[b] = request /\ \A c \in Browsers \ {b} : job'[c] = job[c]
    BY <2>1, <2>2
  <2>5. GoodSession(b)' = GoodSession(b)
    BY <1>2, <2>2 DEF GoodSession
  <2>6. Undoubted(b)'
    <3> SUFFICES ASSUME Standing(b, p) \in {"good", "bad"}
                 PROVE  e \notin excused'[p] /\ ~Clearing(p, e)'
      BY <1>1, <2>4 DEF Undoubted, Clearing
    <3> QED
      BY <1>0, <1>1, <1>2, <2>4, StandingFacts DEF Clearing
  <2>7. GoodGoesIn(b)' /\ BadStaysOut(b)'
    BY <1>0, <1>1, <2>4, <2>5, StandingFacts DEF GoodGoesIn, BadStaysOut, Looking
  <2>8. DistrustedGoesIn(b)'
    <3> SUFFICES ASSUME Standing(b, p) = "distrusted"
                 PROVE  /\ GoodSession(b)
                        /\ \A c \in Browsers : job'[c].proc = p /\ Owner[c] = e => job'[c].at \notin {"put", "putAgain"}
      BY <1>1, <2>4, <2>5 DEF DistrustedGoesIn, Looking, Holders
    <3>1. GoodSession(b) /\ Holders(p, e) = {}
      BY <1>0, StandingFacts
    <3> QED
      BY <1>1, <2>4, <3>1 DEF Holders
  <2>9. RequestOK(b)'
    BY <1>1, <2>4, <2>6, <2>7, <2>8 DEF RequestOK, OtherAdmin
  <2> QED
    BY <1>1, <1>2, <2>1, <2>2, <2>3, <2>9, OneRequestStep
<1> QED
  BY <1>3, <1>4

LEMMA ReadStep ==
    ASSUME AccessInv, NEW b \in Browsers, Read(b)
    PROVE  AccessInv'
<1> DEFINE at == IF job[b].at = "read" THEN "put" ELSE "putAgain"
           next == [job[b] EXCEPT !.at = at, !.snap = emp[Owner[b]]]
           p == job[b].proc
           e == Owner[b]
<1>0. /\ job \in [Browsers -> Jobs] /\ job[b] \in Jobs /\ JobShape(job[b]) /\ RequestOK(b)
      /\ job[b].at \in {"read", "readAgain"} /\ emp[e] \in Rows /\ p \in Processes /\ p # None
  BY RequestFacts, NoNone DEF Read
<1>1. job' = [job EXCEPT ![b] = next] /\ UNCHANGED <<emp, cache, cookie, excused>>
  BY <1>0 DEF Read, Jobs
<1>2. /\ next \in Jobs /\ next.at = at /\ next.snap = emp[e] /\ next.proc = p
      /\ next.target = job[b].target /\ next.standing = job[b].standing
  BY <1>0 DEF Jobs, Steps
<1> HIDE DEF next
<1>3. JobShape(next)
  BY <1>0, <1>2, NoNone DEF JobShape
<1>4. TypeOK'
  BY <1>1, <1>2, <1>3, JobTypes DEF AccessInv, TypeOK
<1>5. job'[b] = next /\ \A c \in Browsers \ {b} : job'[c] = job[c]
  BY <1>0, <1>1
<1>6. GoodSession(b)' = GoodSession(b)
  BY <1>1 DEF GoodSession
<1>7. Undoubted(b)'
  <2> SUFFICES ASSUME job[b].standing \in {"good", "bad"}, NEW r \in Processes, r = p
               PROVE  e \notin excused'[r] /\ ~Clearing(r, e)'
    BY <1>0, <1>2, <1>5 DEF Undoubted, Clearing
  <2>1. e \notin excused[r] /\ ~Clearing(r, e)
    BY <1>0 DEF RequestOK, Undoubted
  <2> QED
    BY <1>0, <1>1, <1>2, <1>5, <2>1 DEF Clearing
<1>8. GoodGoesIn(b)' /\ BadStaysOut(b)'
  BY <1>0, <1>1, <1>2, <1>5, <1>6 DEF RequestOK, GoodGoesIn, BadStaysOut, Looking
<1>9. DistrustedGoesIn(b)'
  BY <1>0, <1>1, <1>2, <1>5, <1>6 DEF RequestOK, DistrustedGoesIn, Looking, Holders
<1>10. RequestOK(b)'
  BY <1>2, <1>5, <1>7, <1>8, <1>9 DEF RequestOK, OtherAdmin
<1>11. job[b].target # None => emp[job[b].target] # None
  BY RequestFacts, NoNone
<1> QED
  BY <1>0, <1>1, <1>2, <1>4, <1>10, <1>11, NoNone, OneRequestStep

LEMMA PutStep ==
    ASSUME AccessInv, NEW b \in Browsers, Put(b)
    PROVE  AccessInv'
<1> DEFINE p == job[b].proc
           e == Owner[b]
           snap == job[b].snap
<1>0. /\ job[b] \in Jobs /\ JobShape(job[b]) /\ RequestOK(b)
      /\ job[b].at \in {"put", "putAgain"} /\ emp[e] # None /\ p \in Processes /\ snap \in Rows
      /\ cache \in [Processes -> [People -> Rows \cup {None}]] /\ e \in People
  BY RequestFacts, NoNone DEF Put
<1>1. /\ cache' = [cache EXCEPT ![p][e] = snap]
      /\ Settle(b, job[b], snap, job[b].at = "put")
      /\ UNCHANGED <<emp, excused>>
  BY DEF Put
<1>2. /\ cache' \in [Processes -> [People -> Rows \cup {None}]]
      /\ \A q \in Processes, x \in People :
            cache'[q][x] = cache[q][x] \/ (q = p /\ x = e /\ cache'[q][x] = snap)
  BY <1>0, <1>1
<1>3. /\ job[b].standing \in {"good", "bad"} => e \notin excused[p] /\ ~Clearing(p, e) /\ snap = emp[e]
      /\ job[b].standing \in {"good", "distrusted"} => GoodSession(b)
      /\ job[b].standing = "bad" => ~GoodSession(b) /\ (job[b].at # "put" => snap.active)
      /\ job[b].standing = "distrusted" => \A c \in Holders(p, e) : job[c].snap = emp[e]
  BY <1>0 DEF RequestOK, Undoubted, GoodGoesIn, BadStaysOut, Looking, DistrustedGoesIn
<1>4. job[b].target # None => emp[job[b].target] # None
  BY RequestFacts, NoNone
<1> QED
  BY <1>0, <1>1, <1>2, <1>3, <1>4, SettleStep

LEMMA DropStep ==
    ASSUME AccessInv, NEW b \in Browsers, Drop(b)
    PROVE  AccessInv'
<1> DEFINE next == [job[b] EXCEPT !.at = "again"]
           p == job[b].proc
           e == Owner[b]
<1>0. /\ job \in [Browsers -> Jobs] /\ job[b] \in Jobs /\ JobShape(job[b]) /\ RequestOK(b)
      /\ job[b].at = "drop" /\ emp[e] # None /\ p \in Processes /\ p # None /\ e \in People
      /\ cache \in [Processes -> [People -> Rows \cup {None}]]
      /\ excused \in [Processes -> SUBSET People]
  BY RequestFacts, NoNone DEF Drop
<1>1. /\ job' = [job EXCEPT ![b] = next] /\ UNCHANGED <<emp, cookie>>
      /\ cache' = [cache EXCEPT ![p][e] = None]
      /\ excused' = [excused EXCEPT ![p] = IF Holders(p, e) = {} THEN @ \ {e} ELSE @]
  BY <1>0 DEF Drop, Forget, Jobs
<1>2. /\ next \in Jobs /\ next.at = "again" /\ next.proc = p
      /\ next.target = job[b].target /\ next.standing = job[b].standing
  BY <1>0 DEF Jobs, Steps
<1> HIDE DEF next
<1>3. JobShape(next)
  BY <1>0, <1>2 DEF JobShape
<1>4. /\ cache' \in [Processes -> [People -> Rows \cup {None}]]
      /\ excused' \in [Processes -> SUBSET People]
      /\ \A q \in Processes, x \in People : cache'[q][x] = IF q = p /\ x = e THEN None ELSE cache[q][x]
      /\ \A q \in Processes : excused'[q] \subseteq excused[q]
      /\ \A q \in Processes : \A x \in excused[q] :
            x \in excused'[q] \/ (q = p /\ x = e /\ Holders(q, x) = {})
  BY <1>0, <1>1
<1>5. TypeOK'
  BY <1>1, <1>2, <1>3, <1>4, JobTypes DEF AccessInv, TypeOK
<1>6. job'[b] = next /\ \A c \in Browsers \ {b} : job'[c] = job[c]
  BY <1>0, <1>1
<1>7. GoodSession(b)' = GoodSession(b)
  BY <1>1 DEF GoodSession
<1>8. Undoubted(b)'
  <2> SUFFICES ASSUME job[b].standing \in {"good", "bad"}, NEW r \in Processes, r = p
               PROVE  e \notin excused'[r] /\ ~Clearing(r, e)'
    BY <1>0, <1>2, <1>6 DEF Undoubted, Clearing
  <2>1. e \notin excused[r] /\ ~Clearing(r, e)
    BY <1>0 DEF RequestOK, Undoubted
  <2> QED
    BY <1>2, <1>4, <1>6, <2>1 DEF Clearing
<1>9. GoodGoesIn(b)' /\ BadStaysOut(b)'
  BY <1>0, <1>1, <1>2, <1>6, <1>7 DEF RequestOK, GoodGoesIn, BadStaysOut, Looking
<1>10. DistrustedGoesIn(b)'
  <2>1. cache'[p][e] = None
    BY <1>0, <1>4
  <2> QED
    BY <1>0, <1>1, <1>2, <1>6, <1>7, <2>1 DEF RequestOK, DistrustedGoesIn, Looking, Holders
<1>11. RequestOK(b)'
  BY <1>2, <1>6, <1>8, <1>9, <1>10 DEF RequestOK, OtherAdmin
<1>12. job[b].target # None => emp[job[b].target] # None
  BY RequestFacts, NoNone
<1>13. /\ \A q \in Processes, x \in People : cache'[q][x] \in {None, cache[q][x]}
       /\ \A q \in Processes, x \in People : x \in excused'[q] => x \in excused[q]
       /\ \A q \in Processes, x \in People : x \in excused[q] =>
             x \in excused'[q] \/ (cache'[q][x] = None /\ Holders(q, x) = {})
  BY <1>4
<1>14. next.at # "put" /\ next.at # "putAgain" /\ next.at \notin {"clear", "leave"}
  BY <1>2
<1>15. UNCHANGED emp /\ \A c \in Browsers \ {b} : cookie'[c] = cookie[c]
  BY <1>1
<1> QED
  BY <1>0, <1>1, <1>2, <1>5, <1>11, <1>12, <1>13, <1>14, <1>15, OneRequestStep

LEMMA AgainStep ==
    ASSUME AccessInv, NEW b \in Browsers, Again(b)
    PROVE  AccessInv'
<1> DEFINE p == job[b].proc
           e == Owner[b]
           known == cache[p][e]
           next == [job[b] EXCEPT !.at = "readAgain"]
<1>0. /\ job \in [Browsers -> Jobs] /\ job[b] \in Jobs /\ JobShape(job[b]) /\ RequestOK(b)
      /\ job[b].at = "again" /\ emp[e] # None /\ p \in Processes /\ e \in People
      /\ cache \in [Processes -> [People -> Rows \cup {None}]]
  BY RequestFacts, NoNone DEF Again
<1>1. /\ UNCHANGED <<emp, cache, excused>>
      /\ IF known # None THEN Settle(b, job[b], known, FALSE)
                         ELSE job' = [job EXCEPT ![b] = next] /\ UNCHANGED cookie
  BY <1>0 DEF Again, Jobs
<1>2. job[b].target # None => emp[job[b].target] # None
  BY RequestFacts, NoNone
<1>3. CASE known # None
  <2>1. known \in Rows
    BY <1>0, <1>3
  <2>2. job[b].standing \in {"good", "bad"} => e \notin excused[p] /\ ~Clearing(p, e) /\ known = emp[e]
    BY <1>0, <1>3 DEF RequestOK, Undoubted, AccessInv, StaleExplained
  <2>3. /\ job[b].standing # "good"
        /\ job[b].standing = "distrusted" => GoodSession(b)
        /\ job[b].standing = "bad" => ~GoodSession(b) /\ emp[e].active
        /\ job[b].standing = "distrusted" => \A c \in Holders(p, e) : job[c].snap = emp[e]
    BY <1>0 DEF RequestOK, GoodGoesIn, BadStaysOut, Looking, DistrustedGoesIn
  <2>4. Settle(b, job[b], known, FALSE)
    BY <1>1, <1>3
  <2>5. cache' = cache
    BY <1>1
  <2> QED
    BY <1>0, <1>1, <1>2, <2>1, <2>2, <2>3, <2>4, <2>5, SettleStep
<1>4. CASE known = None
  <2>1. job' = [job EXCEPT ![b] = next] /\ cookie' = cookie
    BY <1>1, <1>4
  <2>2. /\ next \in Jobs /\ next.at = "readAgain" /\ next.proc = p
        /\ next.target = job[b].target /\ next.standing = job[b].standing
    BY <1>0 DEF Jobs, Steps
  <2> HIDE DEF next
  <2>3. JobShape(next)
    BY <1>0, <2>2 DEF JobShape
  <2>4. TypeOK'
    BY <1>1, <2>1, <2>2, <2>3, JobTypes DEF AccessInv, TypeOK
  <2>5. job'[b] = next /\ \A c \in Browsers \ {b} : job'[c] = job[c]
    BY <1>0, <2>1
  <2>6. GoodSession(b)' = GoodSession(b)
    BY <1>1, <2>1 DEF GoodSession
  <2>7. Undoubted(b)'
    <3> SUFFICES ASSUME job[b].standing \in {"good", "bad"}, NEW r \in Processes, r = p
                 PROVE  e \notin excused'[r] /\ ~Clearing(r, e)'
      BY <1>0, <2>2, <2>5 DEF Undoubted, Clearing
    <3>1. e \notin excused[r] /\ ~Clearing(r, e)
      BY <1>0 DEF RequestOK, Undoubted
    <3> QED
      BY <1>1, <2>2, <2>5, <3>1 DEF Clearing
  <2>8. GoodGoesIn(b)' /\ BadStaysOut(b)'
    BY <1>0, <1>1, <2>2, <2>5, <2>6 DEF RequestOK, GoodGoesIn, BadStaysOut, Looking
  <2>9. DistrustedGoesIn(b)'
    BY <1>0, <1>1, <2>2, <2>5, <2>6 DEF RequestOK, DistrustedGoesIn, Looking, Holders
  <2>10. RequestOK(b)'
    BY <2>2, <2>5, <2>7, <2>8, <2>9 DEF RequestOK, OtherAdmin
  <2> QED
    BY <1>0, <1>1, <1>2, <2>1, <2>2, <2>4, <2>10, OneRequestStep
<1> QED
  BY <1>3, <1>4

\* Of more than one, one is another than t.
LEMMA AnotherOne ==
    ASSUME NEW S, Cardinality(S) > 1, NEW t
    PROVE  \E a \in S : a # t
<1> SUFFICES ASSUME \A a \in S : a = t
             PROVE  FALSE
  OBVIOUS
<1>1. IsFiniteSet({t}) /\ Cardinality({t}) = 1
  BY FS_Singleton
<1>2. S \in SUBSET {t}
  OBVIOUS
<1>3. IsFiniteSet(S) /\ Cardinality(S) <= 1
  BY <1>1, <1>2, FS_Subset
<1>4. Cardinality(S) \in Nat
  BY <1>3, FS_CardinalityType
<1> QED
  BY <1>3, <1>4

LEMMA PlainSteps ==
    ASSUME AccessInv, NEW b \in Browsers,
           \/ Serve(b) \/ LoginRead(b) \/ LoginDone(b) \/ Logout(b) \/ ChangePinBegin(b)
           \/ \E e \in People : ToggleBegin(b, e)
           \/ ToggleCount(b)
           \/ Abort(b) /\ job[b].at \notin {"clear", "leave"}
    PROVE  AccessInv'
<1>0. /\ job \in [Browsers -> Jobs] /\ job[b] \in Jobs /\ JobShape(job[b]) /\ RequestOK(b)
      /\ cookie \in [Browsers -> Nat \cup {None}] /\ emp \in [People -> Rows \cup {None}]
      /\ Owner[b] \in People
      /\ cookie[b] # None \/ job[b].at # "idle" => emp[Owner[b]] # None
      /\ job[b].target # None => emp[job[b].target] # None
      /\ job[b].at = "run" => job[b].proc \in Processes
      /\ job[b].at = "login" => job[b].snap \in Rows
  BY RequestFacts, NoNone
<1>1. CASE \/ Serve(b)
           \/ Abort(b) /\ job[b].at \notin {"clear", "leave"}
           \/ ToggleCount(b) /\ ~EnoughAdmins
  <2>1. /\ job' = [job EXCEPT ![b] = Idle] /\ UNCHANGED <<emp, cache, cookie, excused>>
        /\ job[b].at \notin {"clear", "leave"} /\ emp[Owner[b]] # None
    BY <1>0, <1>1 DEF Serve, Abort, ToggleCount, Finish, Runs
  <2> QED
    BY <1>0, <2>1, IdleFacts, PlainStep
<1>2. CASE LoginRead(b)
  <2> DEFINE next == [Idle EXCEPT !.at = "login", !.snap = emp[Owner[b]]]
  <2>1. emp[Owner[b]] \in Rows
    BY <1>0, <1>2 DEF LoginRead
  <2>2. /\ next \in Jobs /\ JobShape(next) /\ next.at = "login" /\ next.target = None
        /\ next.standing = "unknown" /\ ~next.alone
    BY <2>1, IdleFacts, NoNone DEF Jobs, Steps, JobShape
  <2>3. job' = [job EXCEPT ![b] = next] /\ UNCHANGED <<emp, cache, cookie, excused>> /\ job[b].at = "idle"
    BY <1>2 DEF LoginRead
  <2> HIDE DEF next
  <2> QED
    BY <1>0, <2>1, <2>2, <2>3, NoNone, PlainStep
<1>3. CASE LoginDone(b)
  <2>1. /\ job' = [job EXCEPT ![b] = Idle] /\ UNCHANGED <<emp, cache, excused>>
        /\ cookie' = [cookie EXCEPT ![b] = job[b].snap.version] /\ job[b].at = "login"
    BY <1>3 DEF LoginDone, Finish
  <2>2. job[b].snap.version \in Nat
    BY <1>0, <2>1 DEF Rows
  <2>3. /\ cookie' \in [Browsers -> Nat \cup {None}]
        /\ \A c \in Browsers \ {b} : cookie'[c] = cookie[c]
    BY <1>0, <2>1, <2>2
  <2> QED
    BY <1>0, <2>1, <2>3, IdleFacts, PlainStep
<1>4. CASE Logout(b)
  <2>1. /\ UNCHANGED <<emp, cache, job, excused>> /\ job[b].at = "idle" /\ cookie[b] # None
        /\ cookie' = [cookie EXCEPT ![b] = None]
    BY <1>4 DEF Logout
  <2>2. /\ cookie' \in [Browsers -> Nat \cup {None}]
        /\ \A c \in Browsers \ {b} : cookie'[c] = cookie[c]
        /\ cookie'[b] = None
        /\ job' = [job EXCEPT ![b] = job[b]]
    BY <1>0, <2>1
  <2>3. job[b].standing = "unknown"
    BY <1>0, <2>1 DEF RequestOK, GoodGoesIn, BadStaysOut, Looking, DistrustedGoesIn, Jobs, Standings
  <2> QED
    BY <1>0, <2>1, <2>2, <2>3, PlainStep
<1>5. CASE ChangePinBegin(b)
  <2> DEFINE next == Then(b, "write", Owner[b])
  <2>1. job' = [job EXCEPT ![b] = next] /\ UNCHANGED <<emp, cache, cookie, excused>> /\ job[b].at = "run"
    BY <1>5 DEF ChangePinBegin, Runs
  <2>2. /\ next \in Jobs /\ JobShape(next) /\ next.at = "write" /\ next.target = Owner[b]
        /\ next.standing = "unknown" /\ ~next.alone
    BY <1>0, <2>1, ThenFacts DEF ChangeSteps
  <2> HIDE DEF next
  <2> QED
    BY <1>0, <2>1, <2>2, PlainStep
<1>6. ASSUME NEW e \in People, ToggleBegin(b, e)
      PROVE  AccessInv'
  <2> DEFINE at == IF ~emp[e].active THEN "activate"
                   ELSE IF emp[e].role = "admin" THEN "count" ELSE "deactivate"
             next == [Then(b, at, e) EXCEPT !.alone = TRUE]
  <2>1. /\ job' = [job EXCEPT ![b] = next] /\ UNCHANGED <<emp, cache, cookie, excused>>
        /\ job[b].at = "run" /\ emp[e] # None
    BY <1>6 DEF ToggleBegin, AsAdmin, Runs
  <2>2. /\ Then(b, at, e) \in Jobs /\ JobShape(Then(b, at, e)) /\ Then(b, at, e).at = at
        /\ Then(b, at, e).target = e /\ Then(b, at, e).standing = "unknown"
    BY <1>0, <2>1, ThenFacts DEF ChangeSteps
  <2>3. /\ next \in Jobs /\ next.at = at /\ next.target = e /\ next.standing = "unknown"
        /\ next.proc = Then(b, at, e).proc
    BY <2>2 DEF Jobs
  <2>4. JobShape(next)
    BY <2>2, <2>3 DEF JobShape
  <2>5. next.at = "deactivate" => next.target \notin ActiveAdmins(emp)
    BY <2>3 DEF ActiveAdmins
  <2>6. next.at \in {"activate", "count", "deactivate"}
    BY <2>3
  <2> HIDE DEF next
  <2> QED
    BY <1>0, <2>1, <2>3, <2>4, <2>5, <2>6, PlainStep
<1>7. CASE ToggleCount(b) /\ EnoughAdmins
  <2> DEFINE next == [job[b] EXCEPT !.at = "deactivate"]
  <2>1. job' = [job EXCEPT ![b] = next] /\ UNCHANGED <<emp, cache, cookie, excused>> /\ job[b].at = "count"
    BY <1>0, <1>7 DEF ToggleCount
  <2>2. /\ next \in Jobs /\ next.at = "deactivate" /\ next.target = job[b].target
        /\ next.standing = job[b].standing /\ next.proc = job[b].proc
    BY <1>0 DEF Jobs, Steps
  <2>3. JobShape(next)
    BY <1>0, <2>1, <2>2 DEF JobShape
  <2>4. \E a \in ActiveAdmins(emp) : a # next.target
    BY <1>7, AnotherOne DEF EnoughAdmins
  <2>5. job[b].standing = "unknown"
    BY <1>0, <2>1 DEF RequestOK, GoodGoesIn, BadStaysOut, Looking, DistrustedGoesIn, Jobs, Standings
  <2> HIDE DEF next
  <2> QED
    BY <1>0, <2>1, <2>2, <2>3, <2>4, <2>5, PlainStep
<1> QED
  BY <1>1, <1>2, <1>3, <1>4, <1>5, <1>6, <1>7

\* The change of b is over, its snapshot forgotten or the process excused.
LEMMA ClearSteps ==
    ASSUME AccessInv, NEW b \in Browsers,
           Clear(b) \/ (Abort(b) /\ job[b].at \in {"clear", "leave"})
    PROVE  AccessInv'
<1> DEFINE p == job[b].proc
           e == job[b].target
<1>0. /\ job \in [Browsers -> Jobs]
      /\ cache \in [Processes -> [People -> Rows \cup {None}]]
      /\ excused \in [Processes -> SUBSET People]
      /\ cookie \in [Browsers -> Nat \cup {None}]
      /\ job[b].at \in {"clear", "leave"} /\ p \in Processes /\ e \in People
      /\ emp[Owner[b]] # None
  <2>1. job[b].at \in {"clear", "leave"}
    BY DEF Clear
  <2>2. e # None
    BY <2>1, RequestFacts DEF JobShape
  <2> QED
    BY <2>1, <2>2, RequestFacts, NoNone
<1>1. /\ job' = [job EXCEPT ![b] = Idle] /\ emp' = emp
      /\ cookie' \in [Browsers -> Nat \cup {None}]
      /\ \A c \in Browsers \ {b} : cookie'[c] = cookie[c]
  BY <1>0 DEF Clear, Abort, Finish
<1>2. /\ cache' \in [Processes -> [People -> Rows \cup {None}]]
      /\ excused' \in [Processes -> SUBSET People]
      /\ \A q \in Processes, x \in People : cache'[q][x] \in {None, cache[q][x]}
      /\ \A q \in Processes, x \in People : x \in excused'[q] => x \in excused[q] \/ (q = p /\ x = e)
      /\ \A q \in Processes, x \in People : x \in excused[q] =>
            x \in excused'[q] \/ (cache'[q][x] = None /\ Holders(q, x) = {})
      /\ cache'[p][e] = None \/ e \in excused'[p]
  <2>1. CASE Clear(b)
    BY <1>0, <2>1 DEF Clear, Forget
  <2>2. CASE Abort(b)
    BY <1>0, <2>2 DEF Abort
  <2> QED
    BY <2>1, <2>2
<1>3. TypeOK'
  BY <1>1, <1>2, IdleFacts, JobTypes DEF AccessInv, TypeOK
<1>4. RequestOK(b)'
  <2>1. job'[b] = Idle
    BY <1>0, <1>1
  <2> QED
    BY <2>1, IdleFacts DEF RequestOK, Undoubted, GoodGoesIn, BadStaysOut, Looking, DistrustedGoesIn, OtherAdmin
<1> QED
  BY <1>0, <1>1, <1>2, <1>3, <1>4, IdleFacts, OneRequestStep

LEMMA RestartStep ==
    ASSUME AccessInv, NEW p \in Processes, Restart(p)
    PROVE  AccessInv'
<1>0. /\ job \in [Browsers -> Jobs] /\ \A c \in Browsers : JobShape(job[c]) /\ Owner[c] \in People
      /\ cache \in [Processes -> [People -> Rows \cup {None}]]
      /\ excused \in [Processes -> SUBSET People]
      /\ p # None
  BY AccessAssumption, NoNone DEF AccessInv, TypeOK
<1>1. /\ UNCHANGED <<emp, cookie>>
      /\ \A c \in Browsers : job'[c] = IF job[c].proc = p THEN Idle ELSE job[c]
      /\ \A q \in Processes, x \in People : cache'[q][x] = IF q = p THEN None ELSE cache[q][x]
      /\ \A q \in Processes : excused'[q] = IF q = p THEN {} ELSE excused[q]
  BY <1>0 DEF Restart
<1>2. TypeOK'
  <2>1. job' \in [Browsers -> Jobs] /\ \A c \in Browsers : JobShape(job'[c])
    BY <1>0, IdleFacts DEF Restart, JobShape
  <2>2. /\ cache' \in [Processes -> [People -> Rows \cup {None}]]
        /\ excused' \in [Processes -> SUBSET People]
    BY <1>0 DEF Restart
  <2> QED
    BY <1>1, <2>1, <2>2 DEF AccessInv, TypeOK, JobShape
<1>3. Known'
  BY <1>1, IdleFacts DEF AccessInv, Known
<1>4. \A q \in Processes, x \in People : q # p =>
         /\ Clearing(q, x)' <=> Clearing(q, x)
         /\ Holders(q, x)' = Holders(q, x)
  BY SMTT(30), <1>0, <1>1, IdleFacts, NoNone DEF Clearing, Holders
<1>5. StaleExplained'
  BY <1>1, <1>4 DEF AccessInv, StaleExplained
<1>6. FetchExplained'
  <2> SUFFICES ASSUME NEW c \in Browsers, job'[c].at \in {"put", "putAgain"}
               PROVE  job'[c].snap = emp[Owner[c]] \/ Owner[c] \in excused'[job'[c].proc]
    BY <1>1 DEF FetchExplained
  <2>1. job'[c] = job[c] /\ job[c].proc # p
    BY <1>1, IdleFacts
  <2>2. job[c].proc \in Processes
    BY <1>0, <2>1 DEF Jobs, JobShape
  <2> QED
    BY <1>1, <2>1, <2>2 DEF AccessInv, FetchExplained
<1>7. ASSUME NEW c \in Browsers
      PROVE  RequestOK(c)'
  <2>1. CASE job[c].proc = p
    <3>1. job'[c] = Idle
      BY <1>1, <2>1
    <3> QED
      BY <3>1, IdleFacts DEF RequestOK, Undoubted, GoodGoesIn, BadStaysOut, Looking, DistrustedGoesIn, OtherAdmin
  <2>2. CASE job[c].proc # p
    <3>0. job'[c] = job[c] /\ RequestOK(c) /\ GoodSession(c)' = GoodSession(c) /\ Owner[c] \in People
      BY <1>0, <1>1, <2>2 DEF AccessInv, GoodSession
    <3>1. CASE job[c].standing = "unknown"
      <4>1. ActiveAdmins(emp)' = ActiveAdmins(emp)
        BY <1>1 DEF ActiveAdmins
      <4> QED
        BY <1>1, <3>0, <3>1, <4>1
           DEF RequestOK, Undoubted, GoodGoesIn, BadStaysOut, Looking, DistrustedGoesIn, OtherAdmin
    <3>2. CASE job[c].standing # "unknown"
      <4>1. job[c].at \in Looking \cup {"run"} /\ job[c] \in Jobs
        BY <1>0, <3>0, <3>2 DEF RequestOK, GoodGoesIn, BadStaysOut, Looking, DistrustedGoesIn, Jobs, Standings
      <4>2. job[c].proc \in Processes
        BY <1>0, <4>1 DEF Jobs, JobShape, Looking
      <4> SUFFICES ASSUME NEW q \in Processes, q = job[c].proc
                   PROVE  RequestOK(c)'
        BY <4>2
      <4>3. /\ Clearing(q, Owner[c])' <=> Clearing(q, Owner[c])
            /\ Holders(q, Owner[c])' = Holders(q, Owner[c])
        BY <1>4, <2>2, <3>0
      <4>4. Undoubted(c)'
        <5>1. job[c].standing \in {"good", "bad"} => Owner[c] \notin excused'[q] /\ ~Clearing(q, Owner[c])'
          BY <1>1, <2>2, <3>0, <4>3 DEF RequestOK, Undoubted
        <5> QED
          BY <3>0, <5>1 DEF Undoubted, Clearing
      <4>5. GoodGoesIn(c)' /\ BadStaysOut(c)' /\ OtherAdmin(c)'
        BY <1>1, <3>0, <4>1 DEF RequestOK, GoodGoesIn, BadStaysOut, Looking, OtherAdmin
      <4>6. DistrustedGoesIn(c)'
        <5> SUFFICES ASSUME job[c].standing = "distrusted"
                     PROVE  /\ \A d \in Browsers : job'[d].proc = q /\ Owner[d] = Owner[c]
                                     /\ job'[d].at \in {"put", "putAgain"} => job'[d].snap = emp[Owner[c]]
                            /\ job[c].at = "again" => cache'[q][Owner[c]] \in {None, emp[Owner[c]]}
          BY <1>1, <3>0, <4>1 DEF RequestOK, DistrustedGoesIn, Looking, Holders
        <5>1. /\ \A d \in Holders(q, Owner[c]) : job[d].snap = emp[Owner[c]]
              /\ job[c].at = "again" => cache[q][Owner[c]] \in {None, emp[Owner[c]]}
          BY <3>0 DEF RequestOK, DistrustedGoesIn
        <5> QED
          BY <1>1, <2>2, <3>0, <5>1, IdleFacts DEF Holders
      <4> QED
        BY <4>4, <4>5, <4>6 DEF RequestOK
    <3> QED
      BY <3>1, <3>2
  <2> QED
    BY <2>1, <2>2
<1> QED
  BY <1>2, <1>3, <1>5, <1>6, <1>7 DEF AccessInv

LEMMA ChangesClear ==
    ASSUME AccessInv, NEW b \in Browsers,
           \/ ChangeOwnPin(b) \/ BumpSessionVersion(b) \/ ToggleWrite(b)
           \/ \E e \in People : ResetPin(b, e)
           \/ \E e \in People, role \in Given : UpdateEmployee(b, e, role)
    PROVE  \E e \in People, row \in Rows, at \in {"clear", "leave"} :
              /\ job[b].at \in {"run", "write", "deactivate", "activate"}
              /\ emp[e] \in Rows
              /\ Change(b, job[b].proc, e, row, Then(b, at, e))
<1>0. /\ job[b].at # "idle" => emp[Owner[b]] \in Rows /\ Owner[b] \in People
      /\ JobShape(job[b])
      /\ job[b].target # None => emp[job[b].target] \in Rows /\ job[b].target \in People
      /\ emp \in [People -> Rows \cup {None}]
  BY RequestFacts
<1>1. CASE ChangeOwnPin(b)
  <2>1. [emp[Owner[b]] EXCEPT !.must = FALSE] \in Rows /\ job[b].at = "write"
    BY <1>0, <1>1, RowFacts DEF ChangeOwnPin
  <2> QED
    BY <1>0, <1>1, <2>1 DEF ChangeOwnPin
<1>2. CASE BumpSessionVersion(b)
  <2>1. [emp[Owner[b]] EXCEPT !.version = @ + 1] \in Rows /\ job[b].at = "run"
    BY <1>0, <1>2, RowFacts DEF BumpSessionVersion, Runs
  <2> QED
    BY <1>0, <1>2, <2>1 DEF BumpSessionVersion
<1>3. CASE ToggleWrite(b)
  <2> DEFINE e == job[b].target
             active == (job[b].at = "activate")
  <2>1. e # None /\ job[b].at \in {"deactivate", "activate"}
    BY <1>0, <1>3 DEF ToggleWrite, JobShape
  <2>2. active \in BOOLEAN
    OBVIOUS
  <2>3. Change(b, job[b].proc, e, [emp[e] EXCEPT !.active = active], Then(b, "clear", e))
    BY <1>3 DEF ToggleWrite
  <2> HIDE DEF active
  <2>4. [emp[e] EXCEPT !.active = active] \in Rows
    BY <1>0, <2>1, <2>2, RowFacts
  <2> QED
    BY <1>0, <2>1, <2>3, <2>4
<1>4. ASSUME NEW e \in People, ResetPin(b, e)
      PROVE  \E row \in Rows : /\ job[b].at = "run" /\ emp[e] \in Rows
                               /\ Change(b, job[b].proc, e, row, Then(b, "clear", e))
  <2>1. Reset(emp[e]) \in Rows /\ emp[e] \in Rows
    BY <1>0, <1>4, RowFacts DEF ResetPin
  <2> QED
    BY <1>4, <2>1 DEF ResetPin, AsAdmin, Runs
<1>5. ASSUME NEW e \in People, NEW role \in Given, UpdateEmployee(b, e, role)
      PROVE  \E row \in Rows : /\ job[b].at = "run" /\ emp[e] \in Rows
                               /\ Change(b, job[b].proc, e, row, Then(b, "clear", e))
  <2>1. [emp[e] EXCEPT !.role = role] \in Rows /\ emp[e] \in Rows
    BY <1>0, <1>5, RowFacts DEF UpdateEmployee
  <2> QED
    BY <1>5, <2>1 DEF UpdateEmployee, AsAdmin, Runs
<1> QED
  BY <1>1, <1>2, <1>3, <1>4, <1>5

-----------------------------------------------------------------------------
(* The invariant and what follows.                                         *)

LEMMA InitAccess == Init => AccessInv
<1> SUFFICES ASSUME Init
             PROVE  AccessInv
  OBVIOUS
<1>1. First \subseteq People /\ "admin" \in Given
  BY AccessAssumption
<1>2. NewRow("admin") \in Rows
  BY <1>1, RowFacts
<1>3. /\ \A b \in Browsers : job[b] = Idle /\ cookie[b] = None /\ Owner[b] \in People
      /\ \A p \in Processes, e \in People : cache[p][e] = None
  BY AccessAssumption DEF Init
<1>4. TypeOK
  BY <1>2, IdleFacts DEF Init, TypeOK, JobShape
<1>5. Known /\ StaleExplained /\ FetchExplained
  <2>1. emp[Admin] # None
    BY <1>1, <1>2, NoNone, AccessAssumption DEF Init
  <2> QED
    BY <1>3, <2>1, IdleFacts DEF Known, StaleExplained, FetchExplained
<1>6. \A b \in Browsers : RequestOK(b)
  BY <1>3, IdleFacts DEF RequestOK, Undoubted, GoodGoesIn, BadStaysOut, Looking, DistrustedGoesIn, OtherAdmin
<1> QED
  BY <1>4, <1>5, <1>6 DEF AccessInv

LEMMA NextAccess == AccessInv /\ [Next]_vars => AccessInv'
<1> SUFFICES ASSUME AccessInv, [Next]_vars
             PROVE  AccessInv'
  OBVIOUS
<1>1. ASSUME NEW b \in Browsers, NEW p \in Route[b], Begin(b, p)
      PROVE  AccessInv'
  BY <1>1, BeginStep
<1>2. ASSUME NEW b \in Browsers, Read(b) \/ Put(b) \/ Drop(b) \/ Again(b)
      PROVE  AccessInv'
  BY <1>2, ReadStep, PutStep, DropStep, AgainStep
<1>3. ASSUME NEW b \in Browsers,
             \/ Serve(b) \/ LoginRead(b) \/ LoginDone(b) \/ Logout(b) \/ ChangePinBegin(b)
             \/ \E e \in People : ToggleBegin(b, e)
             \/ ToggleCount(b)
             \/ Abort(b)
      PROVE  AccessInv'
  BY <1>3, PlainSteps, ClearSteps
<1>4. ASSUME NEW b \in Browsers, Clear(b)
      PROVE  AccessInv'
  BY <1>4, ClearSteps
<1>5. ASSUME NEW b \in Browsers,
             \/ ChangeOwnPin(b) \/ BumpSessionVersion(b) \/ ToggleWrite(b)
             \/ \E e \in People : ResetPin(b, e)
             \/ \E e \in People, role \in Given : UpdateEmployee(b, e, role)
      PROVE  AccessInv'
  <2>1. PICK e \in People, row \in Rows, at \in {"clear", "leave"} :
           /\ job[b].at \in {"run", "write", "deactivate", "activate"}
           /\ Change(b, job[b].proc, e, row, Then(b, at, e))
    BY <1>5, ChangesClear
  <2> DEFINE next == Then(b, at, e)
  <2>2. job[b].proc \in Processes
    BY <2>1, RequestFacts
  <2>3. /\ next \in Jobs /\ JobShape(next) /\ next.at = at /\ next.proc = job[b].proc
        /\ next.target = e /\ next.standing = "unknown" /\ ~next.alone
    BY <2>2, ThenFacts DEF ChangeSteps
  <2>4. Change(b, job[b].proc, e, row, next)
    BY <2>1
  <2> HIDE DEF next
  <2> QED
    BY <2>1, <2>2, <2>3, <2>4, ChangeStep
<1>6. ASSUME NEW b \in Browsers, NEW e \in People, NEW role \in Given, CreateEmployee(b, e, role)
      PROVE  AccessInv'
  <2>1. /\ job[b].at = "run" /\ emp[e] = None
        /\ Change(b, job[b].proc, e, NewRow(role), Idle)
    BY <1>6 DEF CreateEmployee, AsAdmin, Runs
  <2>2. job[b].proc \in Processes /\ NewRow(role) \in Rows
    BY <2>1, RequestFacts, RowFacts
  <2> QED
    BY <2>1, <2>2, IdleFacts, ChangeStep
<1>7. CASE ResetAdmin
  <2>1. Change(None, None, Admin, [Reset(emp[Admin]) EXCEPT !.active = TRUE, !.role = "admin"], Idle)
    BY <1>7 DEF ResetAdmin
  <2>2. Admin \in People
    BY AccessAssumption
  <2>3. CASE emp[Admin] \in Rows
    <3>1. [Reset(emp[Admin]) EXCEPT !.active = TRUE, !.role = "admin"] \in Rows
      BY <2>3, RowFacts
    <3> QED
      BY <2>1, <2>2, <3>1, IdleFacts, NoNone, ChangeStep
  <2>4. emp[Admin] \in Rows
    BY <2>2 DEF AccessInv, TypeOK, Known
  <2> QED
    BY <2>3, <2>4
<1>8. ASSUME NEW p \in Processes, Restart(p)
      PROVE  AccessInv'
  BY <1>8, RestartStep
<1>9. CASE UNCHANGED vars
  BY <1>9 DEF vars, AccessInv, TypeOK, JobShape, Known, StaleExplained, FetchExplained, RequestOK,
       Undoubted, GoodGoesIn, BadStaysOut, DistrustedGoesIn, OtherAdmin, Clearing, Holders, GoodSession,
       ActiveAdmins
<1> QED
  BY <1>1, <1>2, <1>3, <1>4, <1>5, <1>6, <1>7, <1>8, <1>9 DEF Next

LEMMA AccessInvHolds == Spec => []AccessInv
BY InitAccess, NextAccess, PTL DEF Spec

(* However many processes, browsers and employees there are, an old        *)
(* snapshot has one of its excuses (employees.rs:32, 221-295).             *)
THEOREM StaleTheorem == Spec => []StaleExplained
<1>1. AccessInv => StaleExplained
  BY DEF AccessInv
<1> QED
  BY <1>1, AccessInvHolds, PTL

(* A request that was good when it began and is running has the row of its *)
(* employee, hence the pages of that row (session.rs:74-90).               *)
THEOREM PresentRoleTheorem == Spec => []RunsWithPresentRole
<1>1. AccessInv => RunsWithPresentRole
  BY DEF AccessInv, RequestOK, GoodGoesIn, RunsWithPresentRole, Runs
<1> QED
  BY <1>1, AccessInvHolds, PTL

(* No request begins to run on a session that was known to be over         *)
(* (session.rs:48-92).                                                     *)
THEOREM OldSessionsTheorem == Spec => OldSessionsEnd
<1>1. AccessInv' => (\A b \in Browsers : Runs(b)' /\ ~Runs(b) => job'[b].standing # "bad")
  BY DEF AccessInv, RequestOK, BadStaysOut, Looking, Runs
<1> QED
  BY <1>1, AccessInvHolds, PTL DEF OldSessionsEnd

\* Who loses a session by looking: never one who stood well.
LEMMA SignedOut ==
    ASSUME AccessInv, [Next]_vars, NEW b \in Browsers, cookie[b] # None, cookie'[b] = None
    PROVE  /\ \A p \in Route[b] : Begin(b, p) => Standing(b, p) \notin {"good", "distrusted"}
           /\ job[b].at \in {"put", "again", "putAgain"} => job[b].standing \notin {"good", "distrusted"}
<1>0. /\ job \in [Browsers -> Jobs] /\ job[b] \in Jobs /\ JobShape(job[b]) /\ RequestOK(b)
      /\ cookie \in [Browsers -> Nat \cup {None}]
      /\ cache \in [Processes -> [People -> Rows \cup {None}]]
  BY RequestFacts
<1>1. ASSUME NEW p \in Route[b], Begin(b, p), Standing(b, p) \in {"good", "distrusted"}
      PROVE  FALSE
  <2> DEFINE e == Owner[b]
             request == [Idle EXCEPT !.at = "read", !.proc = p, !.standing = Standing(b, p)]
  <2>0. p \in Processes /\ e \in People
    BY AccessAssumption
  <2>1. cache[p][e] # None /\ Settle(b, request, cache[p][e], TRUE)
    BY <1>1 DEF Begin
  <2>2. Verdict(b, cache[p][e], TRUE) = "refused"
    BY <2>1 DEF Settle
  <2>3. ~cache[p][e].active
    BY <2>2 DEF Verdict
  <2>4. Standing(b, p) = "good"
    BY <1>1, <2>0, <2>1, <2>3, StandingFacts
  <2>5. cache[p][e] = emp[e] /\ GoodSession(b)
    BY <2>0, <2>1, <2>4, StandingFacts DEF AccessInv, StaleExplained
  <2> QED
    BY <2>3, <2>5 DEF GoodSession
<1>2. ASSUME job[b].at \in {"put", "again", "putAgain"}, job[b].standing \in {"good", "distrusted"}
      PROVE  FALSE
  <2>0. /\ job[b].at \notin {"idle", "login", "clear", "leave"}
        /\ job[b].at \in {"put", "putAgain"} => job[b].snap # None
    BY <1>0, <1>2 DEF JobShape
  <2>1. Put(b) \/ Again(b)
    <3>1. ASSUME NEW c \in Browsers, cookie' # cookie,
                 \/ \E p \in Route[c] : Begin(c, p)
                 \/ Put(c) \/ Again(c) \/ LoginDone(c) \/ Logout(c) \/ Clear(c)
          PROVE  c = b
      <4>1. CASE LoginDone(c) \/ Logout(c) \/ Clear(c)
        BY <1>0, <4>1 DEF LoginDone, Logout, Clear
      <4>2. CASE (\E p \in Route[c] : Begin(c, p)) \/ Put(c) \/ Again(c)
        <5>1. cookie' = [cookie EXCEPT ![c] = None]
          BY <3>1, <4>2 DEF Begin, Put, Again, Settle
        <5> QED
          BY <1>0, <5>1
      <4> QED
        BY <3>1, <4>1, <4>2
    <3>2. cookie' # cookie
      OBVIOUS
    <3>3. \E c \in Browsers :
             \/ \E p \in Route[c] : Begin(c, p)
             \/ Put(c) \/ Again(c) \/ LoginDone(c) \/ Logout(c) \/ Clear(c)
      <4>1. ASSUME NEW c \in Browsers,
                   \/ Read(c) \/ Drop(c) \/ Serve(c) \/ LoginRead(c) \/ ChangePinBegin(c)
                   \/ ToggleCount(c) \/ Abort(c)
                   \/ \E e \in People : ToggleBegin(c, e)
            PROVE  cookie' = cookie
        BY <4>1 DEF Read, Drop, Serve, LoginRead, ChangePinBegin, ToggleCount, Abort, ToggleBegin
      <4>2. ASSUME NEW c \in Browsers,
                   \/ ChangeOwnPin(c) \/ BumpSessionVersion(c) \/ ToggleWrite(c)
                   \/ \E e \in People : ResetPin(c, e)
                   \/ \E e \in People, role \in Given : UpdateEmployee(c, e, role) \/ CreateEmployee(c, e, role)
            PROVE  cookie' = cookie
        BY <4>2 DEF ChangeOwnPin, BumpSessionVersion, ToggleWrite, ResetPin, UpdateEmployee, CreateEmployee, Change
      <4>3. ResetAdmin \/ (\E p \in Processes : Restart(p)) \/ UNCHANGED vars => cookie' = cookie
        BY DEF ResetAdmin, Change, Restart, vars
      <4> QED
        BY <3>2, <4>1, <4>2, <4>3 DEF Next
    <3> QED
      BY <2>0, <3>1, <3>2, <3>3 DEF Begin, LoginDone, Logout, Clear
  <2> DEFINE snap == IF job[b].at = "again" THEN cache[job[b].proc][Owner[b]] ELSE job[b].snap
  <2>2. Verdict(b, snap, job[b].at = "put") = "refused" /\ snap # None
    <3>1. CASE job[b].at = "again"
      <4>1. snap # None /\ Settle(b, job[b], snap, FALSE)
        BY <2>1, <3>1 DEF Put, Again
      <4>2. Verdict(b, snap, FALSE) = "refused"
        BY <4>1 DEF Settle
      <4>3. (job[b].at = "put") = FALSE
        BY <3>1
      <4> QED
        BY <4>1, <4>2, <4>3
    <3>2. CASE job[b].at # "again"
      <4>1. Settle(b, job[b], snap, job[b].at = "put")
        BY <2>1, <3>2 DEF Put, Again
      <4>2. Verdict(b, snap, job[b].at = "put") = "refused"
        BY <4>1 DEF Settle
      <4> QED
        BY <1>2, <2>0, <3>2, <4>2
    <3> QED
      BY <3>1, <3>2
  <2>3. snap = emp[Owner[b]] /\ GoodSession(b)
    BY <1>0, <1>2, <2>2 DEF RequestOK, GoodGoesIn, DistrustedGoesIn
  <2> QED
    BY <2>2, <2>3 DEF GoodSession, Verdict
<1> QED
  BY <1>1, <1>2

(* No one is signed out by a cache (session.rs:59-71).                     *)
THEOREM ValidSessionsTheorem == Spec => ValidSessionsServed
<1>1. AccessInv /\ [Next]_vars =>
         (\A b \in Browsers : cookie[b] # None /\ cookie'[b] = None =>
            /\ \A p \in Route[b] : Begin(b, p) => Standing(b, p) \notin {"good", "distrusted"}
            /\ job[b].at \in {"put", "again", "putAgain"}
                  => job[b].standing \notin {"good", "distrusted"})
  BY SignedOut
<1> QED
  BY <1>1, AccessInvHolds, PTL DEF Spec, ValidSessionsServed

\* A change that keeps role and activity, or only adds an administrator.
LEMMA AdminsKept ==
    ASSUME TypeOK, NEW e \in People, NEW row \in Rows, emp' = [emp EXCEPT ![e] = row],
           e \in ActiveAdmins(emp) => row.active /\ row.role = "admin"
    PROVE  ActiveAdmins(emp) \subseteq ActiveAdmins(emp')
BY NoNone DEF TypeOK, ActiveAdmins

\* What takes the last administrator away.
LEMMA LastAdmin ==
    ASSUME AccessInv, [Next]_vars, ActiveAdmins(emp) # {}, ActiveAdmins(emp') = {}
    PROVE  \E b \in Browsers :
              \/ job[b].at = "deactivate" /\ ~job[b].alone
              \/ Runs(b) /\ Owner[b] \notin ActiveAdmins(emp)
<1>0. TypeOK /\ emp \in [People -> Rows \cup {None}]
  BY DEF AccessInv, TypeOK
<1>1. ASSUME NEW b \in Browsers, ChangeOwnPin(b) \/ BumpSessionVersion(b)
      PROVE  FALSE
  <2>1. Owner[b] \in People /\ emp[Owner[b]] \in Rows
    BY <1>1, RequestFacts DEF ChangeOwnPin, BumpSessionVersion, Runs
  <2>2. PICK row \in Rows : /\ emp' = [emp EXCEPT ![Owner[b]] = row]
                            /\ row.active = emp[Owner[b]].active /\ row.role = emp[Owner[b]].role
    <3>1. CASE ChangeOwnPin(b)
      <4> DEFINE row == [emp[Owner[b]] EXCEPT !.must = FALSE]
      <4>1. row \in Rows /\ row.active = emp[Owner[b]].active /\ row.role = emp[Owner[b]].role
        BY <2>1 DEF Rows
      <4>2. emp' = [emp EXCEPT ![Owner[b]] = row]
        BY <3>1 DEF ChangeOwnPin, Change
      <4> QED
        BY <4>1, <4>2
    <3>2. CASE BumpSessionVersion(b)
      <4> DEFINE row == [emp[Owner[b]] EXCEPT !.version = @ + 1]
      <4>1. row \in Rows /\ row.active = emp[Owner[b]].active /\ row.role = emp[Owner[b]].role
        BY <2>1 DEF Rows
      <4>2. emp' = [emp EXCEPT ![Owner[b]] = row]
        BY <3>2 DEF BumpSessionVersion, Change
      <4> QED
        BY <4>1, <4>2
    <3> QED
      BY <1>1, <3>1, <3>2
  <2>3. Owner[b] \in ActiveAdmins(emp) => row.active /\ row.role = "admin"
    BY <2>2 DEF ActiveAdmins
  <2> QED
    BY <1>0, <2>1, <2>2, <2>3, AdminsKept
<1>2. ASSUME NEW b \in Browsers, NEW e \in People, ResetPin(b, e)
      PROVE  FALSE
  <2> DEFINE row == Reset(emp[e])
  <2>1. emp[e] \in Rows /\ emp' = [emp EXCEPT ![e] = row]
    BY <1>0, <1>2 DEF ResetPin, Change
  <2>2. row \in Rows
    BY <2>1, RowFacts
  <2>3. row.active = emp[e].active /\ row.role = emp[e].role
    BY <2>1 DEF Reset, Rows
  <2>4. e \in ActiveAdmins(emp) => row.active /\ row.role = "admin"
    BY <2>3 DEF ActiveAdmins
  <2> HIDE DEF row
  <2> QED
    BY <1>0, <2>1, <2>2, <2>4, AdminsKept
<1>3. ASSUME NEW b \in Browsers, NEW e \in People, NEW role \in Given, UpdateEmployee(b, e, role)
      PROVE  Runs(b) /\ Owner[b] \notin ActiveAdmins(emp)
  <2> DEFINE row == [emp[e] EXCEPT !.role = role]
  <2>1. /\ emp[e] \in Rows /\ emp' = [emp EXCEPT ![e] = row] /\ Runs(b)
        /\ e # Owner[b] \/ role = "admin"
    BY <1>0, <1>3 DEF UpdateEmployee, MayUpdate, AsAdmin, Change
  <2>2. row.active = emp[e].active /\ row.role = role
    BY <2>1 DEF Rows
  <2> HIDE DEF row
  <2>3. Owner[b] \in ActiveAdmins(emp) => Owner[b] \in ActiveAdmins(emp')
    <3>1. row # None
      BY <2>1, RowFacts DEF row
    <3> QED
      BY <1>0, <2>1, <2>2, <3>1 DEF ActiveAdmins
  <2> QED
    BY <2>1, <2>3
<1>4. ASSUME NEW b \in Browsers, NEW e \in People, NEW role \in Given, CreateEmployee(b, e, role)
      PROVE  FALSE
  <2>1. emp[e] = None /\ emp' = [emp EXCEPT ![e] = NewRow(role)]
    BY <1>4 DEF CreateEmployee, Change
  <2>2. e \notin ActiveAdmins(emp) /\ NewRow(role) \in Rows
    BY <2>1, RowFacts DEF ActiveAdmins
  <2> QED
    BY <1>0, <2>1, <2>2, AdminsKept
<1>5. ASSUME NEW b \in Browsers, ToggleWrite(b)
      PROVE  job[b].at = "deactivate" /\ ~job[b].alone
  <2> DEFINE e == job[b].target
             active == (job[b].at = "activate")
             row == [emp[e] EXCEPT !.active = active]
  <2>1. e \in People /\ emp[e] \in Rows /\ job[b].at \in {"deactivate", "activate"} /\ RequestOK(b)
    BY <1>5, RequestFacts DEF ToggleWrite, JobShape
  <2>2. emp' = [emp EXCEPT ![e] = row]
    BY <1>5 DEF ToggleWrite, Change
  <2>3. row \in Rows /\ row.role = emp[e].role /\ row.active = active
    BY <2>1 DEF Rows
  <2> HIDE DEF row
  <2>4. CASE job[b].at = "activate"
    <3>1. row.active
      BY <2>3, <2>4
    <3>2. e \in ActiveAdmins(emp) => row.active /\ row.role = "admin"
      BY <2>3, <3>1 DEF ActiveAdmins
    <3> QED
      BY <1>0, <2>1, <2>2, <2>3, <3>2, AdminsKept
  <2>5. CASE job[b].at = "deactivate" /\ job[b].alone
    <3>1. e \notin ActiveAdmins(emp) \/ \E a \in ActiveAdmins(emp) : a # e
      BY <2>1, <2>5 DEF RequestOK, OtherAdmin
    <3>2. PICK a \in ActiveAdmins(emp) : a # e
      BY <3>1
    <3>3. a \in ActiveAdmins(emp')
      BY <1>0, <2>1, <2>2, <3>2 DEF ActiveAdmins
    <3> QED
      BY <3>3
  <2> QED
    BY <2>1, <2>4, <2>5
<1>6. CASE ResetAdmin
  <2> DEFINE row == [Reset(emp[Admin]) EXCEPT !.active = TRUE, !.role = "admin"]
  <2>1. Admin \in People /\ emp[Admin] \in Rows
    BY <1>0, AccessAssumption DEF AccessInv, Known
  <2>2. emp' = [emp EXCEPT ![Admin] = row]
    BY <1>6 DEF ResetAdmin, Change
  <2>3. row \in Rows /\ Reset(emp[Admin]) \in Rows
    BY <2>1, RowFacts
  <2>4. row.active /\ row.role = "admin"
    BY <2>3 DEF Rows
  <2> HIDE DEF row
  <2> QED
    BY <1>0, <2>1, <2>2, <2>3, <2>4, AdminsKept
<1>7. emp' # emp
  OBVIOUS
<1> QED
  BY <1>1, <1>2, <1>3, <1>4, <1>5, <1>6, <1>7
     DEF Next, vars, Begin, Read, Put, Drop, Again, Serve, LoginRead, LoginDone, Logout, ChangePinBegin,
         ToggleBegin, ToggleCount, Clear, Abort, Restart

(* The last active administrator goes only by a deactivation that another  *)
(* change overtook, or by a demotion by one who is none any more           *)
(* (handlers/admin/employees.rs:321, 512).                                 *)
THEOREM AdminsTheorem == Spec => AdminsRemain
<1>1. AccessInv /\ [Next]_vars =>
         (ActiveAdmins(emp) # {} /\ ActiveAdmins(emp') = {} =>
          \E b \in Browsers :
             \/ job[b].at = "deactivate" /\ ~job[b].alone
             \/ Runs(b) /\ Owner[b] \notin ActiveAdmins(emp))
  BY LastAdmin
<1> QED
  BY <1>1, AccessInvHolds, PTL DEF Spec, AdminsRemain

-----------------------------------------------------------------------------
(* PinReset.  The reviews of a request that were written.                  *)
Reviewed(a) == {r \in Reviews : review[r].of = a /\ review[r].at = "written"}

(* Requests were made by somebody, and reviews are of requests.            *)
Shaped ==
    /\ \A a \in Asks : ask[a].at \in {"insert"} \cup RequestStates => ask[a].who \in Askers
    /\ \A r \in Reviews : review[r].at \in {"manage", "write", "written"} =>
          review[r].of \in Asks /\ ask[review[r].of].at \in RequestStates

(* A review that nothing overtook has its request pending before it; a     *)
(* pending request has no review behind it, one that is decided and was    *)
(* not contested has one, and that one decided it.                         *)
Decided ==
    /\ \A r \in Reviews : review[r].at \in {"manage", "write"} /\ review[r].since = {} =>
          ask[review[r].of].at = "pending"
    /\ \A a \in Asks :
        /\ ask[a].at \notin Verdicts => Reviewed(a) = {}
        /\ ask[a].at = "approved" => resets[a] # {}
        /\ resets[a] = {r \in Reviewed(a) : review[r].verdict = "approved"}
        /\ ~Contested(a) => \A r, q \in Reviewed(a) : r = q
        /\ ~Contested(a) => \A r \in Reviewed(a) : ask[a].at = review[r].verdict

PinInv == PinTypeOK /\ Shaped /\ OnePending /\ Decided

LEMMA PendingFacts ==
    ASSUME PinTypeOK, NEW e, NEW a \in Asks
    PROVE  a \in PendingOf(e) <=> ask[a].at = "pending" /\ ask[a].who = e
BY DEF PinTypeOK, PendingOf

LEMMA PinInitially == PinInit => PinInv
<1> SUFFICES ASSUME PinInit PROVE PinInv
  OBVIOUS
<1>1. \A r \in Reviews : review[r].at = "new"
  BY DEF PinInit, NoReview
<1>2. \A a \in Asks : ask[a].at = "new"
  BY DEF PinInit, NotAsked
<1>3. PinTypeOK
  BY DEF PinInit, PinTypeOK, NotAsked, NoReview, Verdicts
<1>4. Shaped
  BY <1>1, <1>2 DEF Shaped, RequestStates
<1>5. OnePending
  BY <1>2, <1>3, PendingFacts DEF OnePending, PendingOf
<1>6. Decided
  BY <1>1, <1>2 DEF Decided, Reviewed, PinInit, Verdicts
<1> QED
  BY <1>3, <1>4, <1>5, <1>6 DEF PinInv

(* What an employee does to a request that nobody has reviewed.            *)
LEMMA AskStep ==
    ASSUME PinInv, UNCHANGED <<team, review, resets>>,
           NEW a \in Asks, ask[a].at \in {"new", "insert"},
           NEW row, ask' = [ask EXCEPT ![a] = row],
           row \in [at : {"insert", "pending", "refused"}, who : Askers \cup {None}],
           row.at \in {"insert", "pending"} => row.who \in Askers,
           row.at = "pending" => PendingOf(row.who) = {}
    PROVE  PinInv'
<1>1. \A r \in Reviews : review[r].at \in {"manage", "write", "written"} => review[r].of # a
  BY DEF PinInv, Shaped, RequestStates
<1>2. /\ ask'[a] = row
      /\ \A b \in Asks : b # a => ask'[b] = ask[b]
  BY DEF PinInv, PinTypeOK
<1>3. PinTypeOK'
  BY DEF PinInv, PinTypeOK, RequestStates
<1>4. Shaped'
  BY <1>1, <1>2 DEF PinInv, Shaped, RequestStates
<1>5. OnePending'
  <2> SUFFICES ASSUME NEW e \in Askers, NEW b \in PendingOf(e)', NEW c \in PendingOf(e)', b # c
               PROVE  FALSE
    BY DEF OnePending
  <2>1. b \in Asks /\ c \in Asks
    BY DEF PendingOf
  <2>2. /\ ask'[b].at = "pending" /\ ask'[b].who = e
        /\ ask'[c].at = "pending" /\ ask'[c].who = e
    BY DEF PendingOf
  <2>3. CASE b # a /\ c # a
    <3>1. b \in PendingOf(e) /\ c \in PendingOf(e)
      BY <1>2, <2>1, <2>2, <2>3, PendingFacts DEF PinInv
    <3> QED
      BY <3>1 DEF PinInv, OnePending
  <2>4. CASE b = a
    <3>1. c \in PendingOf(e) /\ PendingOf(e) = {}
      BY <1>2, <2>1, <2>2, <2>4, PendingFacts DEF PinInv
    <3> QED
      BY <3>1
  <2>5. CASE c = a
    <3>1. b \in PendingOf(e) /\ PendingOf(e) = {}
      BY <1>2, <2>1, <2>2, <2>5, PendingFacts DEF PinInv
    <3> QED
      BY <3>1
  <2> QED
    BY <2>3, <2>4, <2>5
<1>6. Decided'
  <2>1. ASSUME NEW b \in Asks
        PROVE  Reviewed(b)' = Reviewed(b) /\ (Contested(b)' <=> Contested(b))
    BY DEF Reviewed, Contested
  <2>2. Reviewed(a) = {} /\ ask[a].at \notin Verdicts /\ resets[a] = {}
    BY <1>1 DEF PinInv, Decided, Reviewed, Verdicts
  <2>3. row.at \notin Verdicts
    BY DEF Verdicts
  <2>4. ASSUME NEW r \in Reviews, review[r].at \in {"manage", "write"}, review[r].since = {}
        PROVE  ask'[review[r].of].at = "pending"
    BY <1>1, <1>2, <2>4 DEF PinInv, Decided, Shaped
  <2>5. ASSUME NEW b \in Asks
        PROVE  /\ ask'[b].at \notin Verdicts => Reviewed(b) = {}
               /\ ask'[b].at = "approved" => resets[b] # {}
               /\ resets[b] = {r \in Reviewed(b) : review[r].verdict = "approved"}
               /\ ~Contested(b) => \A r, q \in Reviewed(b) : r = q
               /\ ~Contested(b) => \A r \in Reviewed(b) : ask'[b].at = review[r].verdict
    <3>1. CASE b = a
      BY <1>2, <2>2, <2>3, <3>1 DEF Verdicts
    <3>2. CASE b # a
      BY <1>2, <3>2 DEF PinInv, Decided
    <3> QED
      BY <3>1, <3>2
  <2> QED
    BY <2>1, <2>4, <2>5 DEF Decided
<1> QED
  BY <1>3, <1>4, <1>5, <1>6 DEF PinInv

(* What a review does before it writes.                                    *)
LEMMA ReviewStep ==
    ASSUME PinInv, UNCHANGED <<team, ask, resets>>,
           NEW r \in Reviews, review[r].at # "written",
           NEW row, review' = [review EXCEPT ![r] = row],
           row \in [at : {"manage", "write", "refused"}, of : Asks \cup {None},
                    by : Reviewers \cup {None}, admin : BOOLEAN, verdict : Verdicts,
                    since : SUBSET (Verdicts \cup {"cancelled"})],
           row.at # "refused" => /\ row.of \in Asks /\ ask[row.of].at \in RequestStates
                                 /\ row.since = {} => ask[row.of].at = "pending"
    PROVE  PinInv'
<1>1. /\ review'[r] = row
      /\ \A q \in Reviews : q # r => review'[q] = review[q]
  BY DEF PinInv, PinTypeOK
<1>2. PinTypeOK'
  BY DEF PinInv, PinTypeOK
<1>3. Shaped'
  BY <1>1 DEF PinInv, Shaped
<1>4. OnePending'
  BY DEF PinInv, OnePending, PendingOf
<1>5. Decided'
  <2>1. ASSUME NEW b \in Asks
        PROVE  Reviewed(b)' = Reviewed(b)
    BY <1>1 DEF Reviewed
  <2>2. \A b \in Asks : \A q \in Reviewed(b) : review'[q] = review[q]
    BY <1>1 DEF Reviewed
  <2>3. ASSUME NEW b \in Asks
        PROVE  Contested(b)' <=> Contested(b)
    BY <1>1 DEF Contested
  <2>4. \A q \in Reviews : review'[q].at \in {"manage", "write"} /\ review'[q].since = {} =>
          ask[review'[q].of].at = "pending"
    BY <1>1 DEF PinInv, Decided
  <2> QED
    BY <2>1, <2>2, <2>3, <2>4 DEF PinInv, Decided
<1> QED
  BY <1>2, <1>3, <1>4, <1>5 DEF PinInv

(* The reviews under way of a request learn what happened to it.           *)
LEMMA TellFacts ==
    ASSUME PinInv, NEW a \in Asks, NEW what \in Verdicts \cup {"cancelled"}
    PROVE  /\ Tell(a, what) \in [Reviews -> [at : {"new", "manage", "write", "refused", "written"},
                                             of : Asks \cup {None}, by : Reviewers \cup {None},
                                             admin : BOOLEAN, verdict : Verdicts,
                                             since : SUBSET (Verdicts \cup {"cancelled"})]]
           /\ \A r \in Reviews :
                /\ Tell(a, what)[r].at = review[r].at /\ Tell(a, what)[r].of = review[r].of
                /\ Tell(a, what)[r].verdict = review[r].verdict
                /\ review[r].of = a /\ review[r].at \in {"manage", "write"} =>
                     Tell(a, what)[r].since # {}
                /\ ~(review[r].of = a /\ review[r].at \in {"manage", "write"}) =>
                     Tell(a, what)[r] = review[r]
<1>1. ASSUME NEW r \in Reviews
      PROVE  /\ Tell(a, what)[r] \in [at : {"new", "manage", "write", "refused", "written"},
                                      of : Asks \cup {None}, by : Reviewers \cup {None},
                                      admin : BOOLEAN, verdict : Verdicts,
                                      since : SUBSET (Verdicts \cup {"cancelled"})]
             /\ Tell(a, what)[r].at = review[r].at /\ Tell(a, what)[r].of = review[r].of
             /\ Tell(a, what)[r].verdict = review[r].verdict
             /\ review[r].of = a /\ review[r].at \in {"manage", "write"} => what \in Tell(a, what)[r].since
             /\ ~(review[r].of = a /\ review[r].at \in {"manage", "write"}) => Tell(a, what)[r] = review[r]
  BY DEF PinInv, PinTypeOK, Tell
<1> QED
  BY <1>1 DEF Tell

(* A request changes under a review in the eyes of the others.             *)
LEMMA CancelStep ==
    ASSUME PinInv, NEW a \in Asks, Cancel(a)
    PROVE  PinInv'
<1>1. /\ ask[a].at = "pending" /\ ask'[a].at = "cancelled" /\ ask'[a].who = ask[a].who
      /\ \A b \in Asks : b # a => ask'[b] = ask[b]
  BY DEF Cancel, PinInv, PinTypeOK
<1>2. /\ review' \in [Reviews -> [at : {"new", "manage", "write", "refused", "written"},
                                  of : Asks \cup {None}, by : Reviewers \cup {None},
                                  admin : BOOLEAN, verdict : Verdicts,
                                  since : SUBSET (Verdicts \cup {"cancelled"})]]
      /\ \A r \in Reviews :
            /\ review'[r].at = review[r].at /\ review'[r].of = review[r].of
            /\ review'[r].verdict = review[r].verdict
            /\ review[r].of = a /\ review[r].at \in {"manage", "write"} => review'[r].since # {}
            /\ ~(review[r].of = a /\ review[r].at \in {"manage", "write"}) => review'[r] = review[r]
      /\ UNCHANGED <<team, resets>>
  BY TellFacts DEF Cancel
<1>3. PinTypeOK'
  BY <1>2 DEF Cancel, PinInv, PinTypeOK, RequestStates
<1>4. Shaped'
  BY <1>1, <1>2 DEF PinInv, Shaped, RequestStates
<1>5. OnePending'
  <2>1. ASSUME NEW e \in Askers, NEW b \in PendingOf(e)'
        PROVE  b \in PendingOf(e)
    BY <1>1, <2>1 DEF PendingOf
  <2> QED
    BY <2>1 DEF PinInv, OnePending
<1>6. Decided'
  <2>1. ASSUME NEW b \in Asks
        PROVE  Reviewed(b)' = Reviewed(b) /\ \A r \in Reviewed(b) : review'[r] = review[r]
    BY <1>2 DEF Reviewed
  <2>2. ASSUME NEW b \in Asks
        PROVE  Contested(b)' <=> Contested(b)
    BY <2>1 DEF Contested, Reviewed
  <2>3. ASSUME NEW r \in Reviews, review'[r].at \in {"manage", "write"}, review'[r].since = {}
        PROVE  ask'[review'[r].of].at = "pending"
    <3>1. review[r].of # a /\ review'[r] = review[r]
      BY <1>2, <2>3
    <3> QED
      BY <1>1, <2>3, <3>1 DEF PinInv, Decided, Shaped
  <2>4. Reviewed(a) = {} /\ "cancelled" \notin Verdicts
    BY <1>1 DEF PinInv, Decided, Verdicts
  <2>5. ASSUME NEW b \in Asks
        PROVE  /\ ask'[b].at \notin Verdicts => Reviewed(b) = {}
               /\ ask'[b].at = "approved" => resets[b] # {}
               /\ ~Contested(b) => \A r \in Reviewed(b) : ask'[b].at = review[r].verdict
    BY <1>1, <2>4 DEF PinInv, Decided
  <2> QED
    BY <1>2, <2>1, <2>2, <2>3, <2>5 DEF PinInv, Decided
<1> QED
  BY <1>3, <1>4, <1>5, <1>6 DEF PinInv

(* The write of a review, whatever it decides.                             *)
LEMMA WriteStep ==
    ASSUME PinInv, NEW r \in Reviews, ApproveWrite(r) \/ DenyWrite(r)
    PROVE  PinInv'
<1> DEFINE a == review[r].of
           v == review[r].verdict
           row == [review[r] EXCEPT !.at = "written"]
<1>1. a \in Asks /\ ask[a].at \in RequestStates /\ v \in Verdicts /\ review[r].at = "write"
  BY DEF ApproveWrite, DenyWrite, PinInv, PinTypeOK, Shaped
<1>2. /\ ask' = [ask EXCEPT ![a].at = v] /\ review' = [Tell(a, v) EXCEPT ![r] = row]
      /\ UNCHANGED team
      /\ IF v = "approved" THEN resets' = [resets EXCEPT ![a] = @ \cup {r}] ELSE resets' = resets
  BY DEF ApproveWrite, DenyWrite, Verdicts
<1>3. /\ row \in [at : {"written"}, of : Asks, by : Reviewers \cup {None}, admin : BOOLEAN,
                  verdict : Verdicts, since : SUBSET (Verdicts \cup {"cancelled"})]
      /\ row.of = a /\ row.verdict = v /\ row.since = review[r].since
  BY <1>1 DEF PinInv, PinTypeOK
<1>4. /\ ask'[a].at = v /\ ask'[a].who = ask[a].who
      /\ \A b \in Asks : b # a => ask'[b] = ask[b]
  BY <1>1, <1>2 DEF PinInv, PinTypeOK
<1> HIDE DEF row
<1>5. /\ review' \in [Reviews -> [at : {"new", "manage", "write", "refused", "written"},
                                  of : Asks \cup {None}, by : Reviewers \cup {None},
                                  admin : BOOLEAN, verdict : Verdicts,
                                  since : SUBSET (Verdicts \cup {"cancelled"})]]
      /\ review'[r] = row
      /\ \A q \in Reviews : q # r =>
            /\ review'[q].at = review[q].at /\ review'[q].of = review[q].of
            /\ review[q].of = a /\ review[q].at \in {"manage", "write"} => review'[q].since # {}
            /\ ~(review[q].of = a /\ review[q].at \in {"manage", "write"}) => review'[q] = review[q]
  BY <1>1, <1>2, <1>3, TellFacts
<1>6. resets'[a] = (IF v = "approved" THEN resets[a] \cup {r} ELSE resets[a])
      /\ \A b \in Asks : b # a => resets'[b] = resets[b]
  BY <1>1, <1>2 DEF PinInv, PinTypeOK
<1>7. PinTypeOK'
  <2>1. ask' \in [Asks -> [at : {"new", "insert", "refused"} \cup RequestStates, who : Askers \cup {None}]]
    BY <1>1, <1>2 DEF PinInv, PinTypeOK, Verdicts, RequestStates
  <2>2. resets' \in [Asks -> SUBSET Reviews]
    BY <1>1, <1>2 DEF PinInv, PinTypeOK
  <2> QED
    BY <1>2, <1>5, <2>1, <2>2 DEF PinInv, PinTypeOK
<1> HIDE DEF v, a
<1>8. Shaped'
  <2>1. v \in RequestStates
    BY <1>1 DEF Verdicts, RequestStates
  <2> QED
    BY <1>1, <1>3, <1>4, <1>5, <2>1 DEF PinInv, Shaped
<1>9. OnePending'
  <2>1. ASSUME NEW e \in Askers, NEW b \in PendingOf(e)'
        PROVE  b \in PendingOf(e)
    BY <1>1, <1>4, <2>1 DEF PendingOf, Verdicts
  <2> QED
    BY <2>1 DEF PinInv, OnePending
<1>10. Decided'
  <2>1. ASSUME NEW b \in Asks
        PROVE  /\ r \notin Reviewed(b)
               /\ Reviewed(b)' = IF b = a THEN Reviewed(b) \cup {r} ELSE Reviewed(b)
               /\ \A q \in Reviewed(b) : review'[q] = review[q]
    BY <1>1, <1>3, <1>5 DEF Reviewed
  <2>2. ASSUME NEW b \in Asks, Contested(b)
        PROVE  Contested(b)'
    BY <2>1, <2>2 DEF Contested, Reviewed
  <2>3. ASSUME NEW q \in Reviews, review'[q].at \in {"manage", "write"}, review'[q].since = {}
        PROVE  ask'[review'[q].of].at = "pending"
    <3>1. q # r /\ review[q].of # a /\ review'[q] = review[q]
      BY <1>1, <1>3, <1>5, <2>3
    <3> QED
      BY <1>4, <2>3, <3>1 DEF PinInv, Decided, Shaped
  <2>4. ASSUME NEW b \in Asks, b = a
        PROVE  /\ ask'[b].at \in Verdicts
               /\ ask'[b].at = "approved" => resets'[b] # {}
               /\ resets'[b] = {q \in Reviewed(b)' : review'[q].verdict = "approved"}
               /\ ~Contested(b)' => \A p, q \in Reviewed(b)' : p = q
               /\ ~Contested(b)' => \A q \in Reviewed(b)' : ask'[b].at = review'[q].verdict
    <3>1. ask'[b].at = v /\ v \in Verdicts /\ review'[r].verdict = v
      BY <1>1, <1>3, <1>4, <1>5, <2>4
    <3>2. resets'[b] = {q \in Reviewed(b)' : review'[q].verdict = "approved"}
      BY <1>6, <2>1, <2>4, <3>1 DEF PinInv, Decided
    <3>3. v = "approved" => r \in resets'[b]
      BY <1>6, <2>4
    <3>4. ~Contested(b)' => Reviewed(b)' = {r}
      <4> SUFFICES ASSUME ~Contested(b)' PROVE Reviewed(b)' = {r}
        OBVIOUS
      <4>1. review'[r].of = b /\ review'[r].at = "written"
        BY <1>3, <1>5, <2>4
      <4>2. review[r].since \in SUBSET (Verdicts \cup {"cancelled"})
        BY DEF PinInv, PinTypeOK
      <4>3. review'[r].since = review[r].since /\ review'[r].since \cap {"approved", "denied", "cancelled"} = {}
        BY <1>3, <1>5, <4>1 DEF Contested
      <4>4. review[r].since = {}
        BY <4>2, <4>3 DEF Verdicts
      <4>5. ask[a].at = "pending"
        BY <1>1, <4>4 DEF PinInv, Decided, a
      <4>6. Reviewed(b) = {}
        BY <2>4, <4>5 DEF PinInv, Decided, Verdicts
      <4> QED
        BY <2>1, <2>4, <4>6
    <3> QED
      BY <3>1, <3>2, <3>3, <3>4
  <2>5. ASSUME NEW b \in Asks, b # a
        PROVE  /\ ask'[b].at \notin Verdicts => Reviewed(b)' = {}
               /\ ask'[b].at = "approved" => resets'[b] # {}
               /\ resets'[b] = {q \in Reviewed(b)' : review'[q].verdict = "approved"}
               /\ ~Contested(b)' => \A p, q \in Reviewed(b)' : p = q
               /\ ~Contested(b)' => \A q \in Reviewed(b)' : ask'[b].at = review'[q].verdict
    BY <1>4, <1>6, <2>1, <2>2, <2>5 DEF PinInv, Decided
  <2> QED
    BY <2>3, <2>4, <2>5 DEF Decided
<1> QED
  BY <1>7, <1>8, <1>9, <1>10 DEF PinInv

LEMMA PinStep ==
    ASSUME PinInv, [PinNext]_pinVars
    PROVE  PinInv'
<1>1. CASE \E t \in Rosters : Reassign(t)
  <2>1. team' \in Rosters /\ UNCHANGED <<ask, review, resets>>
    BY <1>1 DEF Reassign
  <2> QED
    BY <2>1 DEF PinInv, PinTypeOK, Shaped, OnePending, PendingOf, Decided, Reviewed, Contested
<1>2. ASSUME NEW a \in Asks, NEW e \in Askers, AskBegin(a, e)
      PROVE  PinInv'
  <2> DEFINE row == [at |-> "insert", who |-> e]
  <2>1. /\ row \in [at : {"insert", "pending", "refused"}, who : Askers \cup {None}]
        /\ row.at = "insert" /\ row.who = e
    OBVIOUS
  <2>2. ask' = [ask EXCEPT ![a] = row] /\ ask[a].at = "new" /\ UNCHANGED <<team, review, resets>>
    BY <1>2 DEF AskBegin
  <2> HIDE DEF row
  <2> QED
    BY <2>1, <2>2, AskStep
<1>3. ASSUME NEW a \in Asks, AskInsert(a)
      PROVE  PinInv'
  <2> DEFINE row == [ask[a] EXCEPT !.at = IF PendingOf(ask[a].who) = {} THEN "pending" ELSE "refused"]
  <2>1. ask[a].at = "insert" /\ ask[a].who \in Askers
    BY <1>3 DEF AskInsert, PinInv, Shaped
  <2>2. /\ row \in [at : {"insert", "pending", "refused"}, who : Askers \cup {None}]
        /\ row.who = ask[a].who
        /\ row.at = IF PendingOf(ask[a].who) = {} THEN "pending" ELSE "refused"
    BY <2>1 DEF PinInv, PinTypeOK
  <2>3. ask' = [ask EXCEPT ![a] = row] /\ UNCHANGED <<team, review, resets>>
    BY <1>3 DEF AskInsert
  <2> HIDE DEF row
  <2> QED
    BY <2>1, <2>2, <2>3, AskStep
<1>4. ASSUME NEW a \in Asks, Cancel(a)
      PROVE  PinInv'
  BY <1>4, CancelStep
<1>5. ASSUME NEW r \in Reviews, NEW a \in Asks, NEW v \in Reviewers, NEW verdict \in Verdicts,
             ReviewLoad(r, a, v, verdict)
      PROVE  PinInv'
  <2> DEFINE row == [NoReview EXCEPT !.at = "manage", !.of = a, !.by = v,
                                     !.admin = IsAdmin(team, v), !.verdict = verdict]
  <2>1. IsAdmin(team, v) \in BOOLEAN
    BY DEF IsAdmin
  <2>2. /\ row \in [at : {"manage", "write", "refused"}, of : Asks \cup {None},
                     by : Reviewers \cup {None}, admin : BOOLEAN, verdict : Verdicts,
                     since : SUBSET (Verdicts \cup {"cancelled"})]
        /\ row.of = a
    BY <2>1 DEF NoReview
  <2>3. /\ review' = [review EXCEPT ![r] = row] /\ review[r].at = "new" /\ ask[a].at = "pending"
        /\ UNCHANGED <<team, ask, resets>>
    BY <1>5 DEF ReviewLoad
  <2>4. ask[a].at \in RequestStates
    BY <2>3 DEF RequestStates
  <2> HIDE DEF row
  <2> QED
    BY <2>2, <2>3, <2>4, ReviewStep
<1>6. ASSUME NEW r \in Reviews, NEW at \in {"write", "refused"},
             review[r].at \in {"manage", "write"},
             review' = [review EXCEPT ![r].at = at], UNCHANGED <<team, ask, resets>>
      PROVE  PinInv'
  <2> DEFINE row == [review[r] EXCEPT !.at = at]
  <2>1. /\ row \in [at : {"manage", "write", "refused"}, of : Asks \cup {None},
                     by : Reviewers \cup {None}, admin : BOOLEAN, verdict : Verdicts,
                     since : SUBSET (Verdicts \cup {"cancelled"})]
        /\ row.of = review[r].of /\ row.since = review[r].since
    BY ZenonT(60) DEF PinInv, PinTypeOK
  <2>2. review' = [review EXCEPT ![r] = row]
    BY <1>6
  <2>3. /\ review[r].of \in Asks /\ ask[review[r].of].at \in RequestStates
        /\ review[r].since = {} => ask[review[r].of].at = "pending"
    BY <1>6 DEF PinInv, Shaped, Decided
  <2>4. review[r].at # "written" /\ UNCHANGED <<team, ask, resets>>
    BY <1>6
  <2> HIDE DEF row
  <2>5. row.at # "refused" => /\ row.of \in Asks /\ ask[row.of].at \in RequestStates
                              /\ row.since = {} => ask[row.of].at = "pending"
    BY <2>1, <2>3
  <2> QED
    BY <2>1, <2>2, <2>4, <2>5, ReviewStep
<1>7. ASSUME NEW r \in Reviews, ReviewManage(r)
      PROVE  PinInv'
  BY <1>6, <1>7 DEF ReviewManage
<1>8. ASSUME NEW r \in Reviews, ApproveWrite(r) \/ DenyWrite(r)
      PROVE  PinInv'
  BY <1>8, WriteStep
<1>9. CASE PinAbort
  <2>1. ASSUME NEW a \in Asks, ask[a].at = "insert",
               ask' = [ask EXCEPT ![a] = [NotAsked EXCEPT !.at = "refused"]],
               UNCHANGED <<team, review, resets>>
        PROVE  PinInv'
    <3> DEFINE row == [NotAsked EXCEPT !.at = "refused"]
    <3>1. row \in [at : {"insert", "pending", "refused"}, who : Askers \cup {None}] /\ row.at = "refused"
      BY DEF NotAsked
    <3>2. ask' = [ask EXCEPT ![a] = row]
      BY <2>1
    <3> HIDE DEF row
    <3> QED
      BY <2>1, <3>1, <3>2, AskStep
  <2> QED
    BY <1>6, <1>9, <2>1 DEF PinAbort
<1>10. CASE UNCHANGED pinVars
  BY <1>10 DEF pinVars, PinInv, PinTypeOK, Shaped, OnePending, PendingOf, Decided, Reviewed, Contested
<1> QED
  BY <1>1, <1>2, <1>3, <1>4, <1>5, <1>7, <1>8, <1>9, <1>10 DEF PinNext

(* Requests are reviewed in the states PinInv describes.                   *)
LEMMA PinInvHolds == PinSpec => []PinInv
BY PinInitially, PinStep, PTL DEF PinSpec

(* Requests for a PIN: one pending request of an employee, one reset of a  *)
(* request whose reviews did not overlap, and a queue for whoever may      *)
(* decide (services/pin_reset.rs).                                         *)
THEOREM ResetsTheorem == PinSpec => []ResetsAccounted
<1>1. PinInv => ResetsAccounted
  <2> SUFFICES ASSUME PinInv PROVE ResetsAccounted
    OBVIOUS
  <2>1. OnePending
    BY DEF PinInv
  <2>2. ASSUME NEW a \in Asks
        PROVE  /\ ask[a].at \in {"new", "insert", "refused", "pending"} => resets[a] = {}
               /\ ask[a].at = "cancelled" => resets[a] = {}
               /\ ask[a].at = "approved" => resets[a] # {}
               /\ ~Contested(a) => \A r, q \in resets[a] : r = q
               /\ ~Contested(a) /\ resets[a] # {} => ask[a].at = "approved"
    BY DEF PinInv, Decided, Verdicts
  <2>3. ASSUME NEW v \in Reviewers
        PROVE  {a \in Asks : ask[a].at = "pending" /\ CanManage(team, v, ask[a].who)} \subseteq Queue(team, v)
    BY DEF CanManage, Queue
  <2> QED
    BY <2>1, <2>2, <2>3 DEF ResetsAccounted
<1> QED
  BY <1>1, PinInvHolds, PTL

-----------------------------------------------------------------------------
(* RateLimit.  What the requests under way have in hand, and what the      *)
(* failures are of: a request fails once.                                  *)
JobRows == [at : {"new", "over"} \cup Under, kind : Kinds, account : Accounts \cup {Table},
            address : Addresses \cup {Table}, on : Places]
MarkRows == [by : Attempts, time : Times]
FailureRows == [by : Attempts, at : Places, kind : Kinds, name : Names, time : Times]

JobsShaped ==
    \A a \in Attempts :
        attempt[a].at \in Under => /\ attempt[a].account \in Accounts /\ attempt[a].address \in Addresses
                                   /\ attempt[a].at # "noteAddress" => attempt[a].kind # "post"

FailuresShaped ==
    /\ \A f \in failed :
        LET j == attempt[f.by] IN
        /\ f.time <= now
        /\ \/ j.at = "over"
           \/ /\ j.at \in {"noteAccount", "noteAddress"} /\ j.kind # "post"
              /\ f.at = j.on /\ f.kind = j.kind /\ f.name \in NamesOf(j)
    /\ \A f, g \in failed : f.by = g.by /\ f.name = g.name => f = g

(* A failure that is not too old is recorded, or about to be.              *)
Noted(f) == \E m \in marks[f.at][f.kind][f.name] : m.by = f.by /\ m.time >= f.time
Unnoted(f) ==
    \/ attempt[f.by].at = "noteAccount"
    \/ attempt[f.by].at = "noteAddress" /\ f.name \in Addresses

Counted == \A f \in failed : Recent(f.kind, f.time) => Noted(f) \/ Unnoted(f)

(* The attempts that a look at the key let through and that failed or may  *)
(* fail yet.                                                               *)
FailuresOf(p, k, n) == {f \in failed : f.at = p /\ f.kind = k /\ f.name = n /\ Recent(k, f.time)}
Past(p, k, n) == {a \in UnderWay(attempt, p, k, n) : n \in Addresses \/ attempt[a].at # "account"}
LetThrough(p, k, n) == {f.by : f \in FailuresOf(p, k, n)} \cup Past(p, k, n)

Bounded(p, k, n) == Cardinality(LetThrough(p, k, n)) < Limit(k, n) + peak[p][k][n]

LimitInv ==
    /\ LimitTypeOK /\ JobsShaped /\ FailuresShaped /\ Counted
    /\ \A p \in Places, k \in Kinds, n \in Names :
        /\ \A m \in marks[p][k][n] : m.time <= now
        /\ Cardinality(UnderWay(attempt, p, k, n)) <= peak[p][k][n]
        /\ Bounded(p, k, n)

LEMMA WindowFacts ==
    /\ \A k \in Kinds : Window(k) \in Nat /\ Window(k) <= Long
    /\ \A k \in Kinds, n \in Names : Limit(k, n) \in Nat /\ Limit(k, n) > 0
BY RateLimitAssumption DEF Window, Limit

(* What came later is recent for longer.                                   *)
LEMMA RecentFacts ==
    ASSUME now \in Nat, NEW k \in Kinds, NEW s \in Nat, NEW t \in Nat, s <= t, t <= now, Recent(k, s)
    PROVE  Recent(k, t)
BY WindowFacts DEF Recent

LEMMA RecentShrinks ==
    ASSUME now \in Nat, now' \in Nat, now <= now', shared' = shared,
           NEW k \in Kinds, NEW s \in Nat, s <= now, Recent(k, s)'
    PROVE  Recent(k, s)
BY WindowFacts DEF Recent, Window

LEMMA UnderWayFacts ==
    ASSUME NEW jobs, NEW p, NEW k, NEW n
    PROVE  /\ IsFiniteSet(UnderWay(jobs, p, k, n)) /\ Cardinality(UnderWay(jobs, p, k, n)) \in Nat
<1>1. UnderWay(jobs, p, k, n) \in SUBSET Attempts
  BY DEF UnderWay
<1> QED
  BY <1>1, RateLimitAssumption, FS_Subset, FS_CardinalityType

LEMMA LetThroughFacts ==
    ASSUME LimitTypeOK, NEW p, NEW k, NEW n
    PROVE  /\ IsFiniteSet(LetThrough(p, k, n)) /\ Cardinality(LetThrough(p, k, n)) \in Nat
<1>1. LetThrough(p, k, n) \in SUBSET Attempts
  BY DEF LimitTypeOK, LetThrough, FailuresOf, Past, UnderWay
<1> QED
  BY <1>1, RateLimitAssumption, FS_Subset, FS_CardinalityType

(* The records of a key are finite in number, and by no more attempts.     *)
LEMMA MarksFinite ==
    ASSUME NEW S \in SUBSET MarkRows
    PROVE  /\ IsFiniteSet(S) /\ Cardinality(S) \in Nat
           /\ IsFiniteSet({m.by : m \in S}) /\ Cardinality({m.by : m \in S}) <= Cardinality(S)
           /\ Cardinality({m.by : m \in S}) \in Nat
<1>1. IsFiniteSet(Times)
  BY RateLimitAssumption, FS_Interval DEF Times
<1>2. IsFiniteSet(Attempts \X Times)
  BY <1>1, RateLimitAssumption, FS_Product
<1>3. IsFiniteSet(S)
  <2> DEFINE f == [m \in S |-> <<m.by, m.time>>]
  <2>1. f \in [S -> Attempts \X Times]
    BY DEF MarkRows
  <2>2. \A m, o \in S : f[m] = f[o] => m = o
    BY DEF MarkRows
  <2> HIDE DEF f
  <2>3. f \in Injection(S, Attempts \X Times)
    BY <2>1, <2>2 DEF Injection, IsInjective
  <2> QED
    BY <1>2, <2>3, FS_Injection
<1>4. [m \in S |-> m.by] \in Surjection(S, {m.by : m \in S})
  BY DEF Surjection
<1> QED
  BY <1>3, <1>4, FS_Surjection, FS_CardinalityType

LEMMA LimitInitially == LimitInit => LimitInv
<1> SUFFICES ASSUME LimitInit PROVE LimitInv
  OBVIOUS
<1>1. \A a \in Attempts : attempt[a] = New
  BY DEF LimitInit
<1>2. New.at = "new" /\ "new" \notin Under
  BY DEF New, Under
<1>3. LimitTypeOK
  <2>1. New \in JobRows
    BY DEF New, JobRows, Kinds, Places
  <2>2. 0 \in Times
    BY RateLimitAssumption DEF Times
  <2> QED
    BY <2>1, <2>2 DEF LimitInit, LimitTypeOK, JobRows, FailureRows, MarkRows
<1>4. JobsShaped /\ FailuresShaped /\ Counted
  BY <1>1, <1>2 DEF LimitInit, JobsShaped, FailuresShaped, Counted
<1>5. ASSUME NEW p \in Places, NEW k \in Kinds, NEW n \in Names
      PROVE  /\ \A m \in marks[p][k][n] : m.time <= now
             /\ Cardinality(UnderWay(attempt, p, k, n)) <= peak[p][k][n]
             /\ Bounded(p, k, n)
  <2>1. UnderWay(attempt, p, k, n) = {} /\ LetThrough(p, k, n) = {}
    BY <1>1, <1>2 DEF LimitInit, UnderWay, LetThrough, FailuresOf, Past
  <2>2. marks[p][k][n] = {} /\ peak[p][k][n] = 0
    BY DEF LimitInit
  <2> QED
    BY <2>1, <2>2, WindowFacts, FS_EmptySet DEF Bounded
<1> QED
  BY <1>3, <1>4, <1>5 DEF LimitInv

(* Dropping what is too old keeps what is recent.                          *)
LEMMA PrunedFacts ==
    ASSUME LimitTypeOK, NEW p \in Places, NEW k \in Kinds
    PROVE  /\ Pruned(p, k) \in [Places -> [Kinds -> [Names -> SUBSET MarkRows]]]
           /\ \A q \in Places, l \in Kinds, x \in Names :
                /\ Pruned(p, k)[q][l][x] \subseteq marks[q][l][x]
                /\ \A m \in marks[q][l][x] : Recent(l, m.time) => m \in Pruned(p, k)[q][l][x]
<1> DEFINE some == [l \in Kinds |-> [n \in Names |->
                      IF SameMap(k, l) THEN {m \in marks[p][l][n] : Recent(l, m.time)} ELSE marks[p][l][n]]]
<1>0. marks \in [Places -> [Kinds -> [Names -> SUBSET MarkRows]]]
  BY DEF LimitTypeOK, MarkRows
<1>1. some \in [Kinds -> [Names -> SUBSET MarkRows]]
  BY <1>0
<1>2. \A l \in Kinds, x \in Names :
        /\ some[l][x] \subseteq marks[p][l][x]
        /\ \A m \in marks[p][l][x] : Recent(l, m.time) => m \in some[l][x]
  OBVIOUS
<1>3. Pruned(p, k) = IF shared THEN marks ELSE [marks EXCEPT ![p] = some]
  BY DEF Pruned
<1> HIDE DEF some
<1> QED
  BY <1>0, <1>1, <1>2, <1>3

LEMMA RecordedFacts ==
    ASSUME LimitTypeOK, NEW a \in Attempts, NEW p \in Places, NEW k \in Kinds, NEW n \in Names
    PROVE  /\ Recorded(a, p, k, n) \in [Places -> [Kinds -> [Names -> SUBSET MarkRows]]]
           /\ \A q \in Places, l \in Kinds, x \in Names :
                /\ Recorded(a, p, k, n)[q][l][x] \subseteq marks[q][l][x] \cup {[by |-> a, time |-> now]}
                /\ \A m \in marks[q][l][x] : Recent(l, m.time) => m \in Recorded(a, p, k, n)[q][l][x]
           /\ [by |-> a, time |-> now] \in Recorded(a, p, k, n)[p][k][n]
<1> DEFINE less == Pruned(p, k)
           new == [by |-> a, time |-> now]
<1>1. new \in MarkRows
  BY DEF LimitTypeOK, MarkRows
<1>2. /\ less \in [Places -> [Kinds -> [Names -> SUBSET MarkRows]]]
      /\ \A q \in Places, l \in Kinds, x \in Names :
           /\ less[q][l][x] \subseteq marks[q][l][x]
           /\ \A m \in marks[q][l][x] : Recent(l, m.time) => m \in less[q][l][x]
  BY PrunedFacts
<1>3. Recorded(a, p, k, n) = [less EXCEPT ![p][k][n] = @ \cup {new}]
  BY DEF Recorded
<1> HIDE DEF less, new
<1>4. /\ Recorded(a, p, k, n) \in [Places -> [Kinds -> [Names -> SUBSET MarkRows]]]
      /\ Recorded(a, p, k, n)[p][k][n] = less[p][k][n] \cup {new}
      /\ \A q \in Places, l \in Kinds, x \in Names :
           ~(q = p /\ l = k /\ x = n) => Recorded(a, p, k, n)[q][l][x] = less[q][l][x]
  BY <1>1, <1>2, <1>3
<1>5. ASSUME NEW q \in Places, NEW l \in Kinds, NEW x \in Names
      PROVE  /\ Recorded(a, p, k, n)[q][l][x] \subseteq marks[q][l][x] \cup {new}
             /\ \A m \in marks[q][l][x] : Recent(l, m.time) => m \in Recorded(a, p, k, n)[q][l][x]
  <2>1. CASE q = p /\ l = k /\ x = n
    BY <1>2, <1>4, <2>1
  <2>2. CASE ~(q = p /\ l = k /\ x = n)
    BY <1>2, <1>4, <2>2
  <2> QED
    BY <2>1, <2>2
<1>6. new \in Recorded(a, p, k, n)[p][k][n]
  BY <1>4
<1> QED
  BY <1>4, <1>5, <1>6 DEF new

-----------------------------------------------------------------------------
(* What every step of an attempt that is under way keeps.                  *)
Onward(a, row) ==
    /\ row \in JobRows
    /\ attempt' = [attempt EXCEPT ![a] = row]
    /\ \/ row.at = "over"
       \/ /\ row.at \in Under
          /\ row.kind = attempt[a].kind /\ row.on = attempt[a].on
          /\ row.account = attempt[a].account /\ row.address = attempt[a].address
    /\ row.at \in Under /\ row.at # "noteAddress" => row.kind # "post"

LEMMA OnwardFacts ==
    ASSUME LimitInv, NEW a \in Attempts, attempt[a].at \in Under, NEW row, Onward(a, row)
    PROVE  /\ attempt' \in [Attempts -> JobRows]
           /\ attempt'[a] = row /\ \A b \in Attempts : b # a => attempt'[b] = attempt[b]
           /\ JobsShaped'
           /\ \A p, k, n : UnderWay(attempt', p, k, n) \subseteq UnderWay(attempt, p, k, n)
<1>1. attempt \in [Attempts -> JobRows]
  BY DEF LimitInv, LimitTypeOK, JobRows
<1>2. /\ attempt' \in [Attempts -> JobRows]
      /\ attempt'[a] = row /\ \A b \in Attempts : b # a => attempt'[b] = attempt[b]
  BY <1>1 DEF Onward
<1>3. JobsShaped'
  BY <1>2 DEF LimitInv, JobsShaped, Onward, Under
<1>4. ASSUME NEW p, NEW k, NEW n, NEW b \in UnderWay(attempt', p, k, n)
      PROVE  b \in UnderWay(attempt, p, k, n)
  BY <1>2, <1>4 DEF UnderWay, Onward, NamesOf, Under
<1> QED
  BY <1>2, <1>3, <1>4

LEMMA PeakStays ==
    ASSUME LimitInv, NEW p \in Places, NEW k \in Kinds, NEW n \in Names, peak' = peak,
           UnderWay(attempt', p, k, n) \subseteq UnderWay(attempt, p, k, n)
    PROVE  Cardinality(UnderWay(attempt', p, k, n)) <= peak'[p][k][n]
<1>1. Cardinality(UnderWay(attempt', p, k, n)) <= Cardinality(UnderWay(attempt, p, k, n))
  BY UnderWayFacts, FS_Subset
<1>2. peak[p][k][n] \in Nat
  BY DEF LimitInv, LimitTypeOK
<1> QED
  BY <1>1, <1>2, UnderWayFacts DEF LimitInv

(* The bound stays where no more attempts count.                           *)
LEMMA BoundStays ==
    ASSUME LimitInv, NEW p \in Places, NEW k \in Kinds, NEW n \in Names,
           peak'[p][k][n] \in Nat, peak[p][k][n] <= peak'[p][k][n],
           LetThrough(p, k, n)' \subseteq LetThrough(p, k, n)
    PROVE  Bounded(p, k, n)'
<1>1. /\ IsFiniteSet(LetThrough(p, k, n)) /\ Cardinality(LetThrough(p, k, n)) \in Nat
  BY LetThroughFacts DEF LimitInv
<1>2. /\ Cardinality(LetThrough(p, k, n)') <= Cardinality(LetThrough(p, k, n))
      /\ Cardinality(LetThrough(p, k, n)') \in Nat
  BY <1>1, FS_Subset, FS_CardinalityType
<1>3. peak[p][k][n] \in Nat /\ Limit(k, n) \in Nat
  BY WindowFacts DEF LimitInv, LimitTypeOK
<1> QED
  BY <1>1, <1>2, <1>3 DEF LimitInv, Bounded

LEMMA RowTimes ==
    ASSUME LimitInv
    PROVE  /\ now \in Nat
           /\ \A f \in failed : f \in FailureRows /\ f.time \in Nat /\ f.time <= now
           /\ \A p \in Places, k \in Kinds, n \in Names : \A m \in marks[p][k][n] :
                m \in MarkRows /\ m.time \in Nat /\ m.time <= now
<1>1. Times \subseteq Nat
  BY RateLimitAssumption DEF Times
<1>2. now \in Times /\ failed \subseteq FailureRows
      /\ marks \in [Places -> [Kinds -> [Names -> SUBSET MarkRows]]]
  BY DEF LimitInv, LimitTypeOK, FailureRows, MarkRows
<1>3. /\ \A f \in FailureRows : f.time \in Times
      /\ \A m \in MarkRows : m.time \in Times
  BY DEF FailureRows, MarkRows
<1>4. \A f \in failed : f.time <= now
  BY DEF LimitInv, FailuresShaped
<1>5. ASSUME NEW p \in Places, NEW k \in Kinds, NEW n \in Names, NEW m \in marks[p][k][n]
      PROVE  m \in MarkRows /\ m.time <= now
  BY <1>2 DEF LimitInv
<1> QED
  BY <1>1, <1>2, <1>3, <1>4, <1>5

(* A key's failures are of attempts that its count knows or that are still *)
(* under way.                                                              *)
RecentMarks(p, k, n) == {m \in marks[p][k][n] : Recent(k, m.time)}

LEMMA FailuresSeen ==
    ASSUME LimitInv, NEW p \in Places, NEW k \in Kinds, NEW n \in Names, NEW f \in FailuresOf(p, k, n)
    PROVE  f.by \in {m.by : m \in RecentMarks(p, k, n)} \cup UnderWay(attempt, p, k, n)
<1>1. /\ f \in failed /\ f.at = p /\ f.kind = k /\ f.name = n /\ Recent(k, f.time)
  BY DEF FailuresOf
<1>2. Noted(f) \/ Unnoted(f)
  BY <1>1 DEF LimitInv, Counted
<1>3. CASE Noted(f)
  <2>1. PICK m \in marks[p][k][n] : m.by = f.by /\ m.time >= f.time
    BY <1>1, <1>3 DEF Noted
  <2>2. /\ now \in Nat /\ f.time \in Nat /\ m.time \in Nat /\ m.time <= now
    BY <1>1, RowTimes
  <2>3. Recent(k, m.time)
    BY <1>1, <2>1, <2>2, RecentFacts
  <2> QED
    BY <2>1, <2>3 DEF RecentMarks
<1>4. CASE Unnoted(f)
  <2>1. f.by \in Attempts
    BY <1>1, RowTimes DEF FailureRows
  <2>2. /\ attempt[f.by].at \in Under /\ attempt[f.by].on = p /\ attempt[f.by].kind = k
        /\ n \in NamesOf(attempt[f.by])
    BY <1>1, <1>4 DEF LimitInv, FailuresShaped, Unnoted, Under
  <2> QED
    BY <2>1, <2>2 DEF UnderWay
<1> QED
  BY <1>2, <1>3, <1>4

(* A look that finds the key open.                                         *)
LEMMA LookBound ==
    ASSUME LimitInv, NEW p \in Places, NEW k \in Kinds, NEW n \in Names,
           CountOf(p, k, n) < Limit(k, n), peak'[p][k][n] \in Nat,
           Cardinality(UnderWay(attempt', p, k, n)) <= peak'[p][k][n],
           LetThrough(p, k, n)' \subseteq {m.by : m \in RecentMarks(p, k, n)} \cup UnderWay(attempt', p, k, n)
    PROVE  Bounded(p, k, n)'
<1> DEFINE S == RecentMarks(p, k, n)
           B == {m.by : m \in S}
           U == UnderWay(attempt', p, k, n)
<1>1. S \in SUBSET MarkRows
  BY DEF LimitInv, LimitTypeOK, MarkRows, RecentMarks
<1>2. Cardinality(S) < Limit(k, n)
  BY DEF CountOf, RecentMarks
<1>3. /\ IsFiniteSet(B) /\ Cardinality(B) <= Cardinality(S)
      /\ Cardinality(B) \in Nat /\ Cardinality(S) \in Nat
  BY <1>1, MarksFinite
<1>4. IsFiniteSet(U) /\ Cardinality(U) \in Nat
  BY UnderWayFacts
<1> HIDE DEF S, B, U
<1>5. /\ IsFiniteSet(B \cup U)
      /\ Cardinality(B \cup U) = Cardinality(B) + Cardinality(U) - Cardinality(B \cap U)
  BY <1>3, <1>4, FS_Union
<1>6. Cardinality(B \cap U) \in Nat
  <2>1. B \cap U \in SUBSET U
    OBVIOUS
  <2> QED
    BY <1>4, <2>1, FS_Subset, FS_CardinalityType
<1>7. LetThrough(p, k, n)' \in SUBSET (B \cup U)
  BY DEF B, U, S
<1>8. /\ Cardinality(LetThrough(p, k, n)') <= Cardinality(B \cup U)
      /\ Cardinality(LetThrough(p, k, n)') \in Nat
  BY <1>5, <1>7, FS_Subset, FS_CardinalityType
<1>9. Cardinality(B \cup U) \in Nat
  BY <1>5, FS_CardinalityType
<1>10. Limit(k, n) \in Nat
  BY WindowFacts
<1>11. Cardinality(LetThrough(p, k, n)') < Limit(k, n) + peak'[p][k][n]
  BY <1>2, <1>3, <1>4, <1>5, <1>6, <1>8, <1>9, <1>10, SMT DEF U
<1> QED
  BY <1>11 DEF Bounded, Limit

(* An attempt that has had its looks lets no other through.                *)
LEMMA OnwardBound ==
    ASSUME LimitInv, NEW a \in Attempts, attempt[a].at \in Under, NEW row, Onward(a, row),
           row.at # "account", now' = now, shared' = shared, peak' = peak,
           NEW p \in Places, NEW k \in Kinds, NEW n \in Names,
           n \in Addresses \/ attempt[a].at # "account" \/ row.at = "over"
               \/ p # attempt[a].on \/ k # attempt[a].kind \/ n # attempt[a].account,
           \A f \in failed' :
               \/ f \in failed
               \/ /\ f.by = a /\ attempt[a].at # "account" /\ f.at = attempt[a].on
                  /\ f.kind = attempt[a].kind /\ f.name \in NamesOf(attempt[a])
    PROVE  Bounded(p, k, n)'
<1>1. /\ attempt'[a] = row /\ \A b \in Attempts : b # a => attempt'[b] = attempt[b]
      /\ UnderWay(attempt', p, k, n) \subseteq UnderWay(attempt, p, k, n)
  BY OnwardFacts
<1>2. ASSUME NEW b \in Past(p, k, n)' PROVE b \in Past(p, k, n)
  <2>1. /\ b \in Attempts /\ b \in UnderWay(attempt', p, k, n)
        /\ b \in UnderWay(attempt, p, k, n)
        /\ n \in Addresses \/ attempt'[b].at # "account"
    BY <1>1, <1>2 DEF Past, UnderWay
  <2>2. CASE b # a
    BY <1>1, <2>1, <2>2 DEF Past
  <2>3. CASE b = a
    <3>1. /\ row.at \in Under /\ attempt[a].on = p /\ attempt[a].kind = k /\ n \in NamesOf(attempt[a])
      BY <1>1, <2>1, <2>3 DEF UnderWay
    <3>2. row.at # "over"
      BY <3>1 DEF Under
    <3>3. n \in Addresses \/ n = attempt[a].account
      BY <3>1 DEF NamesOf, LimitInv, JobsShaped
    <3> QED
      BY <2>1, <2>3, <3>1, <3>2, <3>3 DEF Past
  <2> QED
    BY <2>2, <2>3
<1>3. ASSUME NEW f \in FailuresOf(p, k, n)' PROVE f.by \in LetThrough(p, k, n)
  <2>1. /\ f \in failed' /\ f.at = p /\ f.kind = k /\ f.name = n /\ Recent(k, f.time)
    BY <1>3 DEF FailuresOf, Recent, Window
  <2>2. CASE f \in failed
    BY <2>1, <2>2 DEF LetThrough, FailuresOf
  <2>3. CASE f \notin failed
    BY <2>1, <2>3 DEF LetThrough, Past, UnderWay
  <2> QED
    BY <2>2, <2>3
<1>4. LetThrough(p, k, n)' \subseteq LetThrough(p, k, n)
  BY <1>2, <1>3 DEF LetThrough
<1>5. peak'[p][k][n] \in Nat /\ peak[p][k][n] <= peak'[p][k][n]
  BY DEF LimitInv, LimitTypeOK
<1> QED
  BY <1>4, <1>5, BoundStays

(* What remains to be shown of a step of an attempt under way.             *)
LEMMA OnwardStep ==
    ASSUME LimitInv, NEW a \in Attempts, attempt[a].at \in Under, NEW row, Onward(a, row),
           now' = now, shared' = shared, peak' = peak,
           marks' \in [Places -> [Kinds -> [Names -> SUBSET MarkRows]]],
           \A p \in Places, k \in Kinds, n \in Names : \A m \in marks'[p][k][n] :
               m \in marks[p][k][n] \/ m.time = now,
           failed' \subseteq FailureRows, FailuresShaped', Counted',
           \A p \in Places, k \in Kinds, n \in Names : Bounded(p, k, n)'
    PROVE  LimitInv'
<1>1. LimitTypeOK'
  <2>1. attempt' \in [Attempts -> JobRows]
    BY OnwardFacts
  <2> QED
    BY <2>1 DEF LimitInv, LimitTypeOK, JobRows, MarkRows, FailureRows
<1>2. JobsShaped'
  BY OnwardFacts
<1>3. ASSUME NEW p \in Places, NEW k \in Kinds, NEW n \in Names
      PROVE  /\ \A m \in marks'[p][k][n] : m.time <= now'
             /\ Cardinality(UnderWay(attempt', p, k, n)) <= peak'[p][k][n]
  <2>1. UnderWay(attempt', p, k, n) \subseteq UnderWay(attempt, p, k, n)
    BY OnwardFacts
  <2>2. now \in Nat /\ \A m \in marks[p][k][n] : m.time <= now
    BY RowTimes
  <2> QED
    BY <2>1, <2>2, PeakStays
<1> QED
  BY <1>1, <1>2, <1>3 DEF LimitInv

(* What is recorded stays recorded while it is recent.                     *)
LEMMA StaysNoted ==
    ASSUME LimitInv, NEW f \in failed, Noted(f), Recent(f.kind, f.time),
           \A m \in marks[f.at][f.kind][f.name] :
               Recent(f.kind, m.time) => m \in marks'[f.at][f.kind][f.name]
    PROVE  \E m \in marks'[f.at][f.kind][f.name] : m.by = f.by /\ m.time >= f.time
<1>1. f \in FailureRows /\ f.at \in Places /\ f.kind \in Kinds /\ f.name \in Names
  BY RowTimes DEF FailureRows
<1>2. PICK m \in marks[f.at][f.kind][f.name] : m.by = f.by /\ m.time >= f.time
  BY DEF Noted
<1>3. now \in Nat /\ f.time \in Nat /\ m.time \in Nat /\ m.time <= now
  BY <1>1, RowTimes
<1>4. Recent(f.kind, m.time)
  BY <1>1, <1>2, <1>3, RecentFacts
<1> QED
  BY <1>2, <1>4

(* A record that is about to be made is made, and no other is lost.        *)
LEMMA CountedStep ==
    ASSUME LimitInv, NEW a \in Attempts, NEW row,
           attempt'[a] = row, \A b \in Attempts : b # a => attempt'[b] = attempt[b],
           now' = now, shared' = shared, failed' \subseteq failed,
           \A f \in failed' : \A m \in marks[f.at][f.kind][f.name] :
               Recent(f.kind, m.time) => m \in marks'[f.at][f.kind][f.name],
           \A f \in failed' : f.by = a /\ Unnoted(f) =>
               \/ [by |-> a, time |-> now] \in marks'[f.at][f.kind][f.name]
               \/ row.at = "noteAddress" /\ f.name \in Addresses
    PROVE  Counted'
<1> SUFFICES ASSUME NEW f \in failed', Recent(f.kind, f.time)' PROVE Noted(f)' \/ Unnoted(f)'
  BY DEF Counted
<1>1. f \in failed /\ Recent(f.kind, f.time)
  BY DEF Recent, Window
<1>2. f.by \in Attempts /\ f.time <= now
  BY <1>1, RowTimes DEF FailureRows
<1>3. CASE Noted(f)
  BY <1>1, <1>3, StaysNoted DEF Noted
<1>4. CASE Unnoted(f) /\ f.by # a
  BY <1>2, <1>4 DEF Unnoted
<1>5. CASE Unnoted(f) /\ f.by = a
  <2>1. CASE row.at = "noteAddress" /\ f.name \in Addresses
    BY <1>5, <2>1 DEF Unnoted
  <2>2. CASE [by |-> a, time |-> now] \in marks'[f.at][f.kind][f.name]
    BY <1>2, <1>5, <2>2 DEF Noted
  <2> QED
    BY <1>5, <2>1, <2>2
<1> QED
  BY <1>1, <1>3, <1>4, <1>5 DEF LimitInv, Counted

LEMMA LookAccountStep ==
    ASSUME LimitInv, NEW a \in Attempts, LookAccount(a)
    PROVE  LimitInv'
<1> DEFINE j == attempt[a]
           open == CountOf(j.on, j.kind, j.account) < MaxAccount
           row == IF open THEN [j EXCEPT !.at = "compare"] ELSE [New EXCEPT !.at = "over"]
<1>1. /\ j \in JobRows /\ j.at = "account" /\ j.at \in Under /\ j.account \in Accounts /\ j.kind # "post"
  BY DEF LookAccount, LimitInv, LimitTypeOK, JobRows, JobsShaped, Under
<1>2. /\ row \in JobRows /\ row.at = IF open THEN "compare" ELSE "over"
      /\ open => /\ row.kind = j.kind /\ row.on = j.on
                 /\ row.account = j.account /\ row.address = j.address
  BY <1>1 DEF JobRows, Under, New, Kinds, Places
<1>3. /\ attempt' = [attempt EXCEPT ![a] = row] /\ UNCHANGED <<now, shared, failed, peak>>
      /\ marks' = Pruned(j.on, j.kind)
  BY DEF LookAccount, Goto, Stop
<1> HIDE DEF row
<1>4. Onward(a, row)
  BY <1>1, <1>2, <1>3 DEF Onward, Under
<1>5. j.on \in Places /\ j.kind \in Kinds
  BY <1>1 DEF JobRows
<1>6. /\ marks' \in [Places -> [Kinds -> [Names -> SUBSET MarkRows]]]
      /\ \A q \in Places, l \in Kinds, x \in Names :
           /\ marks'[q][l][x] \subseteq marks[q][l][x]
           /\ \A m \in marks[q][l][x] : Recent(l, m.time) => m \in marks'[q][l][x]
  BY <1>3, <1>5, PrunedFacts DEF LimitInv
<1>7. attempt'[a] = row /\ \A b \in Attempts : b # a => attempt'[b] = attempt[b]
  BY <1>1, <1>4, OnwardFacts
<1> HIDE DEF j, open
<1>8. \A f \in failed : f.by # a
  BY <1>1, RowTimes DEF j, LimitInv, FailuresShaped
<1>9. FailuresShaped'
  BY <1>3, <1>7, <1>8, RowTimes DEF LimitInv, FailuresShaped, FailureRows
<1>10. Counted'
  <2>1. \A f \in failed' : f.at \in Places /\ f.kind \in Kinds /\ f.name \in Names
    BY <1>3, RowTimes DEF FailureRows
  <2> QED
    BY ZenonT(60), <1>3, <1>6, <1>7, <1>8, <2>1, CountedStep
<1>11. failed' \subseteq FailureRows
  BY <1>3, RowTimes
<1>12. ASSUME NEW p \in Places, NEW k \in Kinds, NEW n \in Names
       PROVE  Bounded(p, k, n)'
  <2>1. CASE ~open \/ p # j.on \/ k # j.kind \/ n # j.account
    <3>1. row.at # "account" /\ j.at \in Under
      BY <1>1, <1>2
    <3>2. n \in Addresses \/ attempt[a].at # "account" \/ row.at = "over"
               \/ p # attempt[a].on \/ k # attempt[a].kind \/ n # attempt[a].account
      BY <1>2, <2>1 DEF j
    <3> QED
      BY <1>3, <1>4, <3>1, <3>2, OnwardBound DEF j
  <2>2. CASE open /\ p = j.on /\ k = j.kind /\ n = j.account
    <3>1. CountOf(p, k, n) < Limit(k, n)
      BY <1>1, <2>2 DEF open, Limit
    <3>2. UnderWay(attempt', p, k, n) = UnderWay(attempt, p, k, n)
      BY <1>1, <1>2, <1>7, <2>2 DEF UnderWay, j, NamesOf, Under
    <3>3. /\ peak'[p][k][n] \in Nat /\ Cardinality(UnderWay(attempt', p, k, n)) <= peak'[p][k][n]
      BY <1>3, <3>2 DEF LimitInv, LimitTypeOK
    <3>4. LetThrough(p, k, n)' \subseteq {m.by : m \in RecentMarks(p, k, n)} \cup UnderWay(attempt', p, k, n)
      <4>1. FailuresOf(p, k, n)' = FailuresOf(p, k, n)
        BY <1>3 DEF FailuresOf, Recent, Window
      <4>2. \A f \in FailuresOf(p, k, n) :
              f.by \in {m.by : m \in RecentMarks(p, k, n)} \cup UnderWay(attempt, p, k, n)
        BY FailuresSeen
      <4>3. Past(p, k, n)' \subseteq UnderWay(attempt', p, k, n)
        BY DEF Past
      <4> QED
        BY <3>2, <4>1, <4>2, <4>3 DEF LetThrough
    <3> QED
      BY <3>1, <3>3, <3>4, LookBound
  <2> QED
    BY <2>1, <2>2
<1> QED
  BY <1>1, <1>3, <1>4, <1>6, <1>9, <1>10, <1>11, <1>12, OnwardStep DEF j

LEMMA CompareStep ==
    ASSUME LimitInv, NEW a \in Attempts, CompareRight(a) \/ CompareWrong(a)
    PROVE  LimitInv'
<1> DEFINE j == attempt[a]
           wrong == {[by |-> a, at |-> j.on, kind |-> j.kind, name |-> n, time |-> now] : n \in NamesOf(j)}
<1>1. /\ j \in JobRows /\ j.at = "compare" /\ j.at \in Under
      /\ j.account \in Accounts /\ j.address \in Addresses /\ j.kind # "post"
  BY DEF CompareRight, CompareWrong, LimitInv, LimitTypeOK, JobRows, JobsShaped, Under
<1>2. PICK to \in {"clear", "noteAccount"} :
        /\ attempt' = [attempt EXCEPT ![a].at = to]
        /\ IF to = "clear" THEN failed' = failed ELSE failed' = failed \cup wrong
        /\ UNCHANGED <<now, shared, marks, peak>>
  BY DEF CompareRight, CompareWrong, Goto
<1> DEFINE row == [j EXCEPT !.at = to]
<1>3. /\ row \in JobRows /\ row.at = to /\ row.kind = j.kind /\ row.on = j.on
      /\ row.account = j.account /\ row.address = j.address
  BY <1>1 DEF JobRows, Under
<1>4. attempt' = [attempt EXCEPT ![a] = row]
  BY <1>2
<1> HIDE DEF row
<1>5. Onward(a, row)
  BY <1>1, <1>3, <1>4 DEF Onward, Under
<1>6. attempt'[a] = row /\ \A b \in Attempts : b # a => attempt'[b] = attempt[b]
  BY <1>1, <1>5, OnwardFacts
<1>7. \A f \in wrong : /\ f \in FailureRows /\ f.by = a /\ f.at = j.on /\ f.kind = j.kind
                       /\ f.name \in NamesOf(j) /\ f.time = now
  <2>1. j.on \in Places /\ j.kind \in Kinds /\ now \in Times /\ NamesOf(j) \subseteq Names
    BY <1>1 DEF JobRows, NamesOf, Names, LimitInv, LimitTypeOK
  <2> TAKE f \in wrong
  <2>2. PICK n \in NamesOf(j) :
          f = [by |-> a, at |-> j.on, kind |-> j.kind, name |-> n, time |-> now]
    BY Zenon
  <2> HIDE DEF j, wrong
  <2>3. n \in Names
    BY <2>1, <2>2
  <2> QED
    BY <2>1, <2>2, <2>3 DEF FailureRows
<1>8. \A f, g \in wrong : f.name = g.name => f = g
  <2> TAKE f, g \in wrong
  <2>1. PICK n \in NamesOf(j) :
          f = [by |-> a, at |-> j.on, kind |-> j.kind, name |-> n, time |-> now]
    BY Zenon
  <2>2. PICK m \in NamesOf(j) :
          g = [by |-> a, at |-> j.on, kind |-> j.kind, name |-> m, time |-> now]
    BY Zenon
  <2> HIDE DEF j, wrong
  <2>3. f.name = n /\ g.name = m
    BY <2>1, <2>2
  <2> QED
    BY <2>1, <2>2, <2>3
<1>9. NamesOf(row) = NamesOf(j)
  BY <1>3 DEF NamesOf
<1> HIDE DEF j, wrong
<1>10. \A f \in failed : f.by # a
  BY <1>1, RowTimes DEF j, LimitInv, FailuresShaped
<1>11. FailuresShaped'
  <2>1. ASSUME NEW f \in failed'
        PROVE  /\ f.time <= now
               /\ LET i == attempt'[f.by] IN
                  \/ i.at = "over"
                  \/ /\ i.at \in {"noteAccount", "noteAddress"} /\ i.kind # "post"
                     /\ f.at = i.on /\ f.kind = i.kind /\ f.name \in NamesOf(i)
    <3>1. CASE f \in failed
      <4>1. f.by \in Attempts /\ f.by # a /\ attempt'[f.by] = attempt[f.by]
        BY <1>6, <1>10, <3>1, RowTimes DEF FailureRows
      <4> QED
        BY <3>1, <4>1 DEF LimitInv, FailuresShaped
    <3>2. CASE f \in wrong /\ to = "noteAccount"
      <4>0. now \in Nat
        BY RowTimes
      <4>1. attempt'[f.by] = row /\ f.time <= now
        BY <1>6, <1>7, <3>2, <4>0
      <4>2. row.kind # "post"
        BY <1>1, <1>3
      <4> QED
        BY <1>3, <1>7, <1>9, <3>2, <4>1, <4>2
    <3> QED
      BY <1>2, <3>1, <3>2
  <2>2. ASSUME NEW f \in failed', NEW g \in failed', f.by = g.by, f.name = g.name
        PROVE  f = g
    <3>1. CASE f \in failed /\ g \in failed
      BY <2>2, <3>1 DEF LimitInv, FailuresShaped
    <3>2. CASE f \in wrong /\ g \in wrong
      BY <1>8, <2>2, <3>2
    <3> QED
      BY <1>2, <1>7, <1>10, <2>2, <3>1, <3>2
  <2> QED
    BY <1>2, <2>1, <2>2 DEF FailuresShaped
<1>12. Counted'
  <2> SUFFICES ASSUME NEW f \in failed', Recent(f.kind, f.time)' PROVE Noted(f)' \/ Unnoted(f)'
    BY DEF Counted
  <2>1. CASE f \in failed
    <3>1. f.by \in Attempts /\ f.by # a
      BY <1>10, <2>1, RowTimes DEF FailureRows
    <3>2. Noted(f) \/ Unnoted(f)
      BY <1>2, <2>1 DEF LimitInv, Counted, Recent, Window
    <3> QED
      BY <1>2, <1>6, <3>1, <3>2 DEF Noted, Unnoted
  <2>2. CASE f \in wrong /\ to = "noteAccount"
    BY <1>3, <1>6, <1>7, <2>2 DEF Unnoted
  <2> QED
    BY <1>2, <2>1, <2>2
<1>13. failed' \subseteq FailureRows
  BY <1>2, <1>7, RowTimes
<1>14. ASSUME NEW p \in Places, NEW k \in Kinds, NEW n \in Names
       PROVE  Bounded(p, k, n)'
  <2>1. \A f \in failed' :
               \/ f \in failed
               \/ /\ f.by = a /\ attempt[a].at # "account" /\ f.at = attempt[a].on
                  /\ f.kind = attempt[a].kind /\ f.name \in NamesOf(attempt[a])
    BY <1>1, <1>2, <1>7 DEF j
  <2>2. row.at # "account" /\ attempt[a].at \in Under /\ attempt[a].at # "account"
    BY <1>1, <1>3 DEF j
  <2> QED
    BY <1>2, <1>5, <2>1, <2>2, OnwardBound
<1>15. /\ marks' \in [Places -> [Kinds -> [Names -> SUBSET MarkRows]]]
       /\ \A p \in Places, k \in Kinds, n \in Names : \A m \in marks'[p][k][n] :
               m \in marks[p][k][n] \/ m.time = now
  BY <1>2 DEF LimitInv, LimitTypeOK, MarkRows
<1> QED
  BY <1>1, <1>2, <1>5, <1>11, <1>12, <1>13, <1>14, <1>15, OnwardStep DEF j

LEMMA NoteAccountStep ==
    ASSUME LimitInv, NEW a \in Attempts, NoteAccount(a)
    PROVE  LimitInv'
<1> DEFINE j == attempt[a]
           row == [j EXCEPT !.at = "noteAddress"]
           new == [by |-> a, time |-> now]
<1>1. /\ j \in JobRows /\ j.at = "noteAccount" /\ j.at \in Under
      /\ j.account \in Accounts /\ j.address \in Addresses /\ j.kind # "post"
  BY DEF NoteAccount, LimitInv, LimitTypeOK, JobRows, JobsShaped, Under
<1>2. /\ row \in JobRows /\ row.at = "noteAddress" /\ row.kind = j.kind /\ row.on = j.on
      /\ row.account = j.account /\ row.address = j.address
  BY <1>1 DEF JobRows, Under
<1>3. /\ attempt' = [attempt EXCEPT ![a] = row] /\ UNCHANGED <<now, shared, failed, peak>>
      /\ marks' = Recorded(a, j.on, j.kind, j.account)
  BY DEF NoteAccount, Goto
<1> HIDE DEF row
<1>4. Onward(a, row)
  BY <1>1, <1>2, <1>3 DEF Onward, Under
<1>5. attempt'[a] = row /\ \A b \in Attempts : b # a => attempt'[b] = attempt[b]
  BY <1>1, <1>4, OnwardFacts
<1>6. j.on \in Places /\ j.kind \in Kinds /\ j.account \in Names
  BY <1>1 DEF JobRows, Names
<1>7. /\ marks' \in [Places -> [Kinds -> [Names -> SUBSET MarkRows]]]
      /\ \A q \in Places, l \in Kinds, x \in Names :
           /\ marks'[q][l][x] \subseteq marks[q][l][x] \cup {new}
           /\ \A m \in marks[q][l][x] : Recent(l, m.time) => m \in marks'[q][l][x]
      /\ new \in marks'[j.on][j.kind][j.account]
  <2>1. LimitTypeOK
    BY DEF LimitInv
  <2>2. marks' = Recorded(a, j.on, j.kind, j.account)
    BY <1>3
  <2> HIDE DEF j
  <2> QED
    BY <1>6, <2>1, <2>2, RecordedFacts
<1>8. NamesOf(row) = NamesOf(j) /\ NamesOf(j) = {j.account, j.address}
  BY <1>1, <1>2 DEF NamesOf
<1> HIDE DEF j
<1>9. FailuresShaped'
  <2>1. ASSUME NEW f \in failed
        PROVE  /\ f.time <= now
               /\ LET i == attempt'[f.by] IN
                  \/ i.at = "over"
                  \/ /\ i.at \in {"noteAccount", "noteAddress"} /\ i.kind # "post"
                     /\ f.at = i.on /\ f.kind = i.kind /\ f.name \in NamesOf(i)
    <3>1. CASE f.by = a
      BY <1>1, <1>2, <1>5, <1>8, <3>1, RowTimes DEF j, LimitInv, FailuresShaped
    <3>2. CASE f.by # a
      <4>1. attempt'[f.by] = attempt[f.by]
        BY <1>5, <3>2, RowTimes DEF FailureRows
      <4> QED
        BY <4>1 DEF LimitInv, FailuresShaped
    <3> QED
      BY <3>1, <3>2
  <2> QED
    BY <1>3, <2>1 DEF LimitInv, FailuresShaped
<1>10. Counted'
  <2>0. failed' \subseteq failed /\ now' = now /\ shared' = shared
    BY <1>3
  <2>1. \A f \in failed' : f.at \in Places /\ f.kind \in Kinds /\ f.name \in Names
    BY <1>3, RowTimes DEF FailureRows
  <2>2. ASSUME NEW f \in failed', f.by = a
        PROVE  \/ new \in marks'[f.at][f.kind][f.name]
               \/ row.at = "noteAddress" /\ f.name \in Addresses
    <3>1. f.at = j.on /\ f.kind = j.kind /\ f.name \in NamesOf(j)
      BY <1>1, <1>3, <2>2 DEF j, LimitInv, FailuresShaped
    <3> QED
      BY <1>1, <1>2, <1>7, <1>8, <3>1
  <2>3. \A f \in failed' : \A m \in marks[f.at][f.kind][f.name] :
           Recent(f.kind, m.time) => m \in marks'[f.at][f.kind][f.name]
    BY <1>7, <2>1
  <2>4. \A f \in failed' : f.by = a /\ Unnoted(f) =>
           \/ [by |-> a, time |-> now] \in marks'[f.at][f.kind][f.name]
           \/ row.at = "noteAddress" /\ f.name \in Addresses
    BY <2>2
  <2> QED
    BY <1>5, <2>0, <2>3, <2>4, CountedStep
<1>11. failed' \subseteq FailureRows
  BY <1>3, RowTimes
<1>12. ASSUME NEW p \in Places, NEW k \in Kinds, NEW n \in Names
       PROVE  Bounded(p, k, n)'
  <2>1. row.at # "account" /\ attempt[a].at \in Under /\ attempt[a].at # "account"
    BY <1>1, <1>2 DEF j
  <2> QED
    BY <1>3, <1>4, <2>1, OnwardBound
<1>13. \A p \in Places, k \in Kinds, n \in Names : \A m \in marks'[p][k][n] :
               m \in marks[p][k][n] \/ m.time = now
  BY <1>7
<1> QED
  BY <1>1, <1>3, <1>4, <1>7, <1>9, <1>10, <1>11, <1>12, <1>13, OnwardStep DEF j

LEMMA NoteAddressStep ==
    ASSUME LimitInv, NEW a \in Attempts, NoteAddress(a)
    PROVE  LimitInv'
<1> DEFINE j == attempt[a]
           row == [New EXCEPT !.at = "over"]
           new == [by |-> a, time |-> now]
           run == [by |-> a, at |-> j.on, kind |-> "post", name |-> j.address, time |-> now]
<1>1. /\ j \in JobRows /\ j.at = "noteAddress" /\ j.at \in Under
      /\ j.account \in Accounts /\ j.address \in Addresses
  BY DEF NoteAddress, LimitInv, LimitTypeOK, JobRows, JobsShaped, Under
<1>2. row \in JobRows /\ row.at = "over"
  BY DEF JobRows, New, Kinds, Places
<1>3. /\ attempt' = [attempt EXCEPT ![a] = row] /\ UNCHANGED <<now, shared, peak>>
      /\ marks' = Recorded(a, j.on, j.kind, j.address)
      /\ IF j.kind # "post" THEN failed' = failed ELSE failed' = failed \cup {run}
  BY DEF NoteAddress, Stop
<1> HIDE DEF row
<1>4. Onward(a, row)
  BY <1>1, <1>2, <1>3 DEF Onward, Under
<1>5. attempt'[a] = row /\ \A b \in Attempts : b # a => attempt'[b] = attempt[b]
  BY <1>1, <1>4, OnwardFacts
<1>6. j.on \in Places /\ j.kind \in Kinds /\ j.address \in Names
  BY <1>1 DEF JobRows, Names
<1>7. /\ marks' \in [Places -> [Kinds -> [Names -> SUBSET MarkRows]]]
      /\ \A q \in Places, l \in Kinds, x \in Names :
           /\ marks'[q][l][x] \subseteq marks[q][l][x] \cup {new}
           /\ \A m \in marks[q][l][x] : Recent(l, m.time) => m \in marks'[q][l][x]
      /\ new \in marks'[j.on][j.kind][j.address]
  <2>1. LimitTypeOK
    BY DEF LimitInv
  <2>2. marks' = Recorded(a, j.on, j.kind, j.address)
    BY <1>3
  <2> HIDE DEF j, run
  <2> QED
    BY <1>6, <2>1, <2>2, RecordedFacts
<1>8. /\ run \in FailureRows /\ run.by = a /\ run.at = j.on /\ run.kind = "post"
      /\ run.name = j.address /\ run.time = now
  BY <1>6 DEF FailureRows, Kinds, LimitInv, LimitTypeOK
<1>9. j.kind = "post" => \A f \in failed : f.by # a
  BY <1>1 DEF LimitInv, FailuresShaped
<1>10. now \in Nat /\ new.by = a /\ new.time = now
  BY RowTimes
<1> HIDE DEF j, run, new
<1>11. failed' \subseteq FailureRows
  BY <1>3, <1>8, RowTimes
<1>12. FailuresShaped'
  <2>1. ASSUME NEW f \in failed'
        PROVE  /\ f.time <= now
               /\ LET i == attempt'[f.by] IN
                  \/ i.at = "over"
                  \/ /\ i.at \in {"noteAccount", "noteAddress"} /\ i.kind # "post"
                     /\ f.at = i.on /\ f.kind = i.kind /\ f.name \in NamesOf(i)
    <3>1. f.time <= now
      BY <1>3, <1>8, <1>10, RowTimes
    <3>2. CASE f.by = a
      BY <1>2, <1>5, <3>1, <3>2
    <3>3. CASE f.by # a
      <4>1. f \in failed /\ attempt'[f.by] = attempt[f.by]
        BY <1>3, <1>5, <1>8, <3>3, RowTimes DEF FailureRows
      <4> QED
        BY <3>1, <4>1 DEF LimitInv, FailuresShaped
    <3> QED
      BY <3>2, <3>3
  <2>2. ASSUME NEW f \in failed', NEW g \in failed', f.by = g.by, f.name = g.name
        PROVE  f = g
    BY <1>3, <1>8, <1>9, <2>2 DEF LimitInv, FailuresShaped
  <2> QED
    BY <1>3, <2>1, <2>2 DEF FailuresShaped
<1>13. Counted'
  <2> SUFFICES ASSUME NEW f \in failed', Recent(f.kind, f.time)' PROVE Noted(f)' \/ Unnoted(f)'
    BY DEF Counted
  <2>1. Recent(f.kind, f.time)
    BY <1>3 DEF Recent, Window
  <2>2. CASE f = run /\ j.kind = "post"
    <3>1. new \in marks'[f.at][f.kind][f.name] /\ new.by = f.by /\ new.time >= f.time
      BY <1>7, <1>8, <1>10, <2>2
    <3> QED
      BY <3>1 DEF Noted
  <2>3. CASE f \in failed
    <3>1. /\ f.by \in Attempts /\ f.at \in Places /\ f.kind \in Kinds /\ f.name \in Names
          /\ f.time \in Nat /\ f.time <= now
      BY <2>3, RowTimes DEF FailureRows
    <3>2. CASE Noted(f)
      <4>1. \A m \in marks[f.at][f.kind][f.name] :
              Recent(f.kind, m.time) => m \in marks'[f.at][f.kind][f.name]
        BY <1>7, <3>1
      <4>2. \E m \in marks'[f.at][f.kind][f.name] : m.by = f.by /\ m.time >= f.time
        BY <2>1, <2>3, <3>2, <4>1, StaysNoted
      <4> QED
        BY <4>2 DEF Noted
    <3>3. CASE Unnoted(f) /\ f.by = a
      <4>1. f.at = j.on /\ f.kind = j.kind /\ f.name \in NamesOf(j) /\ f.name \in Addresses
        BY <1>1, <2>3, <3>3 DEF j, LimitInv, FailuresShaped, Unnoted
      <4>2. f.name = j.address
        BY <1>1, <4>1, RateLimitAssumption DEF NamesOf
      <4>3. new \in marks'[f.at][f.kind][f.name] /\ new.by = f.by /\ new.time >= f.time
        BY <1>7, <1>10, <3>1, <3>3, <4>1, <4>2
      <4> QED
        BY <4>3 DEF Noted
    <3>4. CASE Unnoted(f) /\ f.by # a
      BY <1>5, <3>1, <3>4 DEF Unnoted
    <3> QED
      BY <2>1, <2>3, <3>2, <3>3, <3>4 DEF LimitInv, Counted
  <2> QED
    BY <1>3, <2>2, <2>3
<1>14. ASSUME NEW p \in Places, NEW k \in Kinds, NEW n \in Names
       PROVE  Bounded(p, k, n)'
  <2>1. row.at # "account" /\ attempt[a].at \in Under /\ attempt[a].at # "account"
    BY <1>1, <1>2 DEF j
  <2>2. j.kind = "post" => run.name \in NamesOf(j)
    BY <1>8 DEF NamesOf
  <2>3. \A f \in failed' :
               \/ f \in failed
               \/ /\ f.by = a /\ attempt[a].at # "account" /\ f.at = attempt[a].on
                  /\ f.kind = attempt[a].kind /\ f.name \in NamesOf(attempt[a])
    BY <1>3, <1>8, <2>1, <2>2 DEF j
  <2> QED
    BY <1>3, <1>4, <2>1, <2>3, OnwardBound
<1>15. \A p \in Places, k \in Kinds, n \in Names : \A m \in marks'[p][k][n] :
               m \in marks[p][k][n] \/ m.time = now
  BY <1>7, <1>10
<1> QED
  BY <1>1, <1>3, <1>4, <1>7, <1>11, <1>12, <1>13, <1>14, <1>15, OnwardStep DEF j

(* Failures that are forgiven or that nobody is left to record.            *)
LEMMA FewerFailures ==
    ASSUME LimitInv, NEW a \in Attempts, attempt[a].at \in Under,
           attempt' = [attempt EXCEPT ![a] = [New EXCEPT !.at = "over"]],
           UNCHANGED <<now, shared, peak>>, failed' \subseteq failed,
           marks' \in [Places -> [Kinds -> [Names -> SUBSET MarkRows]]],
           \A p \in Places, k \in Kinds, n \in Names : marks'[p][k][n] \subseteq marks[p][k][n],
           \A f \in failed' : /\ marks'[f.at][f.kind][f.name] = marks[f.at][f.kind][f.name]
                              /\ f.by = a => ~Unnoted(f)
    PROVE  LimitInv'
<1> DEFINE row == [New EXCEPT !.at = "over"]
<1>1. row \in JobRows /\ row.at = "over"
  BY DEF JobRows, New, Kinds, Places
<1> HIDE DEF row
<1>2. Onward(a, row)
  BY <1>1 DEF Onward, Under, row
<1>3. attempt'[a] = row /\ \A b \in Attempts : b # a => attempt'[b] = attempt[b]
  BY <1>2, OnwardFacts
<1>4. FailuresShaped'
  <2>1. ASSUME NEW f \in failed'
        PROVE  /\ f.time <= now
               /\ LET i == attempt'[f.by] IN
                  \/ i.at = "over"
                  \/ /\ i.at \in {"noteAccount", "noteAddress"} /\ i.kind # "post"
                     /\ f.at = i.on /\ f.kind = i.kind /\ f.name \in NamesOf(i)
    <3>1. f \in failed /\ f.time <= now
      BY RowTimes
    <3>2. CASE f.by = a
      BY <1>1, <1>3, <3>1, <3>2
    <3>3. CASE f.by # a
      <4>1. attempt'[f.by] = attempt[f.by]
        BY <1>3, <3>1, <3>3, RowTimes DEF FailureRows
      <4> QED
        BY <3>1, <4>1 DEF LimitInv, FailuresShaped
    <3> QED
      BY <3>2, <3>3
  <2> QED
    BY <2>1 DEF LimitInv, FailuresShaped
<1>5. Counted'
  <2>1. now' = now /\ shared' = shared
    OBVIOUS
  <2>2. \A f \in failed' : \A m \in marks[f.at][f.kind][f.name] :
          Recent(f.kind, m.time) => m \in marks'[f.at][f.kind][f.name]
    OBVIOUS
  <2> QED
    BY <1>3, <2>1, <2>2, CountedStep
<1>6. failed' \subseteq FailureRows
  BY RowTimes
<1>7. ASSUME NEW p \in Places, NEW k \in Kinds, NEW n \in Names
      PROVE  Bounded(p, k, n)'
  <2>1. row.at # "account" /\ row.at = "over" /\ now' = now /\ shared' = shared /\ peak' = peak
    BY <1>1
  <2> QED
    BY <1>2, <2>1, OnwardBound
<1>8. \A p \in Places, k \in Kinds, n \in Names : \A m \in marks'[p][k][n] :
               m \in marks[p][k][n] \/ m.time = now
  OBVIOUS
<1> QED
  BY <1>2, <1>4, <1>5, <1>6, <1>7, <1>8, OnwardStep

LEMMA ClearStep ==
    ASSUME LimitInv, NEW a \in Attempts, LimitClear(a)
    PROVE  LimitInv'
<1> DEFINE j == attempt[a]
<1>1. /\ j.on \in Places /\ j.kind \in Kinds /\ j.account \in Names /\ j.at \in Under
  BY DEF LimitClear, LimitInv, LimitTypeOK, JobsShaped, Under, Names
<1>2. j.at = "clear"
  BY DEF LimitClear
<1>3. /\ attempt' = [attempt EXCEPT ![a] = [New EXCEPT !.at = "over"]]
      /\ marks' = [marks EXCEPT ![j.on][j.kind][j.account] = {}]
      /\ failed' = {f \in failed : ~(f.at = j.on /\ f.kind = j.kind /\ f.name = j.account)}
      /\ UNCHANGED <<now, shared, peak>>
  BY DEF LimitClear, Stop
<1> HIDE DEF j
<1>4. marks \in [Places -> [Kinds -> [Names -> SUBSET MarkRows]]]
  BY DEF LimitInv, LimitTypeOK, MarkRows
<1>5. /\ marks' \in [Places -> [Kinds -> [Names -> SUBSET MarkRows]]]
      /\ \A p \in Places, k \in Kinds, n \in Names :
           /\ marks'[p][k][n] \subseteq marks[p][k][n]
           /\ ~(p = j.on /\ k = j.kind /\ n = j.account) => marks'[p][k][n] = marks[p][k][n]
  BY <1>1, <1>3, <1>4
<1>6. ASSUME NEW f \in failed'
      PROVE  /\ marks'[f.at][f.kind][f.name] = marks[f.at][f.kind][f.name]
             /\ f.by = a => ~Unnoted(f)
  <2>1. /\ f \in failed /\ f.at \in Places /\ f.kind \in Kinds /\ f.name \in Names
        /\ ~(f.at = j.on /\ f.kind = j.kind /\ f.name = j.account)
    BY <1>3, RowTimes DEF FailureRows
  <2> QED
    BY <1>2, <1>5, <2>1 DEF Unnoted, j
<1>7. failed' \subseteq failed
  BY <1>3
<1>8. attempt[a].at \in Under
  BY <1>1 DEF j
<1> QED
  BY <1>3, <1>5, <1>6, <1>7, <1>8, FewerFailures

LEMMA AbortStep ==
    ASSUME LimitInv, NEW a \in Attempts, LimitAbort(a)
    PROVE  LimitInv'
<1>1. /\ attempt[a].at \in Under /\ attempt' = [attempt EXCEPT ![a] = [New EXCEPT !.at = "over"]]
      /\ failed' = failed \ Unrecorded({a}) /\ UNCHANGED <<now, shared, marks, peak>>
  BY DEF LimitAbort, Stop
<1>2. marks' \in [Places -> [Kinds -> [Names -> SUBSET MarkRows]]]
  BY <1>1 DEF LimitInv, LimitTypeOK, MarkRows
<1>3. \A f \in failed' : f.by = a => ~Unnoted(f)
  BY <1>1 DEF Unrecorded, Unnoted
<1> QED
  BY <1>1, <1>2, <1>3, FewerFailures

(* A new attempt is under way with the others of its keys.                 *)
LEMMA LookAddressStep ==
    ASSUME LimitInv, NEW a \in Attempts, NEW k \in Kinds, NEW c \in Accounts, NEW i \in Addresses,
           NEW r \in Replicas, LookAddress(a, k, c, i, r)
    PROVE  LimitInv'
<1> DEFINE p == Place(r)
           row == [at |-> IF k = "post" THEN "noteAddress" ELSE "account",
                   kind |-> k, account |-> c, address |-> i, on |-> p]
<1>1. p \in Places /\ i \in Names /\ c \in Names
  BY DEF Place, Places, Names
<1>2. /\ attempt[a].at = "new" /\ CountOf(p, k, i) < Limit(k, i)
      /\ attempt' = [attempt EXCEPT ![a] = row] /\ marks' = Pruned(p, k)
      /\ peak' = PeakWith(attempt') /\ UNCHANGED <<now, shared, failed>>
  BY DEF LookAddress
<1> HIDE DEF p
<1>3. /\ row \in JobRows /\ row.kind = k /\ row.account = c /\ row.address = i /\ row.on = p
      /\ row.at = IF k = "post" THEN "noteAddress" ELSE "account"
  BY <1>1 DEF JobRows, Under
<1> HIDE DEF row
<1>4. /\ attempt' \in [Attempts -> JobRows]
      /\ attempt'[a] = row /\ \A b \in Attempts : b # a => attempt'[b] = attempt[b]
  BY <1>2, <1>3 DEF LimitInv, LimitTypeOK, JobRows
<1>5. \A f \in failed : f.by \in Attempts /\ f.by # a
  BY <1>2, RowTimes DEF LimitInv, FailuresShaped, FailureRows
<1>6. /\ marks' \in [Places -> [Kinds -> [Names -> SUBSET MarkRows]]]
      /\ \A q \in Places, l \in Kinds, x \in Names :
           /\ marks'[q][l][x] \subseteq marks[q][l][x]
           /\ \A m \in marks[q][l][x] : Recent(l, m.time) => m \in marks'[q][l][x]
  BY <1>1, <1>2, PrunedFacts DEF LimitInv
<1>7. /\ peak' \in [Places -> [Kinds -> [Names -> Nat]]]
      /\ \A q \in Places, l \in Kinds, x \in Names :
           /\ peak[q][l][x] <= peak'[q][l][x] /\ peak'[q][l][x] \in Nat
           /\ Cardinality(UnderWay(attempt', q, l, x)) <= peak'[q][l][x]
  <2>1. \A q \in Places, l \in Kinds, x \in Names :
          Cardinality(UnderWay(attempt', q, l, x)) \in Nat /\ peak[q][l][x] \in Nat
    BY UnderWayFacts DEF LimitInv, LimitTypeOK
  <2>2. \A q \in Places, l \in Kinds, x \in Names :
          peak'[q][l][x] = IF peak[q][l][x] < Cardinality(UnderWay(attempt', q, l, x))
                           THEN Cardinality(UnderWay(attempt', q, l, x)) ELSE peak[q][l][x]
    BY <1>2 DEF PeakWith
  <2>3. peak' \in [Places -> [Kinds -> [Names -> Nat]]]
    BY <1>2, <2>1 DEF PeakWith
  <2> QED
    BY <2>1, <2>2, <2>3
<1>8. LimitTypeOK'
  BY <1>2, <1>4, <1>6, <1>7 DEF LimitInv, LimitTypeOK, JobRows, MarkRows
<1>9. JobsShaped'
  BY <1>3, <1>4 DEF LimitInv, JobsShaped
<1>10. FailuresShaped'
  <2>1. \A f \in failed : attempt'[f.by] = attempt[f.by]
    BY <1>4, <1>5
  <2> QED
    BY <1>2, <2>1 DEF LimitInv, FailuresShaped
<1>11. Counted'
  <2>1. now' = now /\ shared' = shared /\ failed' \subseteq failed
    BY <1>2
  <2>2. \A f \in failed' : \A m \in marks[f.at][f.kind][f.name] :
          Recent(f.kind, m.time) => m \in marks'[f.at][f.kind][f.name]
    BY <1>2, <1>6, RowTimes DEF FailureRows
  <2>3. \A f \in failed' : f.by # a
    BY <1>2, <1>5
  <2> QED
    BY <1>4, <2>1, <2>2, <2>3, CountedStep
<1>12. ASSUME NEW q \in Places, NEW l \in Kinds, NEW x \in Names
       PROVE  Bounded(q, l, x)'
  <2>1. FailuresOf(q, l, x)' = FailuresOf(q, l, x)
    BY <1>2 DEF FailuresOf, Recent, Window
  <2>2. Past(q, l, x)' \subseteq Past(q, l, x) \cup {a}
    BY <1>4 DEF Past, UnderWay
  <2>3. CASE q = p /\ l = k /\ x = i
    <3>1. UnderWay(attempt, p, k, i) \subseteq UnderWay(attempt', p, k, i)
      BY <1>2, <1>4 DEF UnderWay, Under
    <3>2. \A f \in FailuresOf(p, k, i) :
            f.by \in {m.by : m \in RecentMarks(p, k, i)} \cup UnderWay(attempt, p, k, i)
      BY <1>1, FailuresSeen
    <3>3. Past(q, l, x)' \subseteq UnderWay(attempt', q, l, x)
      BY DEF Past
    <3>4. LetThrough(q, l, x)' \subseteq {m.by : m \in RecentMarks(q, l, x)} \cup UnderWay(attempt', q, l, x)
      BY <2>1, <2>3, <3>1, <3>2, <3>3 DEF LetThrough
    <3> QED
      BY <1>2, <1>7, <2>3, <3>4, LookBound
  <2>4. CASE ~(q = p /\ l = k /\ x = i)
    <3>1. a \notin Past(q, l, x)'
      <4> SUFFICES ASSUME a \in Past(q, l, x)' PROVE FALSE
        OBVIOUS
      <4>1. /\ row.on = q /\ row.kind = l /\ x \in NamesOf(row)
            /\ x \in Addresses \/ row.at # "account"
        BY <1>4 DEF Past, UnderWay
      <4>2. x = i
        BY <1>3, <4>1, RateLimitAssumption DEF NamesOf
      <4> QED
        BY <1>3, <2>4, <4>1, <4>2
    <3>2. LetThrough(q, l, x)' \subseteq LetThrough(q, l, x)
      BY <2>1, <2>2, <3>1 DEF LetThrough
    <3> QED
      BY <1>7, <3>2, BoundStays
  <2> QED
    BY <2>3, <2>4
<1>13. ASSUME NEW q \in Places, NEW l \in Kinds, NEW x \in Names
       PROVE  \A m \in marks'[q][l][x] : m.time <= now'
  BY <1>2, <1>6, RowTimes
<1> QED
  BY <1>7, <1>8, <1>9, <1>10, <1>11, <1>12, <1>13 DEF LimitInv

(* The clock, the cleanup and a restart.                                   *)
LEMMA TickStep ==
    ASSUME LimitInv, Tick
    PROVE  LimitInv'
<1>1. /\ now \in Nat /\ now' = now + 1 /\ now' \in Times
      /\ UNCHANGED <<shared, attempt, marks, failed, peak>>
  BY RowTimes, RateLimitAssumption DEF Tick, Times
<1>2. LimitTypeOK'
  BY <1>1 DEF LimitInv, LimitTypeOK
<1>3. JobsShaped'
  BY <1>1 DEF LimitInv, JobsShaped
<1>4. FailuresShaped'
  <2>1. \A f \in failed : f.time <= now'
    BY <1>1, RowTimes
  <2> QED
    BY <1>1, <2>1 DEF LimitInv, FailuresShaped
<1>5. ASSUME NEW f \in failed, Recent(f.kind, f.time)'
      PROVE  Recent(f.kind, f.time)
  <2>1. now \in Nat /\ now' \in Nat /\ now <= now' /\ shared' = shared
    BY <1>1
  <2>2. f.kind \in Kinds /\ f.time \in Nat /\ f.time <= now
    BY RowTimes DEF FailureRows
  <2>3. Recent(f.kind, f.time)' <=> (IF shared THEN now' - f.time <= Window(f.kind) ELSE now' - f.time < Window(f.kind))
    BY <1>1 DEF Recent, Window
  <2> QED
    BY <1>5, <2>1, <2>2, <2>3, WindowFacts DEF Recent
<1>6. Counted'
  BY <1>1, <1>5 DEF LimitInv, Counted, Noted, Unnoted
<1>7. ASSUME NEW p \in Places, NEW k \in Kinds, NEW n \in Names
      PROVE  /\ \A m \in marks'[p][k][n] : m.time <= now'
             /\ Cardinality(UnderWay(attempt', p, k, n)) <= peak'[p][k][n]
             /\ Bounded(p, k, n)'
  <2>1. \A m \in marks'[p][k][n] : m.time <= now'
    BY <1>1, RowTimes
  <2>2. Cardinality(UnderWay(attempt', p, k, n)) <= peak'[p][k][n]
    BY <1>1 DEF LimitInv
  <2>3. FailuresOf(p, k, n)' \subseteq FailuresOf(p, k, n)
    BY <1>1, <1>5 DEF FailuresOf
  <2>4. Past(p, k, n)' = Past(p, k, n)
    BY <1>1 DEF Past
  <2>5. LetThrough(p, k, n)' \subseteq LetThrough(p, k, n)
    BY <2>3, <2>4 DEF LetThrough
  <2>6. peak'[p][k][n] \in Nat /\ peak[p][k][n] <= peak'[p][k][n]
    BY <1>1 DEF LimitInv, LimitTypeOK
  <2> QED
    BY <2>1, <2>2, <2>5, <2>6, BoundStays
<1> QED
  BY <1>2, <1>3, <1>4, <1>6, <1>7 DEF LimitInv

LEMMA CleanupFacts ==
    ASSUME LimitInv, Cleanup
    PROVE  /\ UNCHANGED <<now, shared, attempt, failed, peak>>
           /\ marks' \in [Places -> [Kinds -> [Names -> SUBSET MarkRows]]]
           /\ \A q \in Places, l \in Kinds, x \in Names :
                /\ marks'[q][l][x] \subseteq marks[q][l][x]
                /\ \A m \in marks[q][l][x] : Recent(l, m.time) => m \in marks'[q][l][x]
<1>1. marks \in [Places -> [Kinds -> [Names -> SUBSET MarkRows]]]
  BY DEF LimitInv, LimitTypeOK, MarkRows
<1> DEFINE some == [k \in Kinds |-> [n \in Names |-> {m \in marks[Table][k][n] : now - m.time <= Long}]]
<1>2. Table \in Places /\ some \in [Kinds -> [Names -> SUBSET MarkRows]]
  BY <1>1 DEF Places
<1>3. \A l \in Kinds, x \in Names :
        /\ some[l][x] \subseteq marks[Table][l][x]
        /\ \A m \in marks[Table][l][x] : now - m.time <= Long => m \in some[l][x]
  OBVIOUS
<1>4. shared /\ marks' = [marks EXCEPT ![Table] = some] /\ UNCHANGED <<now, shared, attempt, failed, peak>>
  BY DEF Cleanup
<1> HIDE DEF some
<1>5. ASSUME NEW l \in Kinds, NEW x \in Names, NEW m \in marks[Table][l][x], Recent(l, m.time)
      PROVE  now - m.time <= Long
  <2>1. now \in Nat /\ m.time \in Nat
    BY <1>2, RowTimes
  <2>2. Long \in Nat /\ Window(l) \in Nat /\ Window(l) <= Long
    BY WindowFacts, RateLimitAssumption
  <2> QED
    BY <1>4, <1>5, <2>1, <2>2 DEF Recent
<1> QED
  BY <1>1, <1>2, <1>3, <1>4, <1>5

LEMMA CleanupStep ==
    ASSUME LimitInv, Cleanup
    PROVE  LimitInv'
<1>1. UNCHANGED <<now, shared, attempt, failed, peak>>
  BY CleanupFacts
<1>2. LimitTypeOK'
  BY <1>1, CleanupFacts DEF LimitInv, LimitTypeOK, MarkRows
<1>3. JobsShaped' /\ FailuresShaped'
  BY <1>1 DEF LimitInv, JobsShaped, FailuresShaped
<1>4. Counted'
  <2> SUFFICES ASSUME NEW f \in failed, Recent(f.kind, f.time)' PROVE Noted(f)' \/ Unnoted(f)'
    BY <1>1 DEF Counted
  <2>1. Recent(f.kind, f.time)
    BY <1>1 DEF Recent, Window
  <2>2. f.at \in Places /\ f.kind \in Kinds /\ f.name \in Names
    BY RowTimes DEF FailureRows
  <2>3. \A m \in marks[f.at][f.kind][f.name] :
          Recent(f.kind, m.time) => m \in marks'[f.at][f.kind][f.name]
    BY <2>2, CleanupFacts
  <2>4. CASE Noted(f)
    BY <2>1, <2>3, <2>4, StaysNoted DEF Noted
  <2>5. CASE Unnoted(f)
    BY <1>1, <2>5 DEF Unnoted
  <2> QED
    BY <2>1, <2>4, <2>5 DEF LimitInv, Counted
<1>5. ASSUME NEW p \in Places, NEW k \in Kinds, NEW n \in Names
      PROVE  /\ \A m \in marks'[p][k][n] : m.time <= now'
             /\ Cardinality(UnderWay(attempt', p, k, n)) <= peak'[p][k][n]
             /\ Bounded(p, k, n)'
  <2>1. \A m \in marks'[p][k][n] : m.time <= now'
    BY <1>1, CleanupFacts, RowTimes
  <2>2. Cardinality(UnderWay(attempt', p, k, n)) <= peak'[p][k][n]
    BY <1>1 DEF LimitInv
  <2>3. LetThrough(p, k, n)' = LetThrough(p, k, n)
    BY <1>1 DEF LetThrough, FailuresOf, Past, Recent, Window
  <2>4. peak'[p][k][n] \in Nat /\ peak[p][k][n] <= peak'[p][k][n]
    BY <1>1 DEF LimitInv, LimitTypeOK
  <2> QED
    BY <2>1, <2>2, <2>3, <2>4, BoundStays
<1> QED
  BY <1>2, <1>3, <1>4, <1>5 DEF LimitInv

LEMMA RestartFacts ==
    ASSUME LimitInv, NEW r \in Replicas, LimitRestart(r)
    PROVE  /\ UNCHANGED <<now, shared, peak>> /\ r \in Places
           /\ failed' = {f \in failed : f.at # r}
           /\ marks' \in [Places -> [Kinds -> [Names -> SUBSET MarkRows]]]
           /\ \A k \in Kinds, n \in Names : marks'[r][k][n] = {}
           /\ \A p \in Places : p # r => marks'[p] = marks[p]
           /\ attempt' \in [Attempts -> JobRows]
           /\ \A a \in Attempts :
                IF attempt[a].on = r /\ attempt[a].at \in Under
                THEN attempt'[a].at = "over" ELSE attempt'[a] = attempt[a]
<1> DEFINE gone == [New EXCEPT !.at = "over"]
           here == {a \in Attempts : attempt[a].on = r /\ attempt[a].at \in Under}
<1>1. gone \in JobRows /\ gone.at = "over"
  BY DEF JobRows, New, Kinds, Places
<1>2. /\ attempt' = [a \in Attempts |-> IF a \in here THEN gone ELSE attempt[a]]
      /\ marks' = [marks EXCEPT ![r] = [k \in Kinds |-> [n \in Names |-> {}]]]
      /\ failed' = {f \in failed : f.at # r} /\ UNCHANGED <<now, shared, peak>>
  BY DEF LimitRestart
<1> HIDE DEF gone
<1>3. r \in Places
  BY DEF Places
<1>4. /\ attempt \in [Attempts -> JobRows]
      /\ marks \in [Places -> [Kinds -> [Names -> SUBSET MarkRows]]]
  BY DEF LimitInv, LimitTypeOK, JobRows, MarkRows
<1>5. /\ attempt' \in [Attempts -> JobRows]
      /\ \A a \in Attempts :
           IF attempt[a].on = r /\ attempt[a].at \in Under
           THEN attempt'[a].at = "over" ELSE attempt'[a] = attempt[a]
  BY <1>1, <1>2, <1>4
<1> QED
  BY <1>2, <1>3, <1>4, <1>5

LEMMA LimitRestartStep ==
    ASSUME LimitInv, NEW r \in Replicas, LimitRestart(r)
    PROVE  LimitInv'
<1>0. UNCHANGED <<now, shared, peak>> /\ failed' = {f \in failed : f.at # r}
  BY RestartFacts
<1>9. \A a \in Attempts :
        IF attempt[a].on = r /\ attempt[a].at \in Under
        THEN attempt'[a].at = "over" ELSE attempt'[a] = attempt[a]
  BY RestartFacts
<1>1. LimitTypeOK'
  <2>1. failed' \subseteq failed
    BY <1>0
  <2> QED
    BY <1>0, <2>1, RestartFacts DEF LimitInv, LimitTypeOK, JobRows, MarkRows
<1>2. JobsShaped'
  BY <1>9 DEF LimitInv, JobsShaped, Under
<1>3. FailuresShaped'
  <2>1. ASSUME NEW f \in failed'
        PROVE  /\ f.time <= now
               /\ LET i == attempt'[f.by] IN
                  \/ i.at = "over"
                  \/ /\ i.at \in {"noteAccount", "noteAddress"} /\ i.kind # "post"
                     /\ f.at = i.on /\ f.kind = i.kind /\ f.name \in NamesOf(i)
    <3>1. f \in failed /\ f.time <= now /\ f.by \in Attempts
      BY <1>0, RowTimes DEF FailureRows
    <3>2. attempt'[f.by].at = "over" \/ attempt'[f.by] = attempt[f.by]
      BY <1>9, <3>1
    <3> QED
      BY <3>1, <3>2 DEF LimitInv, FailuresShaped
  <2> QED
    BY <1>0, <2>1 DEF LimitInv, FailuresShaped
<1>4. Counted'
  <2> SUFFICES ASSUME NEW f \in failed', Recent(f.kind, f.time)' PROVE Noted(f)' \/ Unnoted(f)'
    BY DEF Counted
  <2>1. /\ f \in failed /\ f.at # r /\ Recent(f.kind, f.time)
        /\ f.at \in Places /\ f.kind \in Kinds /\ f.name \in Names /\ f.by \in Attempts
    BY <1>0, RowTimes DEF Recent, Window, FailureRows
  <2>2. CASE Noted(f)
    BY <2>1, <2>2, RestartFacts DEF Noted
  <2>3. CASE Unnoted(f)
    <3>1. attempt[f.by].on = f.at
      BY <2>1, <2>3 DEF LimitInv, FailuresShaped, Unnoted
    <3>2. attempt'[f.by] = attempt[f.by]
      BY <1>9, <2>1, <3>1
    <3> QED
      BY <2>3, <3>2 DEF Unnoted
  <2> QED
    BY <2>1, <2>2, <2>3 DEF LimitInv, Counted
<1>5. ASSUME NEW p \in Places, NEW k \in Kinds, NEW n \in Names
      PROVE  /\ \A m \in marks'[p][k][n] : m.time <= now'
             /\ Cardinality(UnderWay(attempt', p, k, n)) <= peak'[p][k][n]
             /\ Bounded(p, k, n)'
  <2>1. \A m \in marks'[p][k][n] : m.time <= now'
    <3>1. marks'[p][k][n] = {} \/ marks'[p][k][n] = marks[p][k][n]
      BY RestartFacts
    <3> QED
      BY <1>0, <3>1, RowTimes
  <2>2. UnderWay(attempt', p, k, n) \subseteq UnderWay(attempt, p, k, n)
    BY <1>9 DEF UnderWay, Under
  <2>3. Cardinality(UnderWay(attempt', p, k, n)) <= peak'[p][k][n]
    BY <1>0, <2>2, PeakStays
  <2>4. FailuresOf(p, k, n)' \subseteq FailuresOf(p, k, n)
    BY <1>0 DEF FailuresOf, Recent, Window
  <2>5. Past(p, k, n)' \subseteq Past(p, k, n)
    BY <1>9, <2>2 DEF Past, UnderWay, Under
  <2>6. LetThrough(p, k, n)' \subseteq LetThrough(p, k, n)
    BY <2>4, <2>5 DEF LetThrough
  <2>7. peak'[p][k][n] \in Nat /\ peak[p][k][n] <= peak'[p][k][n]
    BY <1>0 DEF LimitInv, LimitTypeOK
  <2> QED
    BY <2>1, <2>3, <2>6, <2>7, BoundStays
<1> QED
  BY <1>1, <1>2, <1>3, <1>4, <1>5 DEF LimitInv

LEMMA LimitStep ==
    ASSUME LimitInv, [LimitNext]_limitVars
    PROVE  LimitInv'
<1>1. CASE UNCHANGED limitVars
  <2>1. UNCHANGED <<now, shared, attempt, marks, failed, peak>>
    BY <1>1 DEF limitVars
  <2>2. LimitTypeOK' /\ JobsShaped' /\ FailuresShaped'
    BY <2>1 DEF LimitInv, LimitTypeOK, JobsShaped, FailuresShaped
  <2>3. Counted'
    BY <2>1 DEF LimitInv, Counted, Noted, Unnoted, Recent, Window
  <2>4. ASSUME NEW p \in Places, NEW k \in Kinds, NEW n \in Names
        PROVE  LetThrough(p, k, n)' = LetThrough(p, k, n)
    BY <2>1 DEF LetThrough, FailuresOf, Past, Recent, Window
  <2>5. ASSUME NEW p \in Places, NEW k \in Kinds, NEW n \in Names
        PROVE  /\ \A m \in marks'[p][k][n] : m.time <= now'
               /\ Cardinality(UnderWay(attempt', p, k, n)) <= peak'[p][k][n]
               /\ Bounded(p, k, n)'
    BY <2>1, <2>4 DEF LimitInv, Bounded
  <2> QED
    BY <2>2, <2>3, <2>5 DEF LimitInv
<1>2. ASSUME NEW a \in Attempts, NEW k \in Kinds, NEW c \in Accounts, NEW i \in Addresses,
             NEW r \in Replicas, LookAddress(a, k, c, i, r)
      PROVE  LimitInv'
  BY <1>2, LookAddressStep
<1>3. ASSUME NEW a \in Attempts,
             \/ LookAccount(a) \/ CompareRight(a) \/ CompareWrong(a)
             \/ NoteAccount(a) \/ NoteAddress(a) \/ LimitClear(a) \/ LimitAbort(a)
      PROVE  LimitInv'
  BY <1>3, LookAccountStep, CompareStep, NoteAccountStep, NoteAddressStep, ClearStep, AbortStep
<1>4. CASE Tick \/ Cleanup
  BY <1>4, TickStep, CleanupStep
<1>5. ASSUME NEW r \in Replicas, LimitRestart(r)
      PROVE  LimitInv'
  BY <1>5, LimitRestartStep
<1> QED
  BY <1>1, <1>2, <1>3, <1>4, <1>5 DEF LimitNext

(* Requests go through the limiters in the states LimitInv describes.      *)
LEMMA LimitInvHolds == LimitSpec => []LimitInv
BY LimitInitially, LimitStep, PTL DEF LimitSpec

(* The failures of a key within its window are of different attempts, each *)
(* let through by a look or under way with one that was                    *)
(* (auth/login_limiter.rs, auth/post_limiter.rs).                          *)
THEOREM LimitTheorem == LimitSpec => []LimitHolds
<1>1. LimitInv => LimitHolds
  <2> SUFFICES ASSUME LimitInv, NEW p \in Places, NEW k \in Kinds, NEW n \in Names
               PROVE  LET ofKey == {f \in failed : f.at = p /\ f.kind = k /\ f.name = n /\ Recent(k, f.time)}
                          over  == {f \in ofKey : attempt[f.by].at = "over"} IN
                      /\ ofKey = {} \/ Cardinality(ofKey) < Limit(k, n) + peak[p][k][n]
                      /\ {f.by : f \in over} \subseteq {m.by : m \in marks[p][k][n]}
    BY DEF LimitHolds
  <2> DEFINE F == FailuresOf(p, k, n)
             by == [f \in F |-> f.by]
  <2>1. by \in [F -> LetThrough(p, k, n)]
    BY DEF LetThrough
  <2>2. \A f, g \in F : by[f] = by[g] => f = g
    BY DEF FailuresOf, LimitInv, FailuresShaped
  <2>3. by \in Injection(F, LetThrough(p, k, n))
    <3> HIDE DEF by
    <3> QED
      BY <2>1, <2>2 DEF Injection, IsInjective
  <2>4. /\ IsFiniteSet(LetThrough(p, k, n)) /\ Cardinality(LetThrough(p, k, n)) \in Nat
    BY LetThroughFacts DEF LimitInv
  <2> HIDE DEF by
  <2>5. IsFiniteSet(F) /\ Cardinality(F) <= Cardinality(LetThrough(p, k, n)) /\ Cardinality(F) \in Nat
    BY <2>3, <2>4, FS_Injection, FS_CardinalityType
  <2>6. Limit(k, n) \in Nat /\ peak[p][k][n] \in Nat
    BY WindowFacts DEF LimitInv, LimitTypeOK
  <2>7. Cardinality(LetThrough(p, k, n)) < Limit(k, n) + peak[p][k][n]
    BY DEF LimitInv, Bounded
  <2>8. Cardinality(F) < Limit(k, n) + peak[p][k][n]
    BY <2>4, <2>5, <2>6, <2>7
  <2>9. ASSUME NEW f \in F, attempt[f.by].at = "over"
        PROVE  f.by \in {m.by : m \in marks[p][k][n]}
    <3>1. f \in failed /\ f.at = p /\ f.kind = k /\ f.name = n /\ Recent(f.kind, f.time)
      BY DEF FailuresOf
    <3>2. Noted(f)
      BY <2>9, <3>1 DEF LimitInv, Counted, Unnoted
    <3> QED
      BY <3>1, <3>2 DEF Noted
  <2> QED
    BY <2>8, <2>9 DEF FailuresOf
<1> QED
  BY <1>1, LimitInvHolds, PTL

(* The count of a key does not go down while its records are kept.         *)
LEMMA CountStays ==
    ASSUME LimitInv, NEW p \in Places, NEW k \in Kinds, NEW n \in Names, now' = now, shared' = shared,
           marks' \in [Places -> [Kinds -> [Names -> SUBSET MarkRows]]],
           \A m \in marks[p][k][n] : Recent(k, m.time) => m \in marks'[p][k][n]
    PROVE  ~(CountOf(p, k, n)' < CountOf(p, k, n))
<1> DEFINE old == {m \in marks[p][k][n] : Recent(k, m.time)}
           new == {m \in marks'[p][k][n] : Recent(k, m.time)}
<1>1. CountOf(p, k, n) = Cardinality(old)
  BY DEF CountOf
<1>2. CountOf(p, k, n)' = Cardinality(new)
  <2>1. \A m : Recent(k, m.time)' <=> Recent(k, m.time)
    BY DEF Recent, Window
  <2>2. {m \in marks'[p][k][n] : Recent(k, m.time)'} = new
    BY <2>1
  <2> QED
    BY <2>2 DEF CountOf
<1>3. new \in SUBSET MarkRows /\ old \in SUBSET MarkRows /\ old \in SUBSET new
  BY DEF LimitInv, LimitTypeOK, MarkRows
<1> HIDE DEF old, new
<1>4. /\ IsFiniteSet(new) /\ Cardinality(new) \in Nat /\ Cardinality(old) \in Nat
  BY <1>3, MarksFinite
<1>5. Cardinality(old) <= Cardinality(new)
  BY <1>3, <1>4, FS_Subset
<1> QED
  BY <1>1, <1>2, <1>4, <1>5

(* A step lowers the count of a locked key only so.                        *)
LEMMA LockedStays ==
    ASSUME LimitInv, LimitNext, NEW p \in Places, NEW k \in Kinds, NEW n \in Names
    PROVE  CountOf(p, k, n) >= Limit(k, n) /\ CountOf(p, k, n)' < CountOf(p, k, n)
           => \/ now' # now
              \/ \E a \in Attempts : /\ attempt[a].at = "clear" /\ attempt'[a].at = "over"
                                     /\ attempt[a].on = p /\ attempt[a].kind = k /\ attempt[a].account = n
              \/ p \in Replicas /\ UnderWay(attempt', p, k, n) = {} /\ marks'[p] # marks[p]
                   /\ \A l \in Kinds, x \in Names : marks'[p][l][x] = {}
<1> DEFINE Freed ==
             CountOf(p, k, n) >= Limit(k, n) /\ CountOf(p, k, n)' < CountOf(p, k, n)
             => \/ now' # now
                \/ \E a \in Attempts : /\ attempt[a].at = "clear" /\ attempt'[a].at = "over"
                                       /\ attempt[a].on = p /\ attempt[a].kind = k /\ attempt[a].account = n
                \/ p \in Replicas /\ UnderWay(attempt', p, k, n) = {} /\ marks'[p] # marks[p]
                     /\ \A l \in Kinds, x \in Names : marks'[p][l][x] = {}
<1>1. CASE Tick
  <2>1. now' # now
    BY <1>1, RowTimes DEF Tick
  <2> QED
    BY <2>1
<1>2. CASE Cleanup
  <2>1. ~(CountOf(p, k, n)' < CountOf(p, k, n))
    BY <1>2, CleanupFacts, CountStays
  <2> QED
    BY <2>1
<1>3. ASSUME NEW r \in Replicas, LimitRestart(r)
      PROVE  Freed
  <2>1. CASE p = r
    <3>1. UnderWay(attempt', p, k, n) = {}
      BY <1>3, <2>1, RestartFacts DEF UnderWay, Under
    <3>2. \A l \in Kinds, x \in Names : marks'[p][l][x] = {}
      BY <1>3, <2>1, RestartFacts
    <3>3. marks'[p] # marks[p] \/ ~(CountOf(p, k, n)' < CountOf(p, k, n))
      <4> SUFFICES ASSUME marks'[p] = marks[p] PROVE ~(CountOf(p, k, n)' < CountOf(p, k, n))
        OBVIOUS
      <4> QED
        BY <1>3, RestartFacts, CountStays
    <3> QED
      BY <2>1, <3>1, <3>2, <3>3
  <2>2. CASE p # r
    <3>1. ~(CountOf(p, k, n)' < CountOf(p, k, n))
      BY <1>3, <2>2, RestartFacts, CountStays
    <3> QED
      BY <3>1
  <2> QED
    BY <2>1, <2>2
<1>4. ASSUME NEW a \in Attempts, LimitClear(a)
      PROVE  Freed
  <2> DEFINE j == attempt[a]
  <2>1. /\ j.on \in Places /\ j.kind \in Kinds /\ j.account \in Names /\ j.at = "clear"
    BY <1>4 DEF LimitClear, LimitInv, LimitTypeOK, JobsShaped, Under, Names
  <2>2. /\ marks' = [marks EXCEPT ![j.on][j.kind][j.account] = {}]
        /\ attempt'[a].at = "over" /\ UNCHANGED <<now, shared>>
    BY <1>4 DEF LimitClear, Stop, New, LimitInv, LimitTypeOK
  <2>3. marks \in [Places -> [Kinds -> [Names -> SUBSET MarkRows]]]
    BY DEF LimitInv, LimitTypeOK, MarkRows
  <2> HIDE DEF j
  <2>4. CASE p = j.on /\ k = j.kind /\ n = j.account
    BY <2>1, <2>2, <2>4 DEF j
  <2>5. CASE ~(p = j.on /\ k = j.kind /\ n = j.account)
    <3>1. /\ marks' \in [Places -> [Kinds -> [Names -> SUBSET MarkRows]]]
          /\ marks'[p][k][n] = marks[p][k][n]
      BY <2>1, <2>2, <2>3, <2>5
    <3>2. ~(CountOf(p, k, n)' < CountOf(p, k, n))
      BY <2>2, <3>1, CountStays
    <3> QED
      BY <3>2
  <2> QED
    BY <2>4, <2>5
<1>5. ASSUME now' = now, shared' = shared, marks' = marks
      PROVE  Freed
  <2>1. marks' \in [Places -> [Kinds -> [Names -> SUBSET MarkRows]]]
    BY <1>5 DEF LimitInv, LimitTypeOK, MarkRows
  <2>2. ~(CountOf(p, k, n)' < CountOf(p, k, n))
    BY <1>5, <2>1, CountStays
  <2> QED
    BY <2>2
<1>6. ASSUME NEW a \in Attempts, CompareRight(a) \/ CompareWrong(a) \/ LimitAbort(a)
      PROVE  Freed
  BY <1>5, <1>6 DEF CompareRight, CompareWrong, LimitAbort
<1>7. ASSUME NEW q \in Places, NEW l \in Kinds, marks' = Pruned(q, l), now' = now, shared' = shared
      PROVE  Freed
  <2>1. ~(CountOf(p, k, n)' < CountOf(p, k, n))
    BY <1>7, PrunedFacts, CountStays DEF LimitInv
  <2> QED
    BY <2>1
<1>8. ASSUME NEW a \in Attempts, NEW l \in Kinds, NEW c \in Accounts, NEW i \in Addresses,
             NEW r \in Replicas, LookAddress(a, l, c, i, r)
      PROVE  Freed
  <2>1. Place(r) \in Places
    BY DEF Place, Places
  <2> QED
    BY <1>7, <1>8, <2>1 DEF LookAddress
<1>9. ASSUME NEW a \in Attempts
      PROVE  attempt[a].on \in Places /\ attempt[a].kind \in Kinds
             /\ (attempt[a].at \in Under => attempt[a].account \in Names /\ attempt[a].address \in Names)
  BY DEF LimitInv, LimitTypeOK, JobsShaped, Names
<1>10. ASSUME NEW a \in Attempts, LookAccount(a)
       PROVE  Freed
  BY <1>7, <1>9, <1>10 DEF LookAccount
<1>11. ASSUME NEW a \in Attempts, NEW x \in Names, marks' = Recorded(a, attempt[a].on, attempt[a].kind, x),
              now' = now, shared' = shared
       PROVE  Freed
  <2>1. ~(CountOf(p, k, n)' < CountOf(p, k, n))
    BY <1>9, <1>11, RecordedFacts, CountStays DEF LimitInv
  <2> QED
    BY <2>1
<1>12. ASSUME NEW a \in Attempts, NoteAccount(a) \/ NoteAddress(a)
       PROVE  Freed
  <2>1. attempt[a].at \in Under
    BY <1>12 DEF NoteAccount, NoteAddress, Under
  <2> QED
    BY <1>9, <1>11, <1>12, <2>1 DEF NoteAccount, NoteAddress
<1> QED
  BY <1>1, <1>2, <1>3, <1>4, <1>6, <1>8, <1>10, <1>12 DEF LimitNext

(* A locked key is freed by the clock, a success of its account or the end *)
(* of the process that held it, and by nothing else                        *)
(* (auth/rate_limit_store.rs, auth/login_limiter.rs).                      *)
THEOREM LocksTheorem == LimitSpec => LocksStand
<1>1. LimitInv /\ [LimitNext]_limitVars =>
        [\A p \in Places, k \in Kinds, n \in Names :
        /\ CountOf(p, k, n) >= Limit(k, n) /\ CountOf(p, k, n)' < CountOf(p, k, n)
        => \/ now' # now
           \/ \E a \in Attempts : /\ attempt[a].at = "clear" /\ attempt'[a].at = "over"
                                  /\ attempt[a].on = p /\ attempt[a].kind = k /\ attempt[a].account = n
           \/ p \in Replicas /\ UnderWay(attempt', p, k, n) = {} /\ marks'[p] # marks[p]
                /\ \A l \in Kinds, x \in Names : marks'[p][l][x] = {}]_limitVars
  BY LockedStays
<1> QED
  BY <1>1, LimitInvHolds, PTL DEF LimitSpec, LocksStand
=============================================================================
